-------------------------- MODULE LdapReplication --------------------------
(***************************************************************************)
(* The LDAP directories of an environment's coordinating nodes while       *)
(* dataone-cn-os-core is installed and updated on them, in any order and   *)
(* at the same time.  Every node's slapd pulls from the providers that     *)
(* configure_openldap wrote to its slapd.conf, and every node's run        *)
(* searches for the entries the directory starts with and adds those it    *)
(* did not find.  What may go wrong inside one run before slapd is up      *)
(* again is the subject of OsCorePostinst.                                 *)
(***************************************************************************)
EXTENDS Naturals, Sequences, FiniteSets

CONSTANTS
    Cluster,    \* cn.hostnamelist, and the node ids in the same order
    First,      \* the nodes where cn.openldap.firstcn is true
    Password,   \* what may be given for cn.openldap.password
    NoPassword, \* before the first configuration
    Person,     \* entries written while the nodes are in use
    Unstable,   \* the nodes whose slapd may stop by itself
    MaxRuns     \* bound on the runs of each node

CN == {Cluster[i] : i \in DOMAIN Cluster}

ASSUME Environment ==
    /\ Cluster \in Seq(CN) \ {<<>>} /\ Cardinality(CN) = Len(Cluster)
    /\ First \subseteq CN /\ Unstable \subseteq CN
    /\ NoPassword \notin Password
    /\ MaxRuns \in Nat

Base  == {"org", "dataone", "cilogon", "nodes"}
Entry == Base \union Person

VARIABLES
    pc,         \* where the run of each node is
    runs,       \* how many runs it has had
    populated,  \* debconf: cn.openldap.populated
    slapd,      \* whether slapd runs
    password,   \* of the directory's administrator, and what the consumer
                \* shows its providers
    open,       \* the nodes that may reach port 389
    tree,       \* the entries of the directory
    addedBy,    \* which nodes' runs have added each entry (history)
    lostAt      \* the entries some run of the node failed to add (history)

vars == <<pc, runs, populated, slapd, password, open, tree, addedBy, lostAt>>

Searches == {"org", "dataone", "cilogon"}
Adding   == [org |-> "addOrg", dataone |-> "addDataone", cilogon |-> "addCilogon"]
PC == {"idle", "stopped", "nodes", "mark"} \union Searches \union {Adding[e] : e \in Searches}

TypeOK ==
    /\ pc \in [CN -> PC]
    /\ runs \in [CN -> 0 .. MaxRuns]
    /\ populated \in [CN -> BOOLEAN]
    /\ slapd \in [CN -> BOOLEAN]
    /\ password \in [CN -> Password \union {NoPassword}]
    /\ open \in [CN -> SUBSET CN]
    /\ tree \in [CN -> SUBSET Entry]
    /\ addedBy \in [Base -> SUBSET CN]
    /\ lostAt \in [CN -> SUBSET Searches]

Init ==
    /\ pc = [c \in CN |-> "idle"]
    /\ runs = [c \in CN |-> 0]
    /\ populated = [c \in CN |-> FALSE]
    /\ slapd = [c \in CN |-> TRUE]
    /\ password = [c \in CN |-> NoPassword]
    /\ open = [c \in CN |-> {}]
    /\ tree = [c \in CN |-> {}]
    /\ addedBy = [e \in Base |-> {}]
    /\ lostAt = [c \in CN |-> {}]

-----------------------------------------------------------------------------
(* Whom a node pulls from.                                                 *)

\* cn.nodeids is stored with ';' between the ids, and read as words: the array
\* has one element, the whole list, unless there is only one id.
NodeIds == IF Len(Cluster) = 1 THEN Cluster ELSE << Cluster >>

\* Faulty variant of Providers: the place of the node id is off by one.
ProvidersOffByOne(c) ==
    {Cluster[i] : i \in {j \in DOMAIN Cluster : Cluster[(j % Len(Cluster)) + 1] # c}}

\* One provider for every address of cn.hostnamelist, but for those at whose
\* place the array of node ids holds this node's.
Providers(c) ==
    {Cluster[i] : i \in {j \in DOMAIN Cluster : ~(j \in DOMAIN NodeIds /\ NodeIds[j] = c)}}

Configured(c) == password[c] # NoPassword

\* One entry reaches consumer c from provider p: both run with the slapd.conf of
\* this package, the firewall of p lets c in, and p accepts the password.
Pull(c, p) ==
    /\ p \in Providers(c)
    /\ slapd[c] /\ slapd[p] /\ Configured(c) /\ Configured(p)
    /\ c = p \/ c \in open[p]
    /\ password[c] = password[p]
    /\ \E e \in tree[p] \ tree[c] :
          /\ e = "org" \/ "org" \in tree[c]
          /\ tree' = [tree EXCEPT ![c] = @ \union {e}]
    /\ UNCHANGED <<pc, runs, populated, slapd, password, open, addedBy, lostAt>>

-----------------------------------------------------------------------------
(* A run of the postinst on node c.                                        *)

\* configure_ufw: whom node c lets in at port 389 when the run has got to slapd.
\* Only a run that does not find the directory populated adds the rules.
Opened(c) == IF populated[c] THEN open[c] ELSE CN \ {c}

\* The firewall is set, and slapd is stopped and configured.
Begin(c, pw) ==
    /\ pc[c] = "idle" /\ runs[c] < MaxRuns
    /\ pc' = [pc EXCEPT ![c] = "stopped"]
    /\ runs' = [runs EXCEPT ![c] = @ + 1]
    /\ slapd' = [slapd EXCEPT ![c] = FALSE]
    /\ password' = [password EXCEPT ![c] = pw]
    /\ open' = [open EXCEPT ![c] = Opened(c)]
    /\ UNCHANGED <<populated, tree, addedBy, lostAt>>

\* From here on the others' entries arrive while the run looks for its own.
StartSlapd(c) ==
    /\ pc[c] = "stopped"
    /\ slapd' = [slapd EXCEPT ![c] = TRUE]
    /\ pc' = [pc EXCEPT ![c] = IF populated[c] THEN "idle" ELSE "org"]
    /\ UNCHANGED <<runs, populated, password, open, tree, addedBy, lostAt>>

\* Faulty variants of After: every node adds what the first one adds; the list
\* of nodes is added like the entries.
AfterEverywhere(c, e) ==
    CASE e = "org" -> "dataone" [] e = "dataone" -> "cilogon" [] e = "cilogon" -> "nodes"
AfterAddNodes(c, e) ==
    CASE e = "org" -> IF c \in First THEN "dataone" ELSE "mark"
      [] e = "dataone" -> "cilogon"
      [] e = "cilogon" -> "addNodes"

\* What follows entry e.
After(c, e) ==
    CASE e = "org" -> IF c \in First THEN "dataone" ELSE "mark"
      [] e = "dataone" -> "cilogon"
      [] e = "cilogon" -> "nodes"

\* Faulty variants of Search: an entry is never found; a search that fails
\* counts as an entry that is there.
SearchBlind(c, e) ==
    /\ pc[c] = e
    /\ pc' = [pc EXCEPT ![c] = Adding[e]]
    /\ UNCHANGED <<runs, populated, slapd, password, open, tree, addedBy, lostAt>>

SearchFailedIsFound(c, e) ==
    /\ pc[c] = e
    /\ pc' = [pc EXCEPT ![c] = IF slapd[c] => e \in tree[c] THEN After(c, e) ELSE Adding[e]]
    /\ UNCHANGED <<runs, populated, slapd, password, open, tree, addedBy, lostAt>>

\* ldapsearch; a search that fails counts as an entry that is missing.
Search(c, e) ==
    /\ pc[c] = e
    /\ pc' = [pc EXCEPT ![c] = IF slapd[c] /\ e \in tree[c] THEN After(c, e) ELSE Adding[e]]
    /\ UNCHANGED <<runs, populated, slapd, password, open, tree, addedBy, lostAt>>

Add(c, e) ==
    /\ pc[c] = Adding[e]
    /\ slapd[c] /\ e \notin tree[c]
    /\ tree' = [tree EXCEPT ![c] = @ \union {e}]
    /\ addedBy' = [addedBy EXCEPT ![e] = @ \union {c}]
    /\ pc' = [pc EXCEPT ![c] = After(c, e)]
    /\ UNCHANGED <<runs, populated, slapd, password, open, lostAt>>

\* The entry has arrived between the search and ldapadd: exit 75, 76 or 77.
AddLost(c, e) ==
    /\ pc[c] = Adding[e]
    /\ slapd[c] /\ e \in tree[c]
    /\ lostAt' = [lostAt EXCEPT ![c] = @ \union {e}]
    /\ pc' = [pc EXCEPT ![c] = "idle"]
    /\ UNCHANGED <<runs, populated, slapd, password, open, tree, addedBy>>

\* ldapadd -c of the environment's nodes: its failures are logged.
NodeList(c) ==
    /\ pc[c] = "nodes"
    /\ IF slapd[c]
       THEN /\ tree' = [tree EXCEPT ![c] = @ \union {"nodes"}]
            /\ addedBy' = [addedBy EXCEPT !["nodes"] =
                              IF "nodes" \in tree[c] THEN @ ELSE @ \union {c}]
       ELSE UNCHANGED <<tree, addedBy>>
    /\ pc' = [pc EXCEPT ![c] = "mark"]
    /\ UNCHANGED <<runs, populated, slapd, password, open, lostAt>>

Mark(c) ==
    /\ pc[c] = "mark"
    /\ populated' = [populated EXCEPT ![c] = TRUE]
    /\ pc' = [pc EXCEPT ![c] = "idle"]
    /\ UNCHANGED <<runs, slapd, password, open, tree, addedBy, lostAt>>

\* Once slapd is up the run may end at any place: a kill, or ldapadd finding
\* no slapd.
Stop(c) ==
    /\ pc[c] \notin {"idle", "stopped"}
    /\ pc' = [pc EXCEPT ![c] = "idle"]
    /\ UNCHANGED <<runs, populated, slapd, password, open, tree, addedBy, lostAt>>

-----------------------------------------------------------------------------
(* The environment: slapd may stop and be started again, and entries are   *)
(* written on any node.                                                    *)

SlapdDies(c) ==
    /\ c \in Unstable /\ slapd[c]
    /\ slapd' = [slapd EXCEPT ![c] = FALSE]
    /\ UNCHANGED <<pc, runs, populated, password, open, tree, addedBy, lostAt>>

SlapdRestarts(c) ==
    /\ ~slapd[c] /\ pc[c] # "stopped"
    /\ slapd' = [slapd EXCEPT ![c] = TRUE]
    /\ UNCHANGED <<pc, runs, populated, password, open, tree, addedBy, lostAt>>

Write(c, e) ==
    /\ e \in Person
    /\ slapd[c] /\ populated[c]
    /\ \A d \in CN : e \notin tree[d]
    /\ tree' = [tree EXCEPT ![c] = @ \union {e}]
    /\ UNCHANGED <<pc, runs, populated, slapd, password, open, addedBy, lostAt>>

-----------------------------------------------------------------------------

Run(c) ==
    \/ \E pw \in Password : Begin(c, pw)
    \/ StartSlapd(c)
    \/ \E e \in Searches : Search(c, e) \/ Add(c, e) \/ AddLost(c, e)
    \/ NodeList(c) \/ Mark(c) \/ Stop(c)

Next ==
    \/ \E c \in CN : Run(c) \/ SlapdDies(c) \/ SlapdRestarts(c)
    \/ \E c \in CN, e \in Person : Write(c, e)
    \/ \E c, p \in CN : Pull(c, p)

\* A consumer retries for ever (retry="12 5 300 +"), so an entry that can be
\* pulled is pulled in the end.  Nothing else has to happen.
Fairness == \A c, p \in CN : WF_vars(Pull(c, p))

Spec == Init /\ [][Next]_vars /\ Fairness

-----------------------------------------------------------------------------
(* Properties.                                                             *)

\* Once all nodes are configured and stay up with one password, every entry
\* that is anywhere gets everywhere, whatever runs, restarts and changes of the
\* password came before: syncRepl with the providers of lines 1584 to 1615, and
\* port 389 opened by configure_ufw.
Connected ==
    \A c \in CN : pc[c] = "idle" /\ slapd[c] /\ Configured(c) /\ \A d \in CN : password[c] = password[d]
Converges == <>[]Connected => <>[](\A c, d \in CN : tree[c] = tree[d])

\* An addition that is lost to an entry arriving by replication ends the run
\* with code 75, 76 or 77 (lines 1755 to 1774), and costs that one run: as long
\* as slapd answers, no later run of the node gets as far as adding it again.
RaceLostOnce ==
    \A c \in CN \ Unstable, e \in Searches : pc[c] = Adding[e] => e \notin lostAt[c]

\* Below dc=org only one node adds entries: no two directories hold different
\* entries of the same name, even if the first node's run is repeated.
\* (Each node adds a dc=org of its own when none has arrived: line 1755.)
OneOrigin ==
    Cardinality(First) <= 1 => \A e \in Base \ {"org"} : Cardinality(addedBy[e]) <= 1

\* A directory that is marked as populated has its base, and the first node's
\* has all of it: nothing is left to another node that may never come up.
PopulatedIsUsable ==
    \A c \in CN : populated[c] =>
        /\ "org" \in tree[c]
        /\ c \in First => {"dataone", "cilogon"} \subseteq tree[c]

=============================================================================
