-------------------------- MODULE SolrCollections --------------------------
(***************************************************************************)
(* The search collections that the postinst of dataone-cn-solr creates,    *)
(* configures and reloads, run on every coordinating node in any order and *)
(* at the same time.  The nodes share one zookeeper ensemble, which keeps  *)
(* the configurations; each node decides by a directory of its own whether *)
(* a collection has to be created or updated.                              *)
(***************************************************************************)
EXTENDS Naturals, Sequences

CONSTANTS
    Node,
    Collections,  \* in the order of the second half: search, relationships, event
    Copied,       \* in the order of the first half: search, event, relationships
    MaxVersion    \* the newest version of the package

Collection == {Collections[i] : i \in DOMAIN Collections}
Version == 1 .. MaxVersion
None == 0

ASSUME Package ==
    /\ Collections \in Seq(Collection) \ {<<>>} /\ Copied \in Seq(Collection) \ {<<>>}
    /\ {Copied[i] : i \in DOMAIN Copied} = Collection
    /\ MaxVersion \in Nat

VARIABLES
    pc,        \* where the run of each node is
    at,        \* the place in Copied or Collections it has reached
    version,   \* the version of the package that is unpacked
    installed, \* whether its postinst has ended well since
    dirs,      \* the config set of each collection on each node: its version, or None
    fresh,     \* FRESH_..._INSTALL: the collections this run creates
    conf,      \* zookeeper: the version of each configuration, or None
    loaded,    \* the version each node's replica of a collection works with, or
               \* None if there is no collection
    missed     \* the updates that failed in the node's last run (history)

run   == <<pc, at, version, installed>>
local == <<dirs, fresh>>
cloud == <<conf, loaded>>
vars  == <<run, local, cloud, missed>>

TypeOK ==
    /\ pc \in [Node -> {"idle", "copy", "restart", "upconfig", "reload"}]
    /\ at \in [Node -> 1 .. Len(Copied) + Len(Collections)]
    /\ version \in [Node -> Version \union {None}]
    /\ installed \in [Node -> BOOLEAN]
    /\ dirs \in [Node -> [Collection -> Version \union {None}]]
    /\ fresh \in [Node -> SUBSET Collection]
    /\ conf \in [Collection -> Version \union {None}]
    /\ loaded \in [Collection -> [Node -> Version \union {None}]]
    /\ missed \in [Node -> SUBSET Collection]
    /\ \A n \in Node : /\ pc[n] = "copy" => at[n] \in DOMAIN Copied
                       /\ pc[n] \in {"restart", "upconfig", "reload"} => at[n] \in DOMAIN Collections

Init ==
    /\ pc = [n \in Node |-> "idle"]
    /\ at = [n \in Node |-> 1]
    /\ version = [n \in Node |-> None]
    /\ installed = [n \in Node |-> FALSE]
    /\ dirs = [n \in Node |-> [c \in Collection |-> None]]
    /\ fresh = [n \in Node |-> {}]
    /\ conf = [c \in Collection |-> None]
    /\ loaded = [c \in Collection |-> [n \in Node |-> None]]
    /\ missed = [n \in Node |-> {}]

-----------------------------------------------------------------------------
(* A run of the postinst on node n.                                        *)

\* An installation, an upgrade, or another try of the version that is there.
Begin(n, v) ==
    /\ pc[n] = "idle" /\ v >= version[n]
    /\ pc' = [pc EXCEPT ![n] = "copy"]
    /\ at' = [at EXCEPT ![n] = 1]
    /\ version' = [version EXCEPT ![n] = v]
    /\ installed' = [installed EXCEPT ![n] = FALSE]
    /\ fresh' = [fresh EXCEPT ![n] = {}]
    /\ missed' = [missed EXCEPT ![n] = {}]
    /\ UNCHANGED <<dirs, cloud>>

\* Faulty variant of Copy: the collection counts as fresh although its
\* directory is there.
CopyFresh(n) ==
    /\ pc[n] = "copy"
    /\ fresh' = [fresh EXCEPT ![n] = @ \union {Copied[at[n]]}]
    /\ dirs' = [dirs EXCEPT ![n][Copied[at[n]]] = version[n]]
    /\ IF at[n] = Len(Copied)
       THEN pc' = [pc EXCEPT ![n] = "restart"] /\ at' = [at EXCEPT ![n] = 1]
       ELSE at' = [at EXCEPT ![n] = @ + 1] /\ UNCHANGED pc
    /\ UNCHANGED <<version, installed, cloud, missed>>

\* mkdir, and cp -rf of the config set: a missing directory is what makes the
\* installation fresh.  (A run that dies between the two leaves a directory that
\* the next one fills before it uses it.)
Copy(n) ==
    LET c == Copied[at[n]] IN
    /\ pc[n] = "copy"
    /\ fresh' = [fresh EXCEPT ![n] = IF dirs[n][c] = None THEN @ \union {c} ELSE @]
    /\ dirs' = [dirs EXCEPT ![n][c] = version[n]]
    /\ IF at[n] = Len(Copied)
       THEN pc' = [pc EXCEPT ![n] = "restart"] /\ at' = [at EXCEPT ![n] = 1]
       ELSE at' = [at EXCEPT ![n] = @ + 1] /\ UNCHANGED pc
    /\ UNCHANGED <<version, installed, cloud, missed>>

There(c) == \E n \in Node : loaded[c][n] # None

\* apache2 and solr are restarted, and the node's replicas come up with what
\* zookeeper has; if a restart fails the run is over (Die).
Restart(n) ==
    /\ pc[n] = "restart"
    /\ pc' = [pc EXCEPT ![n] = "upconfig"]
    /\ loaded' = [c \in Collection |->
                     IF There(c) THEN [loaded[c] EXCEPT ![n] = conf[c]] ELSE loaded[c]]
    /\ UNCHANGED <<at, version, installed, local, conf, missed>>

Current(n) == Collections[at[n]]

\* Faulty variant of Advance: the last collection is not the end.
AdvanceTooFar(n) ==
    /\ pc' = [pc EXCEPT ![n] = "upconfig"]
    /\ at' = [at EXCEPT ![n] = @ + 1]
    /\ UNCHANGED installed

\* On to the next collection; after the last one the run ends with status 0.
Advance(n) ==
    IF at[n] = Len(Collections)
    THEN /\ pc' = [pc EXCEPT ![n] = "idle"]
         /\ at' = [at EXCEPT ![n] = 1]
         /\ installed' = [installed EXCEPT ![n] = TRUE]
    ELSE /\ pc' = [pc EXCEPT ![n] = "upconfig"]
         /\ at' = [at EXCEPT ![n] = @ + 1]
         /\ UNCHANGED installed

\* The update of the current collection fails, and the run goes on.
Miss(n) == missed' = [missed EXCEPT ![n] = @ \union {Current(n)}]

\* solr create: it stores the node's config set in zookeeper unless there is one
\* of that name, and then creates the collection unless there is one.  Either
\* may fail, and the failure is logged.
Create(n) ==
    LET c == Current(n)
        stored == IF conf[c] = None THEN dirs[n][c] ELSE conf[c]
    IN
    /\ pc[n] = "upconfig" /\ c \in fresh[n]
    /\ \/ /\ conf' = [conf EXCEPT ![c] = stored]
          /\ \/ loaded' = [loaded EXCEPT ![c] =
                              IF There(c) THEN @ ELSE [m \in Node |-> stored]]
             \/ UNCHANGED loaded
       \/ UNCHANGED cloud
    /\ Advance(n)
    /\ UNCHANGED <<version, local, missed>>

\* Faulty variant of Upconfig: the config set in zookeeper is kept.
UpconfigKeeps(n) ==
    LET c == Current(n) IN
    /\ pc[n] = "upconfig" /\ c \notin fresh[n]
    /\ conf' = [conf EXCEPT ![c] = IF @ = None THEN dirs[n][c] ELSE @]
    /\ pc' = [pc EXCEPT ![n] = "reload"]
    /\ UNCHANGED <<at, version, installed, local, loaded, missed>>

\* zkcli.sh -cmd upconfig, whose failure is logged.
Upconfig(n) ==
    LET c == Current(n) IN
    /\ pc[n] = "upconfig" /\ c \notin fresh[n]
    /\ \/ conf' = [conf EXCEPT ![c] = dirs[n][c]] /\ UNCHANGED missed
       \/ Miss(n) /\ UNCHANGED conf
    /\ pc' = [pc EXCEPT ![n] = "reload"]
    /\ UNCHANGED <<at, version, installed, local, loaded>>

\* RELOAD: the replicas take the configuration zookeeper has by now.  If solr does
\* not answer there is a line in the log; if it answers with an error there is
\* none, because curl is happy with any answer.
Reload(n) ==
    LET c == Current(n) IN
    /\ pc[n] = "reload"
    /\ \/ /\ loaded' = [loaded EXCEPT ![c] =
                            IF There(c) THEN [m \in Node |-> conf[c]] ELSE @]
          /\ UNCHANGED missed
       \/ Miss(n) /\ UNCHANGED loaded
    /\ Advance(n)
    /\ UNCHANGED <<version, local, conf>>

\* set -e ends the run at mkdir, cp, chown, a2enconf or a restart; or it is
\* killed.
Die(n) ==
    /\ pc[n] # "idle"
    /\ pc' = [pc EXCEPT ![n] = "idle"]
    /\ at' = [at EXCEPT ![n] = 1]
    /\ UNCHANGED <<version, installed, local, cloud, missed>>

Next == \E n \in Node :
    \/ \E v \in Version : Begin(n, v)
    \/ Copy(n) \/ Restart(n) \/ Create(n) \/ Upconfig(n) \/ Reload(n) \/ Die(n)

Spec == Init /\ [][Next]_vars

-----------------------------------------------------------------------------
(* Properties.                                                             *)

Newest(n) == version[n] = MaxVersion /\ installed[n]

WorksWithNewest(c) ==
    There(c) => conf[c] = MaxVersion /\ \A n \in Node : loaded[c][n] = MaxVersion

\* When the newest version is installed on every node, and no update of a
\* collection failed in its node's last run, the collection works with the
\* newest configuration: in whatever order the nodes were upgraded, and however
\* their uploads, restarts and reloads (lines 198 to 241) interleaved with those
\* of nodes that still had the old version.
ConfigCurrent ==
    \A c \in Collection :
        (\A n \in Node : Newest(n) /\ c \notin missed[n]) => WorksWithNewest(c)

\* A collection nobody is about to create any more.
Abandoned(c) ==
    /\ ~There(c)
    /\ \A n \in Node : dirs[n][c] # None /\ (pc[n] = "idle" \/ c \notin fresh[n])

\* The directory is made long before the collection is (lines 62 and 210): when
\* every node has it and no run still counts it as fresh, no run on any node
\* will ever create the collection.
NoWayOut == [][\A c \in Collection : Abandoned(c) => Abandoned(c)']_vars

=============================================================================
