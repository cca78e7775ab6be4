---------------------------- MODULE TogglePorts ----------------------------
(***************************************************************************)
(* togglePortsAndReplication.sh on one coordinating node: it stops tomcat, *)
(* slapd and postgres, closes ("disable") or opens ("enable") the ports    *)
(* the other nodes use, starts the services again and sets metacat's       *)
(* replication flags to match.  Between its runs the postinst scripts of   *)
(* the packages open the same ports.  The script and a postinst both run   *)
(* under debconf's lock, so a postinst is a step here.                     *)
(***************************************************************************)
EXTENDS Naturals, Sequences

CONSTANTS
    Address,     \* the addresses cn.iplist may hold
    Self,        \* the one that is this machine's
    Port,        \* 5701 5702 5703 389 5432
    MaxTries,    \* MAX_SERVICE_STOP_TRIES
    ByPath,      \* how the script may be called: TRUE if $0 has a directory, as in
                 \* /usr/local/bin/togglePortsAndReplication.sh
    Fragile      \* services that may fail to start, or stop by themselves, and
                 \* commands that may fail: ufw, psql

ASSUME Calls ==
    /\ Self \in Address
    /\ MaxTries \in Nat
    /\ ByPath \subseteq BOOLEAN
    /\ Fragile \subseteq {"tomcat", "slapd", "postgres", "ufw", "psql"}

Service == {"tomcat", "slapd", "postgres"}

\* What a run does, in order.
Order == << <<"stop", "tomcat">>, <<"confirm", "tomcat">>,
            <<"stop", "slapd">>, <<"confirm", "slapd">>,
            <<"stop", "postgres">>, <<"confirm", "postgres">>,
            <<"ports", "ufw">>,
            <<"start", "slapd">>, <<"start", "postgres">>, <<"start", "tomcat">>,
            <<"flags", "psql">> >>

VARIABLES
    at,         \* the step of the run, an index of Order; 0 between runs
    toggle,     \* "enable" or "disable"
    byPath,     \* how this run was called
    tries,      \* the rounds of the loop that waits for a service to stop
    todo,       \* the ufw rules still to be set
    refused,    \* those of this run that ufw refused (history)
    exit,       \* how the last run ended: "none", "0", "1", "killed"
    proc,       \* a service is "up", "stopping" (told to, but alive) or "down"
    iplist,     \* debconf: cn.iplist
    firewall,   \* the rules: <<port, address>>
    replicate   \* xml_replication: replicate and datareplicate of the others

run  == <<at, toggle, byPath, tries, todo, refused, exit>>
vars == <<run, proc, iplist, firewall, replicate>>

TypeOK ==
    /\ at \in 0 .. Len(Order)
    /\ toggle \in {"enable", "disable"}
    /\ byPath \in BOOLEAN
    /\ tries \in 0 .. MaxTries
    /\ todo \subseteq Port \X Address
    /\ refused \subseteq Port \X Address
    /\ exit \in {"none", "0", "1", "killed"}
    /\ proc \in [Service -> {"up", "stopping", "down"}]
    /\ iplist \subseteq Address
    /\ firewall \subseteq Port \X Address
    /\ replicate \in BOOLEAN

Init ==
    /\ at = 0 /\ toggle = "enable" /\ byPath \in ByPath /\ tries = 0 /\ todo = {}
    /\ refused = {} /\ exit = "none"
    /\ proc = [s \in Service |-> "up"]
    /\ iplist = Address
    /\ firewall = Port \X (Address \ {Self})
    /\ replicate = TRUE

At(kind, what) == at > 0 /\ Order[at] = <<kind, what>>

End(status) == at' = 0 /\ tries' = 0 /\ todo' = {} /\ refused' = {} /\ exit' = status

-----------------------------------------------------------------------------
(* The script.                                                             *)

Call(t, p) ==
    /\ at = 0
    /\ at' = 1 /\ toggle' = t /\ byPath' = p
    /\ UNCHANGED <<tries, todo, refused, exit, proc, iplist, firewall, replicate>>

\* "service ... stop" may return before the process is gone.
StopService(s) ==
    /\ At("stop", s)
    /\ proc' = [proc EXCEPT ![s] = IF @ = "up" THEN "stopping" ELSE @]
    /\ at' = at + 1
    /\ UNCHANGED <<toggle, byPath, tries, todo, refused, exit, iplist, firewall, replicate>>

\* Faulty variant of LooksStopped: one round is enough.
LooksStoppedSoon(s) == proc[s] = "down" \/ tries = 1

\* pidof writes its answer to /tmp/${0}.<process>.pid.tmp.  If $0 has a
\* directory /tmp does not have, that file cannot be opened, and the failure
\* counts as pidof's: the loop is over.
\* For tomcat the pid file is looked at.
LooksStopped(s) == proc[s] = "down" \/ (byPath /\ s # "tomcat")

Confirmed(s) ==
    /\ At("confirm", s)
    /\ LooksStopped(s)
    /\ at' = at + 1 /\ tries' = 0
    /\ todo' = IF s = "postgres" THEN Port \X (iplist \ {Self}) ELSE todo
    /\ UNCHANGED <<toggle, byPath, refused, exit, proc, iplist, firewall, replicate>>

\* Faulty variant of Wait: the rounds are not counted.
WaitForEver(s) ==
    /\ At("confirm", s)
    /\ ~LooksStopped(s)
    /\ tries' = 1 - tries
    /\ UNCHANGED <<at, toggle, byPath, todo, refused, exit, proc, iplist, firewall, replicate>>

Wait(s) ==
    /\ At("confirm", s)
    /\ ~LooksStopped(s)
    /\ tries < MaxTries
    /\ tries' = tries + 1
    /\ UNCHANGED <<at, toggle, byPath, todo, refused, exit, proc, iplist, firewall, replicate>>

\* The services stopped so far stay stopped.
GiveUp(s) ==
    /\ At("confirm", s)
    /\ ~LooksStopped(s)
    /\ tries = MaxTries
    /\ End("1")
    /\ UNCHANGED <<toggle, byPath, proc, iplist, firewall, replicate>>

\* Faulty variant of Rule: a disable leaves the rule alone.
RuleOnlyAdded(r) ==
    /\ At("ports", "ufw") /\ r \in todo
    /\ todo' = todo \ {r}
    /\ \/ firewall' = firewall \union {r} /\ UNCHANGED refused
       \/ "ufw" \in Fragile /\ refused' = refused \union {r} /\ UNCHANGED firewall
    /\ UNCHANGED <<at, toggle, byPath, tries, exit, proc, iplist, replicate>>

\* The status of ufw is not looked at.
Rule(r) ==
    /\ At("ports", "ufw") /\ r \in todo
    /\ todo' = todo \ {r}
    /\ \/ /\ firewall' = IF toggle = "enable" THEN firewall \union {r} ELSE firewall \ {r}
          /\ UNCHANGED refused
       \/ "ufw" \in Fragile /\ refused' = refused \union {r} /\ UNCHANGED firewall
    /\ UNCHANGED <<at, toggle, byPath, tries, exit, proc, iplist, replicate>>

PortsDone ==
    /\ At("ports", "ufw") /\ todo = {}
    /\ at' = at + 1
    /\ UNCHANGED <<toggle, byPath, tries, todo, refused, exit, proc, iplist, firewall, replicate>>

\* Nothing is started while the old process lives.  That a service does not come
\* up goes unnoticed: it is a step of Admin here.
StartService(s) ==
    /\ At("start", s)
    /\ proc' = [proc EXCEPT ![s] = IF @ = "down" THEN "up" ELSE @]
    /\ at' = at + 1
    /\ UNCHANGED <<toggle, byPath, tries, todo, refused, exit, iplist, firewall, replicate>>

\* psql's failure is ignored.
Flags ==
    /\ At("flags", "psql")
    /\ \/ proc["postgres"] = "up" /\ replicate' = (toggle = "enable")
       \/ (proc["postgres"] # "up" \/ "psql" \in Fragile) /\ UNCHANGED replicate
    /\ End("0")
    /\ UNCHANGED <<toggle, byPath, proc, iplist, firewall>>

Kill ==
    /\ at > 0
    /\ End("killed")
    /\ UNCHANGED <<toggle, byPath, proc, iplist, firewall, replicate>>

-----------------------------------------------------------------------------
(* Everybody else.                                                         *)

\* A process that was told to stop is gone.
ProcessExits(s) ==
    /\ proc[s] = "stopping"
    /\ proc' = [proc EXCEPT ![s] = "down"]
    /\ UNCHANGED <<run, iplist, firewall, replicate>>

\* Between runs a service may be started, or stop; a fragile one may stop at any
\* time, right after its start as well.
Admin(s) ==
    /\ \/ at = 0 /\ proc[s] = "down" /\ proc' = [proc EXCEPT ![s] = "up"]
       \/ (at = 0 \/ s \in Fragile) /\ proc[s] = "up" /\ proc' = [proc EXCEPT ![s] = "down"]
    /\ UNCHANGED <<run, iplist, firewall, replicate>>

\* dataone-cn-os-core stores the list and may open its port for it (see
\* OsCorePostinst); metacat and portal open theirs for the list as it is.
Postinst(p, list) ==
    /\ at = 0
    /\ iplist' = list
    /\ firewall' \in {firewall, firewall \union ({p} \X list)}
    /\ UNCHANGED <<run, proc, replicate>>

-----------------------------------------------------------------------------

Script ==
    \/ \E s \in Service : StopService(s) \/ Confirmed(s) \/ Wait(s) \/ GiveUp(s) \/ StartService(s)
    \/ \E r \in Port \X Address : Rule(r)
    \/ PortsDone \/ Flags

Next ==
    \/ \E t \in {"enable", "disable"}, p \in ByPath : Call(t, p)
    \/ Script \/ Kill
    \/ \E s \in Service : ProcessExits(s) \/ Admin(s)
    \/ \E p \in Port, list \in SUBSET Address : Postinst(p, list)

\* The script is one process that nothing blocks; services need not stop.
Spec == Init /\ [][Next]_vars /\ WF_vars(Script)

-----------------------------------------------------------------------------
(* Properties.                                                             *)

Ends(status) == at > 0 /\ at' = 0 /\ exit' = status

\* A run always ends, even if a service never stops: the loops of
\* confirm_service_stop and confirm_tomcat_stop are bounded.
Terminates == at > 0 ~> at = 0

\* A run that ends with status 0 has set every rule of the list that ufw did not
\* refuse in this run, whatever runs were killed halfway before, and whatever ufw
\* refused in them (lines 141 to 151).
PortsFollow ==
    [][Ends("0") =>
          LET rules == (Port \X (iplist \ {Self})) \ refused
          IN  IF toggle = "enable" THEN rules \subseteq firewall ELSE rules \intersect firewall = {}]_vars

\* After status 0 the services that can run do, and the replication flags say
\* what the ports do, provided the script was called without a directory: what
\* was told to stop has to be gone before it is started, and postgres has to be
\* up when the flags are written (lines 149 to 160).
ServicesBack ==
    [][(Ends("0") /\ ~byPath) =>
          /\ \A s \in Service \ Fragile : proc[s] = "up"
          /\ {"postgres", "psql"} \intersect Fragile = {} => replicate' = (toggle = "enable")]_vars

\* A service is reported as stopped only when it is ("stop confirmed", line
\* 71).  It fails if the script is called by its path.
StopConfirmed ==
    [][\A s \in Service : At("confirm", s) /\ at' = at + 1 => proc[s] = "down"]_vars

=============================================================================
