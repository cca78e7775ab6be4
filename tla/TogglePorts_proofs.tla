------------------------- MODULE TogglePorts_proofs -------------------------
(***************************************************************************)
(* Proofs about togglePortsAndReplication.sh: its run keeps the types, a   *)
(* successful run has set every rule, and services and replication flags   *)
(* are back, for any addresses, ports and bound on the rounds.             *)
(***************************************************************************)
EXTENDS TogglePorts, TLAPS

\* Where each service is confirmed and started, and the ports are set.
ConfirmAt == [s \in Service |->
                 IF s = "tomcat" THEN 2 ELSE IF s = "slapd" THEN 4 ELSE 6]
StartAt   == [s \in Service |->
                 IF s = "tomcat" THEN 10 ELSE IF s = "slapd" THEN 8 ELSE 9]

\* The rules of the other nodes.
Rules == Port \X (iplist \ {Self})

\* While the ports are set, what is not still to be done is done or was refused;
\* afterwards all of it is.
PortsInv ==
    /\ at = 7 => \A r \in Rules \ (todo \union refused) : r \in firewall <=> toggle = "enable"
    /\ at > 7 => \A r \in Rules \ refused : r \in firewall <=> toggle = "enable"

\* Between its confirmation and its start a service is down, afterwards it
\* is up: during a run nobody else starts one, and only a fragile one stops by
\* itself.
ServicesInv ==
    ~byPath => \A s \in Service :
        /\ ConfirmAt[s] < at /\ at <= StartAt[s] => proc[s] = "down"
        /\ StartAt[s] < at /\ s \notin Fragile => proc[s] = "up"

Inv == TypeOK /\ PortsInv /\ ServicesInv

\* The steps of a run by their index.
LEMMA Steps ==
    ASSUME at \in 0 .. Len(Order)
    PROVE  /\ at \in 0 .. 11
           /\ \A s \in Service :
                 /\ At("confirm", s) <=> at = ConfirmAt[s]
                 /\ At("start", s) <=> at = StartAt[s]
           /\ At("stop", "tomcat") <=> at = 1
           /\ At("stop", "slapd") <=> at = 3
           /\ At("stop", "postgres") <=> at = 5
           /\ At("ports", "ufw") <=> at = 7
           /\ At("flags", "psql") <=> at = 11
  <1>1. Len(Order) = 11
    BY DEF Order
  <1>2. at \in 0 .. 11
    BY <1>1
  <1>3. /\ Order[1] = <<"stop", "tomcat">> /\ Order[2] = <<"confirm", "tomcat">>
        /\ Order[3] = <<"stop", "slapd">> /\ Order[4] = <<"confirm", "slapd">>
        /\ Order[5] = <<"stop", "postgres">> /\ Order[6] = <<"confirm", "postgres">>
        /\ Order[7] = <<"ports", "ufw">> /\ Order[8] = <<"start", "slapd">>
        /\ Order[9] = <<"start", "postgres">> /\ Order[10] = <<"start", "tomcat">>
        /\ Order[11] = <<"flags", "psql">>
    BY DEF Order
  <1>4. \A x, y, u, v : <<x, y>> = <<u, v>> <=> x = u /\ y = v
    OBVIOUS
  <1>. QED
    BY <1>2, <1>3, <1>4 DEF At, Service, ConfirmAt, StartAt

-----------------------------------------------------------------------------
(* Type correctness.                                                       *)

\* Every step keeps the types: the rounds are bounded, the index stays one of
\* Order.
LEMMA TypeStep == TypeOK /\ [Next]_vars => TypeOK'
  <1> SUFFICES ASSUME TypeOK, [Next]_vars PROVE TypeOK'
    OBVIOUS
  <1>len. Len(Order) = 11
    BY DEF Order
  <1>steps. /\ at \in 0 .. 11
            /\ \A s \in Service :
                  /\ At("confirm", s) <=> at = ConfirmAt[s]
                  /\ At("start", s) <=> at = StartAt[s]
            /\ At("stop", "tomcat") <=> at = 1
            /\ At("stop", "slapd") <=> at = 3
            /\ At("stop", "postgres") <=> at = 5
            /\ At("ports", "ufw") <=> at = 7
            /\ At("flags", "psql") <=> at = 11
    BY Steps DEF TypeOK
  <1>at. /\ \A s \in Service : ConfirmAt[s] \in {2, 4, 6} /\ StartAt[s] \in {8, 9, 10}
         /\ \A s \in Service : At("stop", s) => at \in {1, 3, 5}
    BY <1>steps DEF ConfirmAt, StartAt, Service
  <1> USE <1>len, <1>at, <1>steps, Calls DEF Calls, TypeOK, vars, run, End
  <1>1. ASSUME NEW t \in {"enable", "disable"}, NEW p \in ByPath, Call(t, p) PROVE TypeOK'
    BY <1>1 DEF Call
  <1>2. ASSUME NEW s \in Service, StopService(s) PROVE TypeOK'
    BY <1>2 DEF StopService
  <1>3. ASSUME NEW s \in Service, Confirmed(s) PROVE TypeOK'
    BY <1>3 DEF Confirmed
  <1>4. ASSUME NEW s \in Service, Wait(s) PROVE TypeOK'
    BY <1>4 DEF Wait
  <1>5. ASSUME NEW s \in Service, GiveUp(s) PROVE TypeOK'
    BY <1>5 DEF GiveUp
  <1>6. ASSUME NEW s \in Service, StartService(s) PROVE TypeOK'
    BY <1>6 DEF StartService
  <1>7. ASSUME NEW r \in Port \X Address, Rule(r) PROVE TypeOK'
    BY <1>7 DEF Rule
  <1>8. CASE PortsDone
    BY <1>8 DEF PortsDone
  <1>9. CASE Flags
    <2>1. replicate' \in BOOLEAN
      BY <1>9, Zenon DEF Flags
    <2>. QED
      BY <1>9, <2>1 DEF Flags
  <1>10. CASE Kill
    BY <1>10 DEF Kill
  <1>11. ASSUME NEW s \in Service, ProcessExits(s) PROVE TypeOK'
    BY <1>11 DEF ProcessExits
  <1>12. ASSUME NEW s \in Service, Admin(s) PROVE TypeOK'
    BY <1>12 DEF Admin
  <1>13. ASSUME NEW p \in Port, NEW list \in SUBSET Address, Postinst(p, list) PROVE TypeOK'
    BY <1>13 DEF Postinst
  <1>14. CASE UNCHANGED vars
    BY <1>14
  <1>. QED
    BY <1>1, <1>2, <1>3, <1>4, <1>5, <1>6, <1>7, <1>8, <1>9, <1>10, <1>11, <1>12,
       <1>13, <1>14 DEF Next, Script

-----------------------------------------------------------------------------
(* The rules.                                                              *)

\* Every step keeps PortsInv: the list does not change during a run, and each
\* rule that leaves todo has been set the way the run was called.
LEMMA PortsStep == TypeOK /\ PortsInv /\ [Next]_vars => PortsInv'
  <1> SUFFICES ASSUME TypeOK, PortsInv, [Next]_vars PROVE PortsInv'
    OBVIOUS
  <1>steps. /\ at \in 0 .. 11
            /\ \A s \in Service :
                  /\ At("confirm", s) <=> at = ConfirmAt[s]
                  /\ At("start", s) <=> at = StartAt[s]
            /\ At("stop", "tomcat") <=> at = 1
            /\ At("stop", "slapd") <=> at = 3
            /\ At("stop", "postgres") <=> at = 5
            /\ At("ports", "ufw") <=> at = 7
            /\ At("flags", "psql") <=> at = 11
    BY Steps DEF TypeOK
  <1>at. \A s \in Service :
            /\ At("stop", s) => at \in {1, 3, 5}
            /\ At("confirm", s) => at \in {2, 4} \/ (at = 6 /\ s = "postgres")
            /\ At("start", s) => at \in {8, 9, 10}
    BY <1>steps DEF ConfirmAt, StartAt, Service
  <1>ports. at \in 0 .. 11 /\ (At("ports", "ufw") <=> at = 7) /\ (At("flags", "psql") <=> at = 11)
    BY <1>steps
  <1> USE <1>at, <1>ports DEF TypeOK, PortsInv, Rules, vars, run, End
  <1>1. ASSUME NEW t \in {"enable", "disable"}, NEW p \in ByPath, Call(t, p) PROVE PortsInv'
    BY <1>1 DEF Call
  <1>2. ASSUME NEW s \in Service, StopService(s) PROVE PortsInv'
    BY <1>2 DEF StopService
  <1>3. ASSUME NEW s \in Service, Confirmed(s) PROVE PortsInv'
    <2>1. at \in {2, 4, 6} /\ at' = at + 1 /\ UNCHANGED iplist
      BY <1>3 DEF Confirmed
    <2>2. CASE at = 6
      <3>1. todo' = Rules
        BY <1>3, <2>1, <2>2 DEF Confirmed
      <3>. QED
        BY <2>1, <2>2, <3>1
    <2>3. CASE at # 6
      BY <2>1, <2>3
    <2>. QED
      BY <2>2, <2>3
  <1>4. ASSUME NEW s \in Service, Wait(s) PROVE PortsInv'
    BY <1>4 DEF Wait
  <1>5. ASSUME NEW s \in Service, GiveUp(s) PROVE PortsInv'
    BY <1>5 DEF GiveUp
  <1>6. ASSUME NEW s \in Service, StartService(s) PROVE PortsInv'
    <2>1. at > 7 /\ at' = at + 1 /\ UNCHANGED <<toggle, iplist, firewall, refused>>
      BY <1>6 DEF StartService
    <2>. QED
      BY <2>1
  <1>7. ASSUME NEW r \in Port \X Address, Rule(r) PROVE PortsInv'
    BY <1>7 DEF Rule
  <1>8. CASE PortsDone
    BY <1>8 DEF PortsDone
  <1>9. CASE Flags
    BY <1>9 DEF Flags
  <1>10. CASE Kill
    BY <1>10 DEF Kill
  <1>11. ASSUME NEW s \in Service, ProcessExits(s) PROVE PortsInv'
    BY <1>11 DEF ProcessExits
  <1>12. ASSUME NEW s \in Service, Admin(s) PROVE PortsInv'
    BY <1>12 DEF Admin
  <1>13. ASSUME NEW p \in Port, NEW list \in SUBSET Address, Postinst(p, list) PROVE PortsInv'
    BY <1>13 DEF Postinst
  <1>14. CASE UNCHANGED vars
    BY <1>14
  <1>. QED
    BY <1>1, <1>2, <1>3, <1>4, <1>5, <1>6, <1>7, <1>8, <1>9, <1>10, <1>11, <1>12,
       <1>13, <1>14 DEF Next, Script

-----------------------------------------------------------------------------
(* The services.                                                           *)

\* Every step keeps ServicesInv: a service that was confirmed is down, so no
\* process of it can still exit, and its start does start it.
LEMMA ServicesStep == TypeOK /\ ServicesInv /\ [Next]_vars => ServicesInv'
  <1> SUFFICES ASSUME TypeOK, ServicesInv, [Next]_vars PROVE ServicesInv'
    OBVIOUS
  <1>steps. /\ at \in 0 .. 11
            /\ \A s \in Service :
                  /\ At("confirm", s) <=> at = ConfirmAt[s]
                  /\ At("start", s) <=> at = StartAt[s]
            /\ At("stop", "tomcat") <=> at = 1
            /\ At("stop", "slapd") <=> at = 3
            /\ At("stop", "postgres") <=> at = 5
            /\ At("ports", "ufw") <=> at = 7
            /\ At("flags", "psql") <=> at = 11
    BY Steps DEF TypeOK
  <1>at. \A s \in Service :
            /\ ConfirmAt[s] \in {2, 4, 6} /\ StartAt[s] \in {8, 9, 10}
            /\ At("stop", s) => at = ConfirmAt[s] - 1
            /\ \A q \in Service \ {s} : ConfirmAt[q] # ConfirmAt[s] /\ StartAt[q] # StartAt[s]
    BY <1>steps DEF ConfirmAt, StartAt, Service
  <1> USE <1>at, <1>steps DEF TypeOK, ServicesInv, vars, run, End
  <1>1. ASSUME NEW t \in {"enable", "disable"}, NEW p \in ByPath, Call(t, p) PROVE ServicesInv'
    BY <1>1 DEF Call
  <1>2. ASSUME NEW s \in Service, StopService(s) PROVE ServicesInv'
    BY <1>2 DEF StopService
  <1>3. ASSUME NEW s \in Service, Confirmed(s) PROVE ServicesInv'
    BY <1>3 DEF Confirmed, LooksStopped
  <1>4. ASSUME NEW s \in Service, Wait(s) PROVE ServicesInv'
    BY <1>4 DEF Wait
  <1>5. ASSUME NEW s \in Service, GiveUp(s) PROVE ServicesInv'
    BY <1>5 DEF GiveUp
  <1>6. ASSUME NEW s \in Service, StartService(s) PROVE ServicesInv'
    BY <1>6 DEF StartService
  <1>7. ASSUME NEW r \in Port \X Address, Rule(r) PROVE ServicesInv'
    BY <1>7 DEF Rule
  <1>8. CASE PortsDone
    BY <1>8 DEF PortsDone
  <1>9. CASE Flags
    BY <1>9 DEF Flags
  <1>10. CASE Kill
    BY <1>10 DEF Kill
  <1>11. ASSUME NEW s \in Service, ProcessExits(s) PROVE ServicesInv'
    BY <1>11 DEF ProcessExits
  <1>12. ASSUME NEW s \in Service, Admin(s) PROVE ServicesInv'
    BY <1>12 DEF Admin
  <1>13. ASSUME NEW p \in Port, NEW list \in SUBSET Address, Postinst(p, list) PROVE ServicesInv'
    BY <1>13 DEF Postinst
  <1>14. CASE UNCHANGED vars
    BY <1>14
  <1>. QED
    BY <1>1, <1>2, <1>3, <1>4, <1>5, <1>6, <1>7, <1>8, <1>9, <1>10, <1>11, <1>12,
       <1>13, <1>14 DEF Next, Script

-----------------------------------------------------------------------------
(* The results.                                                            *)

\* Inv is inductive.
LEMMA Inductive == Spec => []Inv
  <1>1. Init => Inv
    <2>1. Init => TypeOK
      BY Calls DEF Calls, Init, TypeOK, Order, Service
    <2>2. Init => PortsInv /\ ServicesInv
      BY DEF Init, PortsInv, ServicesInv, ConfirmAt, StartAt, Service
    <2>. QED
      BY <2>1, <2>2 DEF Inv
  <1>2. Inv /\ [Next]_vars => Inv'
    BY TypeStep, PortsStep, ServicesStep DEF Inv
  <1>. QED
    BY <1>1, <1>2, PTL DEF Spec

\* The state of the script, the services and the firewall has the types of
\* TypeOK; in particular the rounds of a wait never exceed MAX_SERVICE_STOP_TRIES.
THEOREM Typed == Spec => []TypeOK
  BY Inductive, PTL DEF Inv

\* Only the last step of a run ends it with status 0.
LEMMA LastStep ==
    ASSUME TypeOK, [Next]_vars, Ends("0")
    PROVE  Flags /\ at = 11
  <1>1. at \in 0 .. 11 /\ (At("flags", "psql") <=> at = 11)
    BY Steps DEF TypeOK
  <1>. QED
    BY <1>1 DEF Ends, Next, Script, Call, StopService, Confirmed, Wait, GiveUp, Rule,
       PortsDone, StartService, Flags, Kill, ProcessExits, Admin, Postinst, vars, run, End

\* A run that ends with status 0 has set the rules of every port and every
\* other address of the list the way it was called, but for those that ufw
\* refused in this very run, whatever happened before.
THEOREM Ports == Spec => PortsFollow
  <1>1. Inv /\ [Next]_vars =>
            [Ends("0") =>
               LET rules == (Port \X (iplist \ {Self})) \ refused
               IN  IF toggle = "enable" THEN rules \subseteq firewall
                   ELSE rules \intersect firewall = {}]_vars
    BY LastStep DEF Inv, PortsInv, Rules
  <1>. QED
    BY <1>1, Inductive, PTL DEF Spec, PortsFollow

\* After a run that ends with status 0 and was not called by a path, the
\* services that are not fragile are up and the replication flags agree with the ports.
THEOREM Services == Spec => ServicesBack
  <1>1. Inv /\ [Next]_vars =>
            [(Ends("0") /\ ~byPath) =>
               /\ \A s \in Service \ Fragile : proc[s] = "up"
               /\ {"postgres", "psql"} \intersect Fragile = {} => replicate' = (toggle = "enable")]_vars
    <2> SUFFICES ASSUME Inv, [Next]_vars, Ends("0"), ~byPath
                 PROVE  /\ \A s \in Service \ Fragile : proc[s] = "up"
                        /\ {"postgres", "psql"} \intersect Fragile = {} => replicate' = (toggle = "enable")
      OBVIOUS
    <2>1. Flags /\ at = 11
      BY LastStep DEF Inv
    <2>2. \A s \in Service \ Fragile : proc[s] = "up"
      BY <2>1 DEF Inv, ServicesInv, StartAt, Service
    <2>3. {"postgres", "psql"} \intersect Fragile = {}
              => proc["postgres"] = "up" /\ "psql" \notin Fragile
      BY <2>2 DEF Service
    <2>4. {"postgres", "psql"} \intersect Fragile = {} => replicate' = (toggle = "enable")
      BY <2>1, <2>3, Zenon DEF Flags
    <2>. QED
      BY <2>2, <2>4
  <1>. QED
    BY <1>1, Inductive, PTL DEF Spec, ServicesBack

=============================================================================
