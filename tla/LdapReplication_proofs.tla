----------------------- MODULE LdapReplication_proofs -----------------------
(***************************************************************************)
(* Proofs about the directories of an environment's coordinating nodes:    *)
(* for any number of nodes, runs and passwords, a directory that counts as *)
(* populated has its base, only one node adds what is below dc=org, and a  *)
(* lost race is not lost again.                                            *)
(***************************************************************************)
EXTENDS LdapReplication, FiniteSetTheorems, TLAPS

\* What a run has passed is in the directory of its node: a search has found
\* it, or ldapadd has added it.
PassedInv ==
    \A c \in CN :
        /\ pc[c] \in {"dataone", "addDataone", "cilogon", "addCilogon", "nodes", "mark"}
              => "org" \in tree[c]
        /\ pc[c] \in {"cilogon", "addCilogon", "nodes"} => "dataone" \in tree[c]
        /\ pc[c] = "nodes" => "cilogon" \in tree[c]
        /\ pc[c] = "mark" /\ c \in First => {"dataone", "cilogon"} \subseteq tree[c]

\* Only runs of the first nodes get to the entries below dc=org.
FirstInv ==
    /\ \A c \in CN : pc[c] \in {"dataone", "addDataone", "cilogon", "addCilogon", "nodes"}
          => c \in First
    /\ \A e \in Base \ {"org"} : addedBy[e] \subseteq First

\* An addition is lost to an entry that is there, and stays.
LostInv == \A c \in CN : lostAt[c] \subseteq tree[c]

\* A slapd that does not stop by itself is down only where a run has stopped it.
UpInv == \A c \in CN \ Unstable : pc[c] # "stopped" => slapd[c]

Inv == TypeOK /\ PassedInv /\ PopulatedIsUsable /\ FirstInv /\ LostInv /\ UpInv /\ RaceLostOnce

\* Looking for an entry and adding it are different places, and those of one
\* entry are not those of another.
LEMMA Places ==
    /\ Adding["org"] = "addOrg" /\ Adding["dataone"] = "addDataone"
    /\ Adding["cilogon"] = "addCilogon"
    /\ \A e \in Searches : Adding[e] \in {"addOrg", "addDataone", "addCilogon"}
    /\ \A e, f \in Searches : Adding[e] = Adding[f] => e = f
    /\ PC = {"idle", "stopped", "nodes", "mark", "org", "dataone", "cilogon",
             "addOrg", "addDataone", "addCilogon"}
  <1>1. Adding["org"] = "addOrg" /\ Adding["dataone"] = "addDataone"
        /\ Adding["cilogon"] = "addCilogon"
    BY DEF Adding
  <1>2. {Adding[e] : e \in Searches} = {"addOrg", "addDataone", "addCilogon"}
    BY <1>1 DEF Searches
  <1>. QED
    BY <1>1, <1>2 DEF Searches, PC

\* Where a run goes on after entry e.
LEMMA Following ==
    ASSUME NEW c, NEW e \in Searches
    PROVE  /\ After(c, e) \in PC \ {"addOrg", "addDataone", "addCilogon"}
           /\ e = "org" => After(c, e) = IF c \in First THEN "dataone" ELSE "mark"
           /\ e = "dataone" => After(c, e) = "cilogon"
           /\ e = "cilogon" => After(c, e) = "nodes"
  BY Places DEF After, Searches

-----------------------------------------------------------------------------
(* Type correctness.                                                       *)

\* Every step keeps the types.
LEMMA TypeStep == TypeOK /\ [Next]_vars => TypeOK'
  <1> SUFFICES ASSUME TypeOK, [Next]_vars PROVE TypeOK'
    OBVIOUS
  <1> USE Environment, Places, Following DEF TypeOK, vars, Entry, Base, Searches
  <1>1. ASSUME NEW c \in CN, NEW pw \in Password, Begin(c, pw) PROVE TypeOK'
    BY <1>1 DEF Begin, Opened
  <1>2. ASSUME NEW c \in CN, StartSlapd(c) PROVE TypeOK'
    BY <1>2 DEF StartSlapd
  <1>3. ASSUME NEW c \in CN, NEW e \in Searches, Search(c, e) PROVE TypeOK'
    BY <1>3 DEF Search
  <1>4. ASSUME NEW c \in CN, NEW e \in Searches, Add(c, e) PROVE TypeOK'
    BY <1>4 DEF Add
  <1>5. ASSUME NEW c \in CN, NEW e \in Searches, AddLost(c, e) PROVE TypeOK'
    BY <1>5 DEF AddLost
  <1>6. ASSUME NEW c \in CN, NodeList(c) PROVE TypeOK'
    <2>1. CASE slapd[c]
      <3>1. tree' = [tree EXCEPT ![c] = @ \union {"nodes"}]
        BY <1>6, <2>1 DEF NodeList
      <3>2. addedBy' = [addedBy EXCEPT !["nodes"] =
                           IF "nodes" \in tree[c] THEN @ ELSE @ \union {c}]
        BY <1>6, <2>1 DEF NodeList
      <3>. QED
        BY <1>6, <3>1, <3>2 DEF NodeList
    <2>2. CASE ~slapd[c]
      BY <1>6, <2>2 DEF NodeList
    <2>. QED
      BY <2>1, <2>2
  <1>7. ASSUME NEW c \in CN, Mark(c) PROVE TypeOK'
    BY <1>7 DEF Mark
  <1>8. ASSUME NEW c \in CN, Stop(c) PROVE TypeOK'
    BY <1>8 DEF Stop
  <1>9. ASSUME NEW c \in CN, SlapdDies(c) PROVE TypeOK'
    BY <1>9 DEF SlapdDies
  <1>10. ASSUME NEW c \in CN, SlapdRestarts(c) PROVE TypeOK'
    BY <1>10 DEF SlapdRestarts
  <1>11. ASSUME NEW c \in CN, NEW e \in Person, Write(c, e) PROVE TypeOK'
    BY <1>11 DEF Write
  <1>12. ASSUME NEW c \in CN, NEW p \in CN, Pull(c, p) PROVE TypeOK'
    BY <1>12 DEF Pull
  <1>13. CASE UNCHANGED vars
    BY <1>13
  <1> HIDE Environment, Places, Following DEF TypeOK, vars, Entry, Base, Searches
  <1>. QED
    BY <1>1, <1>2, <1>3, <1>4, <1>5, <1>6, <1>7, <1>8, <1>9, <1>10, <1>11,
       <1>12, <1>13 DEF Next, Run

\* The directories, the flags and the histories hold values of their types.
THEOREM Typed == Spec => []TypeOK
  <1>1. Init => TypeOK
    BY Environment DEF Init, TypeOK, PC
  <1>. QED
    BY <1>1, TypeStep, PTL DEF Spec

-----------------------------------------------------------------------------
(* The parts of the invariant.                                             *)

\* A search or an addition leads past an entry that is there.
LEMMA PassedStep == TypeOK /\ PassedInv /\ [Next]_vars => PassedInv'
  <1> SUFFICES ASSUME TypeOK, PassedInv, [Next]_vars PROVE PassedInv'
    OBVIOUS
  <1> USE Environment, Places, Following, TypeStep DEF TypeOK, vars, Searches, PassedInv
  <1>1. ASSUME NEW c \in CN, NEW pw \in Password, Begin(c, pw) PROVE PassedInv'
    BY <1>1 DEF Begin
  <1>2. ASSUME NEW c \in CN, StartSlapd(c) PROVE PassedInv'
    BY <1>2 DEF StartSlapd
  <1>3. ASSUME NEW c \in CN, NEW e \in Searches, Search(c, e) PROVE PassedInv'
    BY <1>3 DEF Search
  <1>4. ASSUME NEW c \in CN, NEW e \in Searches, Add(c, e) PROVE PassedInv'
    BY <1>4 DEF Add
  <1>5. ASSUME NEW c \in CN, NEW e \in Searches, AddLost(c, e) PROVE PassedInv'
    BY <1>5 DEF AddLost
  <1>6. ASSUME NEW c \in CN, NodeList(c) PROVE PassedInv'
    BY <1>6 DEF NodeList
  <1>7. ASSUME NEW c \in CN, Mark(c) PROVE PassedInv'
    BY <1>7 DEF Mark
  <1>8. ASSUME NEW c \in CN, Stop(c) PROVE PassedInv'
    BY <1>8 DEF Stop
  <1>9. ASSUME NEW c \in CN, SlapdDies(c) PROVE PassedInv'
    BY <1>9 DEF SlapdDies
  <1>10. ASSUME NEW c \in CN, SlapdRestarts(c) PROVE PassedInv'
    BY <1>10 DEF SlapdRestarts
  <1>11. ASSUME NEW c \in CN, NEW e \in Person, Write(c, e) PROVE PassedInv'
    BY <1>11 DEF Write
  <1>12. ASSUME NEW c \in CN, NEW p \in CN, Pull(c, p) PROVE PassedInv'
    BY <1>12 DEF Pull
  <1>13. CASE UNCHANGED vars
    BY <1>13
  <1> HIDE Environment, Places, Following, TypeStep DEF TypeOK, vars, Searches, PassedInv
  <1>. QED
    BY <1>1, <1>2, <1>3, <1>4, <1>5, <1>6, <1>7, <1>8, <1>9, <1>10, <1>11,
       <1>12, <1>13 DEF Next, Run

\* Only a run that has passed all entries marks the directory.
LEMMA PopulatedStep == TypeOK /\ PassedInv /\ PopulatedIsUsable /\ [Next]_vars => PopulatedIsUsable'
  <1> SUFFICES ASSUME TypeOK, PassedInv, PopulatedIsUsable, [Next]_vars PROVE PopulatedIsUsable'
    OBVIOUS
  <1> USE Environment, Places, Following, TypeStep DEF TypeOK, vars, Searches, PassedInv, PopulatedIsUsable
  <1>1. ASSUME NEW c \in CN, NEW pw \in Password, Begin(c, pw) PROVE PopulatedIsUsable'
    BY <1>1 DEF Begin
  <1>2. ASSUME NEW c \in CN, StartSlapd(c) PROVE PopulatedIsUsable'
    BY <1>2 DEF StartSlapd
  <1>3. ASSUME NEW c \in CN, NEW e \in Searches, Search(c, e) PROVE PopulatedIsUsable'
    BY <1>3 DEF Search
  <1>4. ASSUME NEW c \in CN, NEW e \in Searches, Add(c, e) PROVE PopulatedIsUsable'
    BY <1>4 DEF Add
  <1>5. ASSUME NEW c \in CN, NEW e \in Searches, AddLost(c, e) PROVE PopulatedIsUsable'
    BY <1>5 DEF AddLost
  <1>6. ASSUME NEW c \in CN, NodeList(c) PROVE PopulatedIsUsable'
    <2>1. CASE slapd[c]
      <3>1. tree' = [tree EXCEPT ![c] = @ \union {"nodes"}]
        BY <1>6, <2>1 DEF NodeList
      <3>2. addedBy' = [addedBy EXCEPT !["nodes"] =
                           IF "nodes" \in tree[c] THEN @ ELSE @ \union {c}]
        BY <1>6, <2>1 DEF NodeList
      <3>. QED
        BY <1>6, <3>1, <3>2 DEF NodeList
    <2>2. CASE ~slapd[c]
      BY <1>6, <2>2 DEF NodeList
    <2>. QED
      BY <2>1, <2>2
  <1>7. ASSUME NEW c \in CN, Mark(c) PROVE PopulatedIsUsable'
    BY <1>7 DEF Mark
  <1>8. ASSUME NEW c \in CN, Stop(c) PROVE PopulatedIsUsable'
    BY <1>8 DEF Stop
  <1>9. ASSUME NEW c \in CN, SlapdDies(c) PROVE PopulatedIsUsable'
    BY <1>9 DEF SlapdDies
  <1>10. ASSUME NEW c \in CN, SlapdRestarts(c) PROVE PopulatedIsUsable'
    BY <1>10 DEF SlapdRestarts
  <1>11. ASSUME NEW c \in CN, NEW e \in Person, Write(c, e) PROVE PopulatedIsUsable'
    BY <1>11 DEF Write
  <1>12. ASSUME NEW c \in CN, NEW p \in CN, Pull(c, p) PROVE PopulatedIsUsable'
    BY <1>12 DEF Pull
  <1>13. CASE UNCHANGED vars
    BY <1>13
  <1> HIDE Environment, Places, Following, TypeStep DEF TypeOK, vars, Searches, PassedInv, PopulatedIsUsable
  <1>. QED
    BY <1>1, <1>2, <1>3, <1>4, <1>5, <1>6, <1>7, <1>8, <1>9, <1>10, <1>11,
       <1>12, <1>13 DEF Next, Run

\* A run of another node goes from dc=org to the mark.
LEMMA FirstStep == TypeOK /\ FirstInv /\ [Next]_vars => FirstInv'
  <1> SUFFICES ASSUME TypeOK, FirstInv, [Next]_vars PROVE FirstInv'
    OBVIOUS
  <1> USE Environment, Places, Following, TypeStep DEF TypeOK, vars, Searches, FirstInv, Base
  <1>1. ASSUME NEW c \in CN, NEW pw \in Password, Begin(c, pw) PROVE FirstInv'
    BY <1>1 DEF Begin
  <1>2. ASSUME NEW c \in CN, StartSlapd(c) PROVE FirstInv'
    BY <1>2 DEF StartSlapd
  <1>3. ASSUME NEW c \in CN, NEW e \in Searches, Search(c, e) PROVE FirstInv'
    BY <1>3 DEF Search
  <1>4. ASSUME NEW c \in CN, NEW e \in Searches, Add(c, e) PROVE FirstInv'
    BY <1>4 DEF Add
  <1>5. ASSUME NEW c \in CN, NEW e \in Searches, AddLost(c, e) PROVE FirstInv'
    BY <1>5 DEF AddLost
  <1>6. ASSUME NEW c \in CN, NodeList(c) PROVE FirstInv'
    BY <1>6 DEF NodeList
  <1>7. ASSUME NEW c \in CN, Mark(c) PROVE FirstInv'
    BY <1>7 DEF Mark
  <1>8. ASSUME NEW c \in CN, Stop(c) PROVE FirstInv'
    BY <1>8 DEF Stop
  <1>9. ASSUME NEW c \in CN, SlapdDies(c) PROVE FirstInv'
    BY <1>9 DEF SlapdDies
  <1>10. ASSUME NEW c \in CN, SlapdRestarts(c) PROVE FirstInv'
    BY <1>10 DEF SlapdRestarts
  <1>11. ASSUME NEW c \in CN, NEW e \in Person, Write(c, e) PROVE FirstInv'
    BY <1>11 DEF Write
  <1>12. ASSUME NEW c \in CN, NEW p \in CN, Pull(c, p) PROVE FirstInv'
    BY <1>12 DEF Pull
  <1>13. CASE UNCHANGED vars
    BY <1>13
  <1> HIDE Environment, Places, Following, TypeStep DEF TypeOK, vars, Searches, FirstInv, Base
  <1>. QED
    BY <1>1, <1>2, <1>3, <1>4, <1>5, <1>6, <1>7, <1>8, <1>9, <1>10, <1>11,
       <1>12, <1>13 DEF Next, Run

\* An addition fails only if the entry is there.
LEMMA LostStep == TypeOK /\ LostInv /\ [Next]_vars => LostInv'
  <1> SUFFICES ASSUME TypeOK, LostInv, [Next]_vars PROVE LostInv'
    OBVIOUS
  <1> USE Environment, Places, Following, TypeStep DEF TypeOK, vars, Searches, LostInv
  <1>1. ASSUME NEW c \in CN, NEW pw \in Password, Begin(c, pw) PROVE LostInv'
    BY <1>1 DEF Begin
  <1>2. ASSUME NEW c \in CN, StartSlapd(c) PROVE LostInv'
    BY <1>2 DEF StartSlapd
  <1>3. ASSUME NEW c \in CN, NEW e \in Searches, Search(c, e) PROVE LostInv'
    BY <1>3 DEF Search
  <1>4. ASSUME NEW c \in CN, NEW e \in Searches, Add(c, e) PROVE LostInv'
    BY <1>4 DEF Add
  <1>5. ASSUME NEW c \in CN, NEW e \in Searches, AddLost(c, e) PROVE LostInv'
    BY <1>5 DEF AddLost
  <1>6. ASSUME NEW c \in CN, NodeList(c) PROVE LostInv'
    <2>1. CASE slapd[c]
      <3>1. tree' = [tree EXCEPT ![c] = @ \union {"nodes"}]
        BY <1>6, <2>1 DEF NodeList
      <3>2. addedBy' = [addedBy EXCEPT !["nodes"] =
                           IF "nodes" \in tree[c] THEN @ ELSE @ \union {c}]
        BY <1>6, <2>1 DEF NodeList
      <3>. QED
        BY <1>6, <3>1, <3>2 DEF NodeList
    <2>2. CASE ~slapd[c]
      BY <1>6, <2>2 DEF NodeList
    <2>. QED
      BY <2>1, <2>2
  <1>7. ASSUME NEW c \in CN, Mark(c) PROVE LostInv'
    BY <1>7 DEF Mark
  <1>8. ASSUME NEW c \in CN, Stop(c) PROVE LostInv'
    BY <1>8 DEF Stop
  <1>9. ASSUME NEW c \in CN, SlapdDies(c) PROVE LostInv'
    BY <1>9 DEF SlapdDies
  <1>10. ASSUME NEW c \in CN, SlapdRestarts(c) PROVE LostInv'
    BY <1>10 DEF SlapdRestarts
  <1>11. ASSUME NEW c \in CN, NEW e \in Person, Write(c, e) PROVE LostInv'
    BY <1>11 DEF Write
  <1>12. ASSUME NEW c \in CN, NEW p \in CN, Pull(c, p) PROVE LostInv'
    BY <1>12 DEF Pull
  <1>13. CASE UNCHANGED vars
    BY <1>13
  <1> HIDE Environment, Places, Following, TypeStep DEF TypeOK, vars, Searches, LostInv
  <1>. QED
    BY <1>1, <1>2, <1>3, <1>4, <1>5, <1>6, <1>7, <1>8, <1>9, <1>10, <1>11,
       <1>12, <1>13 DEF Next, Run

\* A run that stops slapd starts it in its next step.
LEMMA UpStep == TypeOK /\ UpInv /\ [Next]_vars => UpInv'
  <1> SUFFICES ASSUME TypeOK, UpInv, [Next]_vars PROVE UpInv'
    OBVIOUS
  <1> USE Environment, Places, Following, TypeStep DEF TypeOK, vars, Searches, UpInv
  <1>1. ASSUME NEW c \in CN, NEW pw \in Password, Begin(c, pw) PROVE UpInv'
    BY <1>1 DEF Begin
  <1>2. ASSUME NEW c \in CN, StartSlapd(c) PROVE UpInv'
    BY <1>2 DEF StartSlapd
  <1>3. ASSUME NEW c \in CN, NEW e \in Searches, Search(c, e) PROVE UpInv'
    BY <1>3 DEF Search
  <1>4. ASSUME NEW c \in CN, NEW e \in Searches, Add(c, e) PROVE UpInv'
    BY <1>4 DEF Add
  <1>5. ASSUME NEW c \in CN, NEW e \in Searches, AddLost(c, e) PROVE UpInv'
    BY <1>5 DEF AddLost
  <1>6. ASSUME NEW c \in CN, NodeList(c) PROVE UpInv'
    BY <1>6 DEF NodeList
  <1>7. ASSUME NEW c \in CN, Mark(c) PROVE UpInv'
    BY <1>7 DEF Mark
  <1>8. ASSUME NEW c \in CN, Stop(c) PROVE UpInv'
    BY <1>8 DEF Stop
  <1>9. ASSUME NEW c \in CN, SlapdDies(c) PROVE UpInv'
    BY <1>9 DEF SlapdDies
  <1>10. ASSUME NEW c \in CN, SlapdRestarts(c) PROVE UpInv'
    BY <1>10 DEF SlapdRestarts
  <1>11. ASSUME NEW c \in CN, NEW e \in Person, Write(c, e) PROVE UpInv'
    BY <1>11 DEF Write
  <1>12. ASSUME NEW c \in CN, NEW p \in CN, Pull(c, p) PROVE UpInv'
    BY <1>12 DEF Pull
  <1>13. CASE UNCHANGED vars
    BY <1>13
  <1> HIDE Environment, Places, Following, TypeStep DEF TypeOK, vars, Searches, UpInv
  <1>. QED
    BY <1>1, <1>2, <1>3, <1>4, <1>5, <1>6, <1>7, <1>8, <1>9, <1>10, <1>11,
       <1>12, <1>13 DEF Next, Run

\* Where slapd answers, a search finds what an earlier run has lost.
LEMMA RaceStep == TypeOK /\ LostInv /\ UpInv /\ RaceLostOnce /\ [Next]_vars => RaceLostOnce'
  <1> SUFFICES ASSUME TypeOK, LostInv, UpInv, RaceLostOnce, [Next]_vars PROVE RaceLostOnce'
    OBVIOUS
  <1> USE Environment, Places, Following, TypeStep DEF TypeOK, vars, Searches, LostInv, UpInv, RaceLostOnce
  <1>1. ASSUME NEW c \in CN, NEW pw \in Password, Begin(c, pw) PROVE RaceLostOnce'
    BY <1>1 DEF Begin
  <1>2. ASSUME NEW c \in CN, StartSlapd(c) PROVE RaceLostOnce'
    BY <1>2 DEF StartSlapd
  <1>3. ASSUME NEW c \in CN, NEW e \in Searches, Search(c, e) PROVE RaceLostOnce'
    BY <1>3 DEF Search
  <1>4. ASSUME NEW c \in CN, NEW e \in Searches, Add(c, e) PROVE RaceLostOnce'
    BY <1>4 DEF Add
  <1>5. ASSUME NEW c \in CN, NEW e \in Searches, AddLost(c, e) PROVE RaceLostOnce'
    BY <1>5 DEF AddLost
  <1>6. ASSUME NEW c \in CN, NodeList(c) PROVE RaceLostOnce'
    BY <1>6 DEF NodeList
  <1>7. ASSUME NEW c \in CN, Mark(c) PROVE RaceLostOnce'
    BY <1>7 DEF Mark
  <1>8. ASSUME NEW c \in CN, Stop(c) PROVE RaceLostOnce'
    BY <1>8 DEF Stop
  <1>9. ASSUME NEW c \in CN, SlapdDies(c) PROVE RaceLostOnce'
    BY <1>9 DEF SlapdDies
  <1>10. ASSUME NEW c \in CN, SlapdRestarts(c) PROVE RaceLostOnce'
    BY <1>10 DEF SlapdRestarts
  <1>11. ASSUME NEW c \in CN, NEW e \in Person, Write(c, e) PROVE RaceLostOnce'
    BY <1>11 DEF Write
  <1>12. ASSUME NEW c \in CN, NEW p \in CN, Pull(c, p) PROVE RaceLostOnce'
    BY <1>12 DEF Pull
  <1>13. CASE UNCHANGED vars
    BY <1>13
  <1> HIDE Environment, Places, Following, TypeStep DEF TypeOK, vars, Searches, LostInv, UpInv, RaceLostOnce
  <1>. QED
    BY <1>1, <1>2, <1>3, <1>4, <1>5, <1>6, <1>7, <1>8, <1>9, <1>10, <1>11,
       <1>12, <1>13 DEF Next, Run

\* Every state of the specification satisfies the invariant.
LEMMA Invariant == Spec => []Inv
  <1>1. Init => Inv
    <2> SUFFICES ASSUME Init PROVE Inv
      OBVIOUS
    <2>1. TypeOK
      BY Environment DEF Init, TypeOK, PC
    <2>2. PassedInv /\ PopulatedIsUsable
      BY DEF Init, PassedInv, PopulatedIsUsable
    <2>3. FirstInv
      BY DEF Init, FirstInv
    <2>4. LostInv /\ UpInv
      BY Environment DEF Init, LostInv, UpInv
    <2>5. RaceLostOnce
      BY Environment DEF Init, RaceLostOnce
    <2>. QED
      BY <2>1, <2>2, <2>3, <2>4, <2>5 DEF Inv
  <1>2. Inv /\ [Next]_vars => Inv'
    BY TypeStep, PassedStep, PopulatedStep, FirstStep, LostStep, UpStep, RaceStep DEF Inv
  <1>. QED
    BY <1>1, <1>2, PTL DEF Spec

-----------------------------------------------------------------------------
(* The properties.                                                         *)

\* A directory that is marked populated (postinst 1784) has dc=org, and the first
\* node's has the entries below it, however runs and replication interleave.
THEOREM Populated == Spec => []PopulatedIsUsable
  <1>1. Inv => PopulatedIsUsable
    BY DEF Inv
  <1>. QED
    BY <1>1, Invariant, PTL

\* With slapd up, no run gets a second time to an addition its node has lost to
\* replication (1756 to 1774).
THEOREM Race == Spec => []RaceLostOnce
  <1>1. Inv => RaceLostOnce
    BY DEF Inv
  <1>. QED
    BY <1>1, Invariant, PTL

\* There are as many nodes as places in cn.hostnamelist.
LEMMA FiniteNodes == IsFiniteSet(CN)
  <1>1. Cluster \in [1 .. Len(Cluster) -> CN] /\ Len(Cluster) \in Nat
    BY Environment
  <1>2. IsFiniteSet(1 .. Len(Cluster))
    BY <1>1, FS_Interval
  <1>3. Cluster \in Surjection(1 .. Len(Cluster), CN)
    BY <1>1 DEF Surjection, CN
  <1>. QED
    BY <1>2, <1>3, FS_Surjection

\* If one node at most is the first of the environment, what is below dc=org is
\* added by that node only.
THEOREM Origin == Spec => []OneOrigin
  <1>1. Inv => OneOrigin
    <2> SUFFICES ASSUME Inv, Cardinality(First) <= 1, NEW e \in Base \ {"org"}
                 PROVE  Cardinality(addedBy[e]) <= 1
      BY DEF OneOrigin
    <2>1. addedBy[e] \subseteq First
      BY DEF Inv, FirstInv
    <2>2. IsFiniteSet(First)
      BY FiniteNodes, FS_Subset, Environment
    <2>3. IsFiniteSet(addedBy[e]) /\ Cardinality(addedBy[e]) <= Cardinality(First)
      BY <2>1, <2>2, FS_Subset
    <2>4. Cardinality(addedBy[e]) \in Nat /\ Cardinality(First) \in Nat
      BY <2>2, <2>3, FS_CardinalityType
    <2>. QED
      BY <2>3, <2>4
  <1>. QED
    BY <1>1, Invariant, PTL

=============================================================================
