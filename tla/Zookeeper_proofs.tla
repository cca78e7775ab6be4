-------------------------- MODULE Zookeeper_proofs --------------------------
(***************************************************************************)
(* Proofs about the zookeeper of one node, for any lists, addresses of the *)
(* machine and similarities between them: a server runs with what was      *)
(* configured, a number that is written belongs to the machine, and only   *)
(* an unpacking brings a lost zoo.cfg back.                                *)
(***************************************************************************)
EXTENDS Zookeeper, WellFoundedInduction, TLAPS

\* After its stop no server is up until the script's end.
StoppedInv == step \in {"mv", "cp", "sed", "myid", "start", "rm", "unpack"} => proc # "up"

\* What is copied over by dataone-zookeeper was moved away by it; what
\* dataone-event-index moved away stays away.
MovedInv ==
    /\ by = "zk" /\ step = "cp" => conf = Moved
    /\ by = "ei" /\ step \in {"cp", "sed", "myid", "start"} => conf \in {None, Moved}

Inv == TypeOK /\ StoppedInv /\ MovedInv

\* The numbers are places.
LEMMA Ids == \A n \in MyIds : n \in 0 .. 3
  BY DEF MyIds, Place

\* Every step keeps the types.
LEMMA TypeStep == TypeOK /\ [Next]_vars => TypeOK'
  <1> SUFFICES ASSUME TypeOK, [Next]_vars PROVE TypeOK'
    OBVIOUS
  <1>ids. \A n \in MyIds : n \in 0 .. 3
    BY Ids
  <1>lists. iplist \notin NoList
    BY Addresses DEF Addresses, TypeOK
  <1> USE <1>ids, <1>lists DEF TypeOK, vars, At, Go, Leave, None, Moved, Shipped, Template, NoList
  <1>1. ASSUME NEW who \in {"zk", "ei"}, Postinst(who) PROVE TypeOK'
    BY <1>1 DEF Postinst
  <1>2. CASE Stop
    BY <1>2 DEF Stop
  <1>3. CASE Move
    BY <1>3 DEF Move
  <1>4. CASE Copy
    BY <1>4 DEF Copy
  <1>5. CASE CopyNothing
    BY <1>5 DEF CopyNothing
  <1>6. CASE Substitute
    BY <1>6 DEF Substitute
  <1>7. CASE MyId
    <2>1. myid' = myid \/ myid' \in MyIds
      BY <1>7 DEF MyId
    <2>2. myid' \in 0 .. 3
      BY <2>1, <1>ids
    <2>3. by # "no" /\ step = "myid" /\ step' = "start" /\ by' = by
      BY <1>7 DEF MyId
    <2>4. UNCHANGED <<iplist, own, zk, ei, conf, proc, runs>>
      BY <1>7 DEF MyId
    <2>. QED
      BY <2>2, <2>3, <2>4
  <1>8. CASE Start
    BY <1>8 DEF Start, StartServer
  <1>9. CASE StartFails
    BY <1>9 DEF StartFails
  <1>10. CASE Kill
    BY <1>10 DEF Kill
  <1>11. CASE Prerm
    BY <1>11 DEF Prerm
  <1>12. CASE Unpack
    BY <1>12 DEF Unpack
  <1>13. CASE Abort
    BY <1>13 DEF Abort
  <1>14. CASE Outside
    BY <1>14 DEF Outside, SetList, Process, StartServer
  <1>15. CASE UNCHANGED vars
    BY <1>15
  <1>. QED
    BY <1>1, <1>2, <1>3, <1>4, <1>5, <1>6, <1>7, <1>8, <1>9, <1>10, <1>11,
       <1>12, <1>13, <1>14, <1>15
    DEF Next

\* Scripts, packages, file and server keep their types.
THEOREM Typed == Spec => []TypeOK
  <1>1. Init => TypeOK
    BY DEF Init, TypeOK, None, Moved, Shipped, Template, NoList
  <1>. QED
    BY <1>1, TypeStep, PTL DEF Spec

\* Every step keeps Inv.
LEMMA InvStep == Inv /\ [Next]_vars => Inv'
  <1> SUFFICES ASSUME Inv, [Next]_vars PROVE StoppedInv' /\ MovedInv'
    BY TypeStep DEF Inv
  <1>lists. iplist \notin NoList
    BY Addresses DEF Addresses, Inv, TypeOK
  <1> USE <1>lists DEF Inv, TypeOK, StoppedInv, MovedInv, vars, At, Go, Leave, None, Moved, Shipped, Template,
        NoList
  <1>1. ASSUME NEW who \in {"zk", "ei"}, Postinst(who) PROVE StoppedInv' /\ MovedInv'
    BY <1>1 DEF Postinst
  <1>2. CASE Stop
    BY <1>2 DEF Stop
  <1>3. CASE Move
    BY <1>3 DEF Move
  <1>4. CASE Copy
    BY <1>4 DEF Copy
  <1>5. CASE CopyNothing
    BY <1>5 DEF CopyNothing
  <1>6. CASE Substitute
    BY <1>6 DEF Substitute
  <1>7. CASE MyId
    BY <1>7 DEF MyId
  <1>8. CASE Start
    BY <1>8 DEF Start, StartServer
  <1>9. CASE StartFails
    BY <1>9 DEF StartFails
  <1>10. CASE Kill
    BY <1>10 DEF Kill
  <1>11. CASE Prerm
    BY <1>11 DEF Prerm
  <1>12. CASE Unpack
    BY <1>12 DEF Unpack
  <1>13. CASE Abort
    BY <1>13 DEF Abort
  <1>14. CASE Outside
    BY <1>14 DEF Outside, SetList, Process, StartServer
  <1>15. CASE UNCHANGED vars
    BY <1>15
  <1>. QED
    BY <1>1, <1>2, <1>3, <1>4, <1>5, <1>6, <1>7, <1>8, <1>9, <1>10, <1>11,
       <1>12, <1>13, <1>14, <1>15
    DEF Next

LEMMA Invariance == Spec => []Inv
  <1>1. Init => Inv
    BY DEF Init, Inv, TypeOK, StoppedInv, MovedInv, None, Moved, Shipped, Template, NoList
  <1>. QED
    BY <1>1, InvStep, PTL DEF Spec

-----------------------------------------------------------------------------

\* Every step keeps RunsConfigured.
LEMMA RunsStep == Inv /\ RunsConfigured /\ [Next]_vars => RunsConfigured'
  <1> SUFFICES ASSUME Inv, RunsConfigured, [Next]_vars PROVE RunsConfigured'
    OBVIOUS
  <1>lists. \A l \in Lists : l \notin NoList
    BY Addresses DEF Addresses
  <1> USE <1>lists DEF Inv, TypeOK, StoppedInv, MovedInv, RunsConfigured, vars, At, Go, Leave, None, Moved,
        Shipped, Template, NoList
  <1>1. ASSUME NEW who \in {"zk", "ei"}, Postinst(who) PROVE RunsConfigured'
    BY <1>1 DEF Postinst
  <1>2. CASE Stop
    BY <1>2 DEF Stop
  <1>3. CASE Move
    BY <1>3 DEF Move
  <1>4. CASE Copy
    BY <1>4 DEF Copy
  <1>5. CASE CopyNothing
    BY <1>5 DEF CopyNothing
  <1>6. CASE Substitute
    BY <1>6 DEF Substitute
  <1>7. CASE MyId
    BY <1>7 DEF MyId
  <1>8. CASE Start
    BY <1>8 DEF Start, StartServer
  <1>9. CASE StartFails
    BY <1>9 DEF StartFails
  <1>10. CASE Kill
    BY <1>10 DEF Kill
  <1>11. CASE Prerm
    BY <1>11 DEF Prerm
  <1>12. CASE Unpack
    BY <1>12 DEF Unpack
  <1>13. CASE Abort
    BY <1>13 DEF Abort
  <1>14. CASE Outside
    BY <1>14 DEF Outside, SetList, Process, StartServer
  <1>15. CASE UNCHANGED vars
    BY <1>15
  <1>. QED
    BY <1>1, <1>2, <1>3, <1>4, <1>5, <1>6, <1>7, <1>8, <1>9, <1>10, <1>11,
       <1>12, <1>13, <1>14, <1>15
    DEF Next

\* A server that is up and not about to stop runs with the list and the number
\* that dataone-zookeeper was configured with (RunsConfigured).
THEOREM Runs == Spec => []RunsConfigured
  <1>1. Init => RunsConfigured
    BY DEF Init, RunsConfigured
  <1>. QED
    BY <1>1, RunsStep, Invariance, PTL DEF Spec

\* Nothing but an unpacking of dataone-zookeeper brings a lost zoo.cfg back
\* (OnlyUnpackCures).
THEOREM Cure == Spec => OnlyUnpackCures
  <1>1. ASSUME Inv, [Next]_vars
        PROVE  [conf = None /\ conf' # None => step = "unpack" /\ zk' = "unpacked"]_vars
    <2> SUFFICES ASSUME conf = None, conf' # None, Next PROVE step = "unpack" /\ zk' = "unpacked"
      BY <1>1 DEF vars
    <2>1. None # Template /\ None # Moved /\ None # Shipped
      BY DEF None, Template, Moved, Shipped
    <2>2. ~Copy
      BY <1>1, <2>1 DEF Copy, At, Inv, MovedInv
    <2>3. ~Substitute
      BY <2>1 DEF Substitute
    <2>. QED
      BY <2>1, <2>2, <2>3 DEF Next, Postinst, Stop, Move, CopyNothing, MyId, Start, StartFails, Kill,
         Prerm, Unpack, Abort, Outside, SetList, Process
  <1>. QED
    BY <1>1, Invariance, PTL DEF Spec, OnlyUnpackCures

\* With a complete list the number that a script writes is the place of one of
\* the machine's own addresses (IdIsOwn).
THEOREM OwnId == Spec => IdIsOwn
  <1>1. ASSUME TypeOK, [Next]_vars
        PROVE  [myid' # myid /\ Len(iplist) >= 3 =>
                   \E n \in Place : myid' = n /\ iplist[n] \in OwnAddresses]_vars
    <2> SUFFICES ASSUME myid' # myid, Len(iplist) >= 3, Next
                 PROVE  \E n \in Place : myid' = n /\ iplist[n] \in OwnAddresses
      BY <1>1 DEF vars
    <2>1. MyId
      BY DEF Next, Postinst, Stop, Move, Copy, CopyNothing, Substitute, Start, StartFails,
         Kill, Prerm, Unpack, Abort, Outside, SetList
    <2>2. PICK n \in MyIds : myid' = n
      BY <2>1 DEF MyId
    <2>3. iplist \in Seq(Address)
      BY <1>1, Addresses DEF Addresses, TypeOK
    <2>4. n \in Place /\ n \in DOMAIN iplist
      BY <2>2, <2>3 DEF MyIds, Place
    <2>5. Server(n) = iplist[n] /\ iplist[n] # Empty
      BY <2>3, <2>4, Addresses DEF Addresses, Server
    <2>6. iplist[n] \in LocalIP
      BY <2>2, <2>5 DEF MyIds
    <2>7. LocalIP \subseteq OwnAddresses
      BY DEF LocalIP, OwnAddresses
    <2>. QED
      BY <2>2, <2>4, <2>6, <2>7
  <1>. QED
    BY <1>1, Typed, PTL DEF Spec, IdIsOwn

-----------------------------------------------------------------------------
(* The number of a machine that its list names.                            *)

\* A set of places that is not empty has a last one.
LEMMA Last ==
    ASSUME NEW n \in Nat, NEW S \in SUBSET (1 .. n), S # {}
    PROVE  \E k \in S : \A m \in S : m <= k
  <1> DEFINE T == {n - m : m \in S}
  <1>1. T \subseteq Nat /\ T # {}
    <2>1. \A m \in S : m \in 1 .. n
      OBVIOUS
    <2>2. \A m \in S : n - m \in Nat
      BY <2>1
    <2>3. PICK m \in S : n - m \in T
      OBVIOUS
    <2>. QED
      BY <2>2, <2>3
  <1>2. PICK x \in T : \A y \in T : ~(<<y, x>> \in OpToRel(<, Nat))
    <2> HIDE DEF T
    <2>. QED
      BY <1>1, NatLessThanWellFounded, WFMin, Zenon
  <1>3. \A y \in T : ~(y < x)
    BY <1>1, <1>2 DEF OpToRel
  <1>4. PICK k \in S : x = n - k
    OBVIOUS
  <1>5. ASSUME NEW m \in S PROVE m <= k
    BY <1>3, <1>4
  <1>. QED
    BY <1>5

\* A list that names the machine gives it one number, its place: the last of
\* its addresses in the text of the list is the entry, and no other entry is
\* like it.
LEMMA NamedIds ==
    ASSUME TypeOK, Named(iplist)
    PROVE  \E n \in Place : MyIds = {n} /\ iplist[n] \in OwnAddresses
  <1>0. iplist \in Seq(Address) /\ own \in Seq(Address)
    BY Addresses DEF TypeOK
  <1>1. PICK n \in Place \intersect DOMAIN iplist :
           /\ iplist[n] \in OwnAddresses
           /\ \A m \in DOMAIN iplist, x \in OwnAddresses :
                 <<x, iplist[m]>> \in Part => m = n /\ x = iplist[n]
    BY DEF Named
  <1>2. \A m \in DOMAIN iplist : iplist[m] \in Address
    BY <1>0
  <1>3. LocalIP \subseteq {iplist[n]}
    BY <1>1 DEF LocalIP, InList, OwnAddresses
  <1>4. LocalIP # {}
    <2> DEFINE S == {k \in DOMAIN own : InList(own[k])}
    <2>1. DOMAIN own = 1 .. Len(own) /\ Len(own) \in Nat
      BY <1>0
    <2>2. S \in SUBSET (1 .. Len(own))
      BY <2>1
    <2>3. S # {}
      <3>1. PICK k \in DOMAIN own : own[k] = iplist[n]
        BY <1>1 DEF OwnAddresses
      <3>2. <<own[k], iplist[n]>> \in Part
        BY <1>1, <1>2, <3>1, Addresses
      <3>. QED
        BY <1>1, <3>2 DEF InList
    <2>4. PICK k \in S : \A m \in S : m <= k
      <3> HIDE DEF S
      <3>. QED
        BY <2>1, <2>2, <2>3, Last
    <2>. QED
      BY <2>4 DEF LocalIP
  <1>5. LocalIP = {iplist[n]}
    BY <1>3, <1>4
  <1>6. ASSUME NEW m \in Place, Server(m) = iplist[n] PROVE m = n
    <2>1. m \in DOMAIN iplist /\ iplist[m] = iplist[n]
      BY <1>1, <1>2, <1>6, Addresses DEF Server
    <2>2. <<iplist[n], iplist[m]>> \in Part
      BY <1>1, <1>2, <2>1, Addresses
    <2>. QED
      BY <1>1, <2>1, <2>2
  <1>7. Server(n) = iplist[n]
    BY <1>1 DEF Server
  <1>8. MyIds = {n}
    BY <1>1, <1>5, <1>6, <1>7 DEF MyIds
  <1>. QED
    BY <1>1, <1>8

\* A script that has seen to the number, and is to start the server, leaves the
\* machine the number of its place.
NumberInv == step = "start" /\ Named(iplist) => iplist[myid] \in OwnAddresses

\* Every step keeps NumberInv: the list and the addresses of the machine stay
\* as they are while a script runs.
LEMMA NumberStep == TypeOK /\ NumberInv /\ [Next]_vars => NumberInv'
  <1> SUFFICES ASSUME TypeOK, NumberInv, [Next]_vars, step' = "start", Named(iplist)'
               PROVE  (iplist[myid] \in OwnAddresses)'
    BY DEF NumberInv
  <1>1. CASE MyId
    <2>1. UNCHANGED <<iplist, own>>
      BY <1>1 DEF MyId
    <2>2. Named(iplist)
      BY <2>1 DEF Named, OwnAddresses
    <2>3. PICK n \in Place : MyIds = {n} /\ iplist[n] \in OwnAddresses
      BY <2>2, NamedIds
    <2>4. myid' = n
      BY <1>1, <2>3 DEF MyId
    <2>. QED
      BY <2>1, <2>3, <2>4 DEF OwnAddresses
  <1>2. CASE ~MyId
    <2>1. UNCHANGED <<iplist, own, myid>> /\ step = "start"
      BY <1>2 DEF Next, Postinst, Stop, Move, Copy, CopyNothing, Substitute, Start, StartFails,
         Kill, Prerm, Unpack, Abort, Outside, SetList, Process, Go, Leave, vars
    <2>. QED
      BY <2>1 DEF NumberInv, Named, OwnAddresses
  <1>. QED
    BY <1>1, <1>2

\* Once dataone-zookeeper is configured, a machine that the list names has the
\* number of its place in it, whatever number it had from earlier lists and
\* whichever of its addresses are part of others (IdIsPlace).
THEOREM OwnPlace == Spec => IdIsPlace
  <1>1. Init => NumberInv
    BY DEF Init, NumberInv
  <1>2. ASSUME TypeOK, NumberInv, [Next]_vars
        PROVE  [zk' = "installed" /\ zk # "installed" /\ Named(iplist)
                   => iplist[myid'] \in OwnAddresses]_vars
    <2> SUFFICES ASSUME zk' = "installed", zk # "installed", Named(iplist), Next
                 PROVE  iplist[myid'] \in OwnAddresses
      BY <1>2 DEF vars
    <2>1. Start
      BY DEF Next, Postinst, Stop, Move, Copy, CopyNothing, Substitute, MyId, StartFails,
         Kill, Prerm, Unpack, Abort, Outside, SetList
    <2>2. step = "start" /\ myid' = myid
      BY <2>1 DEF Start, At
    <2>. QED
      BY <1>2, <2>2 DEF NumberInv
  <1>. QED
    BY <1>1, <1>2, NumberStep, Typed, PTL DEF Spec, IdIsPlace

=============================================================================
