----------------------- MODULE SolrCollections_proofs -----------------------
(***************************************************************************)
(* Proofs about the search collections of dataone-cn-solr: when all nodes  *)
(* have the newest version and none missed an update, what works is the    *)
(* newest configuration, for any number of nodes, collections and versions *)
(* and any interleaving of their postinsts; and a collection that nobody   *)
(* creates any more stays away.                                            *)
(***************************************************************************)
EXTENDS SolrCollections, TLAPS

\* Collection c is the one node n is at, or one it has not come to yet; only
\* one it has not come to yet.
From(n, c)  == \E i \in DOMAIN Collections : Collections[i] = c /\ at[n] <= i
After(n, c) == \E i \in DOMAIN Collections : Collections[i] = c /\ at[n] < i

\* What a run and its postinst's end have to do with one another.
RunInv ==
    \A n \in Node :
        /\ installed[n] => pc[n] = "idle"
        /\ pc[n] # "idle" => version[n] \in Version
        /\ pc[n] = "restart" => at[n] = 1

\* The run of n has come past collection c in the first half.
IsCopied(n, c) ==
    \/ pc[n] = "copy" /\ \E i \in DOMAIN Copied : Copied[i] = c /\ i < at[n]
    \/ pc[n] \in {"restart", "upconfig", "reload"}

\* A run uploads the config set it has copied.
DirsInv == \A n \in Node, c \in Collection : IsCopied(n, c) => dirs[n][c] = version[n]

\* A collection has its configuration in zookeeper.
ThereInv == \A c \in Collection : There(c) => conf[c] # None

\* Before n counts as up to date with c it updates c, because it runs again:
\* the directory is there, and it is no fresh installation.
Again(n, c) ==
    /\ dirs[n][c] # None
    /\ \/ version[n] # MaxVersion
       \/ pc[n] = "idle" /\ (~installed[n] \/ c \in missed[n])
       \/ pc[n] \in {"copy", "restart"} /\ c \notin fresh[n]
       \/ pc[n] \in {"upconfig", "reload"} /\ c \in missed[n]

\* n still has to upload c, or to reload it.
ToUpload(n, c) ==
    \/ Again(n, c)
    \/ /\ dirs[n][c] # None /\ c \notin fresh[n]
       /\ \/ pc[n] = "upconfig" /\ From(n, c)
          \/ pc[n] = "reload" /\ After(n, c)

ToReload(n, c) ==
    \/ Again(n, c)
    \/ /\ dirs[n][c] # None /\ c \notin fresh[n]
       /\ pc[n] \in {"upconfig", "reload"} /\ From(n, c)

\* Whoever has stored an old configuration has to come back, with the newest.
ConfInv ==
    \A c \in Collection :
        conf[c] \notin {None, MaxVersion} => \E n \in Node : ToUpload(n, c)

\* While a replica works with another configuration than the newest, somebody
\* has to reload it, at least.
LoadedInv ==
    \A c \in Collection :
        (There(c) /\ \E m \in Node : loaded[c][m] # MaxVersion) =>
            \E n \in Node : ToReload(n, c)

Inv == TypeOK /\ RunInv /\ DirsInv /\ ThereInv /\ ConfInv /\ LoadedInv

\* A step of node n.
Step(n) ==
    \/ \E v \in Version : Begin(n, v)
    \/ Copy(n) \/ Restart(n) \/ Create(n) \/ Upconfig(n) \/ Reload(n) \/ Die(n)

\* The lists are functions into the collections, and nothing is missing in the
\* first one.
LEMMA Lists ==
    /\ Len(Copied) \in Nat \ {0} /\ Len(Collections) \in Nat \ {0}
    /\ DOMAIN Copied = 1 .. Len(Copied) /\ DOMAIN Collections = 1 .. Len(Collections)
    /\ \A i \in DOMAIN Copied : Copied[i] \in Collection
    /\ \A i \in DOMAIN Collections : Collections[i] \in Collection
    /\ \A c \in Collection : \E i \in DOMAIN Copied : Copied[i] = c
    /\ Version \subseteq Nat \ {0} /\ MaxVersion \in Nat /\ None \notin Version
    /\ \A v \in Version : v <= MaxVersion
  <1>1. Copied \in Seq(Collection) /\ Collections \in Seq(Collection)
        /\ Copied # <<>> /\ Collections # <<>>
    BY Package
  <1>2. \A c \in Collection : \E i \in DOMAIN Copied : Copied[i] = c
    BY Package DEF Collection
  <1>. QED
    BY <1>1, <1>2, Package DEF Version, None

-----------------------------------------------------------------------------
(* Type correctness.                                                       *)

\* Going on to the next collection stays in the list.
LEMMA Advances ==
    ASSUME TypeOK, NEW n \in Node, pc[n] \in {"upconfig", "reload"}, Advance(n)
    PROVE  /\ pc' \in [Node -> {"idle", "copy", "restart", "upconfig", "reload"}]
           /\ at' \in [Node -> 1 .. Len(Copied) + Len(Collections)]
           /\ installed' \in [Node -> BOOLEAN]
           /\ \A m \in Node \ {n} :
                 pc'[m] = pc[m] /\ at'[m] = at[m] /\ installed'[m] = installed[m]
           /\ \/ /\ at[n] = Len(Collections) /\ at'[n] = 1
                 /\ pc'[n] = "idle" /\ installed'[n]
              \/ /\ at[n] < Len(Collections) /\ at'[n] = at[n] + 1
                 /\ pc'[n] = "upconfig" /\ installed'[n] = installed[n]
  <1>1. /\ pc \in [Node -> {"idle", "copy", "restart", "upconfig", "reload"}]
        /\ at \in [Node -> 1 .. Len(Copied) + Len(Collections)]
        /\ installed \in [Node -> BOOLEAN]
    BY DEF TypeOK
  <1>2. at[n] \in 1 .. Len(Collections)
    BY Lists DEF TypeOK
  <1>3. CASE at[n] = Len(Collections)
    <2>1. /\ pc' = [pc EXCEPT ![n] = "idle"]
          /\ at' = [at EXCEPT ![n] = 1]
          /\ installed' = [installed EXCEPT ![n] = TRUE]
      BY <1>3 DEF Advance
    <2>. QED
      BY <1>1, <1>3, <2>1, Lists
  <1>4. CASE at[n] # Len(Collections)
    <2>1. /\ pc' = [pc EXCEPT ![n] = "upconfig"]
          /\ at' = [at EXCEPT ![n] = @ + 1]
          /\ installed' = installed
      BY <1>4 DEF Advance
    <2>. QED
      BY <1>1, <1>2, <1>4, <2>1, Lists
  <1>. QED
    BY <1>3, <1>4

\* The collection a run is at is one.
LEMMA AtOne ==
    ASSUME TypeOK, NEW n \in Node
    PROVE  /\ pc[n] = "copy" => at[n] \in DOMAIN Copied /\ Copied[at[n]] \in Collection
           /\ pc[n] \in {"upconfig", "reload"} =>
                 at[n] \in DOMAIN Collections /\ Current(n) \in Collection
  BY Lists DEF TypeOK, Current

\* The parts of the type invariant: what the variables hold, and that the place
\* a run is at is one of the list it goes through.
Ranges ==
    /\ pc \in [Node -> {"idle", "copy", "restart", "upconfig", "reload"}]
    /\ at \in [Node -> 1 .. Len(Copied) + Len(Collections)]
    /\ version \in [Node -> Version \union {None}]
    /\ installed \in [Node -> BOOLEAN]
    /\ dirs \in [Node -> [Collection -> Version \union {None}]]
    /\ fresh \in [Node -> SUBSET Collection]
    /\ conf \in [Collection -> Version \union {None}]
    /\ loaded \in [Collection -> [Node -> Version \union {None}]]
    /\ missed \in [Node -> SUBSET Collection]
Places ==
    \A n \in Node :
        /\ pc[n] = "copy" => at[n] \in DOMAIN Copied
        /\ pc[n] \in {"restart", "upconfig", "reload"} => at[n] \in DOMAIN Collections

\* After an advance every run is at a place of its list.
LEMMA AdvancesPlaces ==
    ASSUME TypeOK, NEW n \in Node, pc[n] \in {"upconfig", "reload"}, Advance(n)
    PROVE  /\ pc' \in [Node -> {"idle", "copy", "restart", "upconfig", "reload"}]
           /\ at' \in [Node -> 1 .. Len(Copied) + Len(Collections)]
           /\ installed' \in [Node -> BOOLEAN]
           /\ Places'
  <1>1. Places /\ at[n] \in 1 .. Len(Collections)
    BY Lists DEF TypeOK, Places
  <1>. QED
    BY <1>1, Advances, Lists DEF Places

\* Every step keeps the types.
LEMMA TypeStep == TypeOK /\ [Next]_vars => TypeOK'
  <1> SUFFICES ASSUME TypeOK, [Next]_vars PROVE TypeOK'
    OBVIOUS
  <1>r. Ranges /\ Places
    BY DEF TypeOK, Ranges, Places
  <1>t. Ranges' /\ Places' => TypeOK'
    BY DEF TypeOK, Ranges, Places
  <1>d. /\ conf \in [Collection -> Version \union {None}]
        /\ dirs \in [Node -> [Collection -> Version \union {None}]]
    BY DEF TypeOK
  <1>m. missed \in [Node -> SUBSET Collection]
    BY DEF TypeOK
  <1>l. loaded \in [Collection -> [Node -> Version \union {None}]]
    BY DEF TypeOK
  <1> USE DEF vars, run, local, cloud
  <1>1. ASSUME NEW n \in Node, NEW v \in Version, Begin(n, v) PROVE Ranges' /\ Places'
    BY <1>1, <1>r, Lists DEF Begin, Places, Ranges
  <1>2. ASSUME NEW n \in Node, Copy(n) PROVE Ranges' /\ Places'
    <2>1. Copied[at[n]] \in Collection /\ at[n] \in 1 .. Len(Copied) /\ pc[n] = "copy"
      BY <1>2, <1>r, AtOne, Lists DEF Copy, Places
    <2>2. fresh' \in [Node -> SUBSET Collection]
      BY <1>2, <2>1, <1>r DEF Copy, Ranges
    <2>3. dirs' \in [Node -> [Collection -> Version \union {None}]]
      BY <1>2, <2>1, <1>r DEF Copy, Ranges
    <2>4. UNCHANGED <<version, installed, conf, loaded, missed>>
      BY <1>2 DEF Copy
    <2>5. CASE at[n] = Len(Copied)
      <3>1. pc' = [pc EXCEPT ![n] = "restart"] /\ at' = [at EXCEPT ![n] = 1]
        BY <1>2, <2>5 DEF Copy
      <3>. QED
        BY <1>r, <2>2, <2>3, <2>4, <3>1, Lists DEF Places, Ranges
    <2>6. CASE at[n] # Len(Copied)
      <3>1. pc' = pc /\ at' = [at EXCEPT ![n] = @ + 1]
        BY <1>2, <2>6 DEF Copy
      <3>. QED
        BY <1>r, <2>1, <2>2, <2>3, <2>4, <2>6, <3>1, Lists DEF Places, Ranges
    <2>. QED
      BY <2>5, <2>6
  <1>3. ASSUME NEW n \in Node, Restart(n) PROVE Ranges' /\ Places'
    <2>1. loaded' \in [Collection -> [Node -> Version \union {None}]]
      BY <1>3, <1>l, <1>d DEF Restart
    <2>2. pc[n] = "restart" /\ pc' = [pc EXCEPT ![n] = "upconfig"] /\ at[n] \in DOMAIN Collections
      BY <1>3, <1>r DEF Restart, Places
    <2>. QED
      BY <1>3, <1>r, <2>1, <2>2 DEF Restart, Places, Ranges
  <1>4. ASSUME NEW n \in Node, Create(n) PROVE Ranges' /\ Places'
    <2>1. pc[n] = "upconfig" /\ Current(n) \in Collection /\ Advance(n)
      BY <1>4, AtOne DEF Create
    <2>2. conf' \in [Collection -> Version \union {None}]
      BY <1>4, <2>1, <1>d DEF Create
    <2>3. loaded' \in [Collection -> [Node -> Version \union {None}]]
      <3> DEFINE c == Current(n)
                 stored == IF conf[c] = None THEN dirs[n][c] ELSE conf[c]
      <3>1. stored \in Version \union {None}
        BY <2>1, <1>d
      <3>2. \/ loaded' = [loaded EXCEPT ![c] = IF There(c) THEN @ ELSE [m \in Node |-> stored]]
            \/ loaded' = loaded
        BY <1>4 DEF Create
      <3>. QED
        BY <2>1, <3>1, <3>2, <1>l
    <2>4. UNCHANGED <<version, dirs, fresh, missed>>
      BY <1>4 DEF Create
    <2>. QED
      BY <1>r, <2>1, <2>2, <2>3, <2>4, AdvancesPlaces DEF Ranges
  <1>5. ASSUME NEW n \in Node, Upconfig(n) PROVE Ranges' /\ Places'
    <2>1. pc[n] = "upconfig" /\ Current(n) \in Collection
      BY <1>5, AtOne DEF Upconfig
    <2>2. conf' \in [Collection -> Version \union {None}] /\ missed' \in [Node -> SUBSET Collection]
      BY <1>5, <2>1, <1>d, <1>m DEF Upconfig, Miss
    <2>3. /\ pc' = [pc EXCEPT ![n] = "reload"]
          /\ UNCHANGED <<at, version, installed, dirs, fresh, loaded>>
      BY <1>5 DEF Upconfig
    <2>. QED
      BY <1>r, <2>1, <2>2, <2>3, Lists DEF Places, Ranges
  <1>6. ASSUME NEW n \in Node, Reload(n) PROVE Ranges' /\ Places'
    <2>1. pc[n] = "reload" /\ Current(n) \in Collection /\ Advance(n)
      BY <1>6, AtOne DEF Reload
    <2>2. missed' \in [Node -> SUBSET Collection]
      BY <1>6, <2>1, <1>m DEF Reload, Miss
    <2>3. loaded' \in [Collection -> [Node -> Version \union {None}]]
      <3>1. \/ loaded' = [loaded EXCEPT ![Current(n)] =
                            IF There(Current(n)) THEN [m \in Node |-> conf[Current(n)]] ELSE @]
            \/ loaded' = loaded
        BY <1>6 DEF Reload
      <3>. QED
        BY <2>1, <3>1, <1>l, <1>d
    <2>4. UNCHANGED <<version, dirs, fresh, conf>>
      BY <1>6 DEF Reload
    <2>. QED
      BY <1>r, <2>1, <2>2, <2>3, <2>4, AdvancesPlaces DEF Ranges
  <1>7. ASSUME NEW n \in Node, Die(n) PROVE Ranges' /\ Places'
    BY <1>7, <1>r, Lists DEF Die, Places, Ranges
  <1>8. CASE UNCHANGED vars
    <2>1. Ranges'
      BY <1>8, <1>r DEF Ranges
    <2>2. Places'
      BY <1>8, <1>r DEF Places
    <2>. QED
      BY <1>t, <2>1, <2>2
  <1> HIDE DEF vars, run, local, cloud
  <1>. QED
    BY <1>t, <1>1, <1>2, <1>3, <1>4, <1>5, <1>6, <1>7, <1>8 DEF Next

\* What the nodes and zookeeper keep has its type.
THEOREM Typed == Spec => []TypeOK
  <1>1. Init => TypeOK
    BY Lists DEF Init, TypeOK
  <1>. QED
    BY <1>1, TypeStep, PTL DEF Spec

-----------------------------------------------------------------------------
(* What a step of a node leaves alone.                                     *)

\* Every step is one of a node.
LEMMA Stepping == Next <=> \E n \in Node : Step(n)
  BY DEF Next, Step

\* What belongs to another node than the one that takes the step.
LEMMA Frame ==
    ASSUME TypeOK, NEW n \in Node, Step(n), NEW m \in Node, m # n
    PROVE  /\ pc'[m] = pc[m] /\ at'[m] = at[m] /\ version'[m] = version[m]
           /\ installed'[m] = installed[m] /\ dirs'[m] = dirs[m]
           /\ fresh'[m] = fresh[m] /\ missed'[m] = missed[m]
  <1>r. /\ pc \in [Node -> {"idle", "copy", "restart", "upconfig", "reload"}]
        /\ at \in [Node -> 1 .. Len(Copied) + Len(Collections)]
        /\ version \in [Node -> Version \union {None}]
        /\ installed \in [Node -> BOOLEAN]
        /\ dirs \in [Node -> [Collection -> Version \union {None}]]
        /\ fresh \in [Node -> SUBSET Collection]
        /\ missed \in [Node -> SUBSET Collection]
    BY DEF TypeOK
  <1> USE <1>r DEF local, cloud
  <1>1. ASSUME NEW v \in Version, Begin(n, v)
        PROVE  /\ pc'[m] = pc[m] /\ at'[m] = at[m] /\ version'[m] = version[m]
               /\ installed'[m] = installed[m] /\ dirs'[m] = dirs[m]
               /\ fresh'[m] = fresh[m] /\ missed'[m] = missed[m]
    BY <1>1 DEF Begin
  <1>2. CASE Copy(n)
    BY <1>2 DEF Copy
  <1>3. CASE Restart(n)
    BY <1>3 DEF Restart
  <1>4. CASE Create(n)
    <2>1. pc[n] = "upconfig" /\ Advance(n) /\ UNCHANGED <<version, dirs, fresh, missed>>
      BY <1>4 DEF Create
    <2>. QED
      BY <2>1, Advances
  <1>5. CASE Upconfig(n)
    BY <1>5 DEF Upconfig, Miss
  <1>6. CASE Reload(n)
    <2>1. pc[n] = "reload" /\ Advance(n) /\ UNCHANGED <<version, dirs, fresh>>
      BY <1>6 DEF Reload
    <2>2. missed'[m] = missed[m]
      BY <1>6 DEF Reload, Miss
    <2>. QED
      BY <2>1, <2>2, Advances
  <1>7. CASE Die(n)
    BY <1>7 DEF Die
  <1> HIDE <1>r DEF local, cloud
  <1>. QED
    BY <1>1, <1>2, <1>3, <1>4, <1>5, <1>6, <1>7 DEF Step

\* So whether another node comes back does not depend on the step.
LEMMA Others ==
    ASSUME TypeOK, NEW n \in Node, Step(n), NEW m \in Node, m # n, NEW c \in Collection
    PROVE  /\ ToUpload(m, c) => ToUpload(m, c)'
           /\ ToReload(m, c) => ToReload(m, c)'
  BY Frame DEF ToUpload, ToReload, Again, From, After

\* The frame of zookeeper: only these two steps of a node change a configuration,
\* and only these three what works.
LEMMA CloudFrame ==
    ASSUME NEW n \in Node, Step(n)
    PROVE  /\ Create(n) \/ Upconfig(n) \/ conf' = conf
           /\ Restart(n) \/ Create(n) \/ Reload(n) \/ loaded' = loaded
  BY DEF Step, Begin, Copy, Restart, Create, Upconfig, Reload, Die, cloud

-----------------------------------------------------------------------------
(* The invariants of the runs.                                             *)

\* Only the end of a run marks the package as installed, only its start changes
\* the version.
LEMMA RunStep == TypeOK /\ RunInv /\ [Next]_vars => RunInv'
  <1> SUFFICES ASSUME TypeOK, RunInv, [Next]_vars PROVE RunInv'
    OBVIOUS
  <1>1. ASSUME NEW n \in Node, Step(n) PROVE RunInv'
    <2>1. /\ installed'[n] => pc'[n] = "idle"
          /\ pc'[n] # "idle" => version'[n] \in Version
          /\ pc'[n] = "restart" => at'[n] = 1
      <3>r. /\ pc \in [Node -> {"idle", "copy", "restart", "upconfig", "reload"}]
            /\ version \in [Node -> Version \union {None}]
            /\ at \in [Node -> 1 .. Len(Copied) + Len(Collections)]
            /\ installed \in [Node -> BOOLEAN]
            /\ installed[n] => pc[n] = "idle"
            /\ pc[n] # "idle" => version[n] \in Version
        BY DEF TypeOK, RunInv
      <3> USE <3>r DEF local, cloud
      <3>1. ASSUME NEW v \in Version, Begin(n, v)
            PROVE  ~installed'[n] /\ version'[n] \in Version /\ pc'[n] = "copy"
        BY <3>1 DEF Begin
      <3>2. CASE Copy(n)
        BY <3>2 DEF Copy
      <3>3. CASE Restart(n)
        BY <3>3 DEF Restart
      <3>4. CASE Create(n)
        BY <3>4, Advances DEF Create
      <3>5. CASE Upconfig(n)
        BY <3>5 DEF Upconfig
      <3>6. CASE Reload(n)
        BY <3>6, Advances DEF Reload
      <3>7. CASE Die(n)
        BY <3>7 DEF Die
      <3>. QED
        BY <1>1, <3>1, <3>2, <3>3, <3>4, <3>5, <3>6, <3>7 DEF Step
    <2>. QED
      BY <1>1, <2>1, Frame DEF RunInv
  <1>2. CASE UNCHANGED vars
    BY <1>2 DEF RunInv, vars, run
  <1>. QED
    BY <1>1, <1>2, Stepping

\* What the first half has passed is the unpacked version's.
LEMMA DirsStep == TypeOK /\ DirsInv /\ [Next]_vars => DirsInv'
  <1> SUFFICES ASSUME TypeOK, DirsInv, [Next]_vars PROVE DirsInv'
    OBVIOUS
  <1>1. ASSUME NEW n \in Node, Step(n) PROVE DirsInv'
    <2>1. ASSUME NEW c \in Collection, IsCopied(n, c)' PROVE dirs'[n][c] = version'[n]
      <3>r. /\ pc \in [Node -> {"idle", "copy", "restart", "upconfig", "reload"}]
            /\ at \in [Node -> 1 .. Len(Copied) + Len(Collections)]
            /\ dirs \in [Node -> [Collection -> Version \union {None}]]
        BY DEF TypeOK
      <3>i. IsCopied(n, c) => dirs[n][c] = version[n]
        BY DEF DirsInv
      <3> USE <2>1 DEF IsCopied, local, cloud
      <3>1. ASSUME NEW v \in Version, Begin(n, v) PROVE dirs'[n][c] = version'[n]
        <4>1. pc'[n] = "copy" /\ at'[n] = 1
          BY <3>1, <3>r DEF Begin
        <4>. QED
          BY <4>1, Lists
      <3>2. CASE Copy(n)
        <4>1. /\ pc[n] = "copy" /\ at[n] \in DOMAIN Copied
              /\ dirs' = [dirs EXCEPT ![n][Copied[at[n]]] = version[n]] /\ version' = version
          BY <3>2, AtOne DEF Copy
        <4>2. c = Copied[at[n]] => dirs'[n][c] = version'[n]
          BY <4>1, <3>r
        <4>3. ASSUME c # Copied[at[n]] PROVE IsCopied(n, c)
          <5>1. PICK i \in DOMAIN Copied : Copied[i] = c
            BY Lists
          <5>2. CASE at[n] = Len(Copied)
            BY <4>1, <4>3, <5>1, <5>2, Lists
          <5>3. CASE at[n] # Len(Copied)
            <6>1. pc'[n] = "copy" /\ at'[n] = at[n] + 1
              BY <3>2, <3>r, <4>1, <5>3 DEF Copy
            <6>2. PICK j \in DOMAIN Copied : Copied[j] = c /\ j < at'[n]
              BY <6>1
            <6>3. j # at[n]
              BY <4>3, <6>2
            <6>. QED
              BY <4>1, <6>1, <6>2, <6>3, Lists
          <5>. QED
            BY <5>2, <5>3
        <4>4. c # Copied[at[n]] => dirs'[n][c] = dirs[n][c]
          BY <4>1, <3>r
        <4>. QED
          BY <4>1, <4>2, <4>3, <4>4, <3>i
      <3>3. CASE Restart(n)
        BY <3>3, <3>r, <3>i DEF Restart
      <3>4. CASE Create(n)
        BY <3>4, <3>i DEF Create
      <3>5. CASE Upconfig(n)
        BY <3>5, <3>i DEF Upconfig
      <3>6. CASE Reload(n)
        BY <3>6, <3>i DEF Reload
      <3>7. CASE Die(n)
        BY <3>7, <3>r DEF Die
      <3>. QED
        BY <1>1, <3>1, <3>2, <3>3, <3>4, <3>5, <3>6, <3>7 DEF Step
    <2>2. ASSUME NEW m \in Node, m # n, NEW c \in Collection, IsCopied(m, c)'
          PROVE  dirs'[m][c] = version'[m]
      <3>1. IsCopied(m, c)
        BY <1>1, <2>2, Frame DEF IsCopied
      <3>. QED
        BY <1>1, <2>2, <3>1, Frame DEF DirsInv
    <2>. QED
      BY <2>1, <2>2 DEF DirsInv
  <1>2. CASE UNCHANGED vars
    BY <1>2 DEF DirsInv, IsCopied, vars, run, local
  <1>. QED
    BY <1>1, <1>2, Stepping

-----------------------------------------------------------------------------
(* The configurations in zookeeper.                                        *)

\* What a step that stores a configuration stores.
LEMMA Stores ==
    ASSUME TypeOK, RunInv, DirsInv, NEW n \in Node, Step(n), NEW c \in Collection,
           conf'[c] # conf[c]
    PROVE  /\ conf'[c] = version[n] /\ version[n] \in Version
           /\ dirs'[n][c] = version[n] /\ version'[n] = version[n]
  <1>r. /\ conf \in [Collection -> Version \union {None}]
        /\ pc[n] \in {"upconfig", "reload"} => dirs[n][c] = version[n] /\ version[n] \in Version
    BY DEF TypeOK, DirsInv, IsCopied, RunInv
  <1>1. CASE Create(n)
    <2>1. pc[n] = "upconfig" /\ UNCHANGED <<version, dirs>>
      BY <1>1 DEF Create, local
    <2>2. conf' = conf \/ conf' = [conf EXCEPT ![Current(n)] =
                              IF conf[Current(n)] = None THEN dirs[n][Current(n)] ELSE @]
      BY <1>1 DEF Create, cloud
    <2>. QED
      BY <1>r, <2>1, <2>2
  <1>2. CASE Upconfig(n)
    <2>1. pc[n] = "upconfig" /\ UNCHANGED <<version, dirs>>
      BY <1>2 DEF Upconfig, local
    <2>2. conf' = conf \/ conf' = [conf EXCEPT ![Current(n)] = dirs[n][Current(n)]]
      BY <1>2 DEF Upconfig
    <2>. QED
      BY <1>r, <2>1, <2>2
  <1>. QED
    BY <1>1, <1>2, CloudFrame

\* A node that has to upload c still has to, unless it has just uploaded the
\* newest.
LEMMA Uploads ==
    ASSUME TypeOK, RunInv, DirsInv, NEW n \in Node, Step(n), NEW c \in Collection,
           ToUpload(n, c)
    PROVE  ToUpload(n, c)' \/ (Upconfig(n) /\ conf'[c] = MaxVersion)
  <1>r. /\ pc \in [Node -> {"idle", "copy", "restart", "upconfig", "reload"}]
        /\ at \in [Node -> 1 .. Len(Copied) + Len(Collections)]
        /\ version \in [Node -> Version \union {None}]
        /\ installed \in [Node -> BOOLEAN]
        /\ missed \in [Node -> SUBSET Collection]
        /\ fresh \in [Node -> SUBSET Collection]
    BY DEF TypeOK
  <1>d. dirs \in [Node -> [Collection -> Version \union {None}]]
    BY DEF TypeOK
  <1>i. /\ installed[n] => pc[n] = "idle"
        /\ pc[n] # "idle" => version[n] \in Version
        /\ pc[n] = "restart" => at[n] = 1
    BY DEF RunInv
  <1>n. dirs[n][c] # None
    BY DEF ToUpload, Again
  <1>1. ASSUME NEW v \in Version, Begin(n, v) PROVE ToUpload(n, c)'
    <2>1. pc'[n] = "copy" /\ fresh'[n] = {} /\ dirs' = dirs
      BY <1>1, <1>r DEF Begin
    <2>. QED
      BY <1>n, <2>1 DEF ToUpload, Again
  <1>2. ASSUME Copy(n) PROVE ToUpload(n, c)'
    <2>1. /\ pc[n] = "copy" /\ version' = version
          /\ dirs' = [dirs EXCEPT ![n][Copied[at[n]]] = version[n]]
      BY <1>2 DEF Copy
    <2>2. dirs'[n][c] # None
      BY <2>1, <1>d, <1>i, <1>n, Lists
    <2>3. version[n] = MaxVersion => c \notin fresh[n]
      BY <2>1 DEF ToUpload, Again
    <2>4. c \notin fresh[n] => c \notin fresh'[n]
      BY <1>2, <1>n, <1>r DEF Copy
    <2>5. pc'[n] \in {"copy", "restart"}
      BY <1>2, <1>r DEF Copy
    <2>. QED
      BY <2>1, <2>2, <2>3, <2>4, <2>5 DEF ToUpload, Again
  <1>3. ASSUME Restart(n) PROVE ToUpload(n, c)'
    <2>1. /\ pc[n] = "restart" /\ pc'[n] = "upconfig" /\ at'[n] = 1
          /\ UNCHANGED <<version, dirs, fresh>>
      BY <1>3, <1>r, <1>i DEF Restart, local
    <2>2. From(n, c)'
      BY <2>1, Lists DEF From, Collection
    <2>. QED
      BY <2>1, <2>2 DEF ToUpload, Again
  <1>4. ASSUME Create(n) PROVE ToUpload(n, c)'
    <2>1. /\ pc[n] = "upconfig" /\ Current(n) \in fresh[n] /\ Advance(n)
          /\ UNCHANGED <<version, dirs, fresh, missed>>
      BY <1>4 DEF Create, local
    <2>2. CASE Again(n, c)
      BY <2>1, <2>2, Advances DEF ToUpload, Again
    <2>3. CASE c \notin fresh[n] /\ From(n, c)
      <3>1. PICK i \in DOMAIN Collections : Collections[i] = c /\ at[n] <= i
        BY <2>3 DEF From
      <3>2. at[n] # i
        BY <2>1, <2>3, <3>1 DEF Current
      <3>3. pc'[n] = "upconfig" /\ at'[n] = at[n] + 1
        BY <2>1, <3>1, <3>2, <1>r, Advances, Lists
      <3>4. at'[n] <= i
        BY <3>1, <3>2, <3>3, <1>r, Lists
      <3>5. From(n, c)'
        BY <3>1, <3>4 DEF From
      <3>. QED
        BY <1>n, <2>1, <2>3, <3>3, <3>5 DEF ToUpload
    <2>. QED
      BY <2>1, <2>2, <2>3 DEF ToUpload
  <1>5. ASSUME Upconfig(n) PROVE ToUpload(n, c)' \/ conf'[c] = MaxVersion
    <2>1. /\ pc[n] = "upconfig" /\ pc'[n] = "reload"
          /\ UNCHANGED <<at, version, dirs, fresh>>
      BY <1>5, <1>r DEF Upconfig, local
    <2>2. missed[n] \subseteq missed'[n]
      BY <1>5, <1>r DEF Upconfig, Miss
    <2>3. CASE Again(n, c)
      BY <2>1, <2>2, <2>3 DEF ToUpload, Again
    <2>4. CASE c \notin fresh[n] /\ From(n, c)
      <3>1. PICK i \in DOMAIN Collections : Collections[i] = c /\ at[n] <= i
        BY <2>4 DEF From
      <3>2. CASE at[n] # i
        <4>1. After(n, c)'
          BY <2>1, <3>1, <3>2, <1>r, Lists DEF After
        <4>. QED
          BY <1>n, <2>1, <2>4, <4>1 DEF ToUpload
      <3>3. CASE at[n] = i
        <4>1. Current(n) = c
          BY <3>1, <3>3 DEF Current
        <4>2. CASE conf' = [conf EXCEPT ![c] = dirs[n][c]]
          <5>1. conf'[c] = version[n]
            BY <2>1, <4>2 DEF TypeOK, DirsInv, IsCopied
          <5>. QED
            BY <1>n, <2>1, <5>1 DEF ToUpload, Again
        <4>3. CASE Miss(n)
          <5>1. c \in missed'[n]
            BY <1>r, <4>1, <4>3 DEF Miss
          <5>. QED
            BY <1>n, <2>1, <5>1 DEF ToUpload, Again
        <4>. QED
          BY <1>5, <4>1, <4>2, <4>3 DEF Upconfig
      <3>. QED
        BY <3>2, <3>3
    <2>. QED
      BY <2>1, <2>3, <2>4 DEF ToUpload
  <1>6. ASSUME Reload(n) PROVE ToUpload(n, c)'
    <2>1. /\ pc[n] = "reload" /\ Advance(n)
          /\ UNCHANGED <<version, dirs, fresh>>
      BY <1>6 DEF Reload, local
    <2>2. missed[n] \subseteq missed'[n]
      BY <1>6, <1>r DEF Reload, Miss
    <2>3. CASE Again(n, c)
      BY <2>1, <2>2, <2>3, Advances DEF ToUpload, Again
    <2>4. CASE c \notin fresh[n] /\ After(n, c)
      <3>1. PICK i \in DOMAIN Collections : Collections[i] = c /\ at[n] < i
        BY <2>4 DEF After
      <3>2. pc'[n] = "upconfig" /\ at'[n] = at[n] + 1
        BY <2>1, <3>1, <1>r, Advances, Lists
      <3>3. at'[n] <= i
        BY <3>1, <3>2, <1>r, Lists
      <3>4. From(n, c)'
        BY <3>1, <3>3 DEF From
      <3>. QED
        BY <1>n, <2>1, <2>4, <3>2, <3>4 DEF ToUpload
    <2>. QED
      BY <2>1, <2>3, <2>4 DEF ToUpload
  <1>7. ASSUME Die(n) PROVE ToUpload(n, c)'
    <2>1. pc'[n] = "idle" /\ ~installed'[n] /\ dirs' = dirs
      BY <1>7, <1>r, <1>i DEF Die, local
    <2>. QED
      BY <1>n, <2>1 DEF ToUpload, Again
  <1>. QED
    BY <1>1, <1>2, <1>3, <1>4, <1>5, <1>6, <1>7 DEF Step

\* An old configuration is stored by a node with an old version.
LEMMA ConfStep == TypeOK /\ RunInv /\ DirsInv /\ ConfInv /\ [Next]_vars => ConfInv'
  <1> SUFFICES ASSUME TypeOK, RunInv, DirsInv, ConfInv, [Next]_vars PROVE ConfInv'
    OBVIOUS
  <1>1. ASSUME NEW n \in Node, Step(n) PROVE ConfInv'
    <2> SUFFICES ASSUME NEW c \in Collection, conf'[c] \notin {None, MaxVersion}
                 PROVE  \E m \in Node : ToUpload(m, c)'
      BY DEF ConfInv
    <2>1. CASE conf'[c] # conf[c]
      <3>1. /\ conf'[c] = version[n] /\ version[n] \in Version
            /\ dirs'[n][c] = version[n] /\ version'[n] = version[n]
        BY <1>1, <2>1, Stores
      <3>2. Again(n, c)'
        BY <3>1, Lists DEF Again
      <3>. QED
        BY <3>2 DEF ToUpload
    <2>2. CASE conf'[c] = conf[c]
      <3>1. PICK m \in Node : ToUpload(m, c)
        BY <2>2 DEF ConfInv
      <3>2. CASE m = n
        BY <1>1, <3>1, <3>2, Uploads
      <3>3. CASE m # n
        BY <1>1, <3>1, <3>3, Others
      <3>. QED
        BY <3>2, <3>3
    <2>. QED
      BY <2>1, <2>2
  <1>2. CASE UNCHANGED vars
    BY <1>2 DEF ConfInv, ToUpload, Again, From, After, vars, run, local, cloud
  <1>. QED
    BY <1>1, <1>2, Stepping

-----------------------------------------------------------------------------
(* What the replicas work with.                                            *)

\* What changes in a replica is that it takes the configuration zookeeper has; a
\* collection that comes to be has one.
LEMMA Loads ==
    ASSUME TypeOK, RunInv, DirsInv, ThereInv, NEW n \in Node, Step(n), NEW c \in Collection
    PROVE  /\ \A m \in Node : loaded'[c][m] \in {loaded[c][m], conf'[c]}
           /\ There(c)' /\ ~There(c) => \A m \in Node : loaded'[c][m] = conf'[c]
           /\ There(c)' => conf'[c] # None
  <1>r. /\ conf \in [Collection -> Version \union {None}]
        /\ loaded \in [Collection -> [Node -> Version \union {None}]]
    BY DEF TypeOK
  <1>n. conf[c] # None => conf'[c] # None
    BY Stores, Lists
  <1>t. There(c) => conf[c] # None
    BY DEF ThereInv
  <1>1. CASE loaded' = loaded
    BY <1>1, <1>n, <1>t DEF There
  <1>2. CASE Restart(n)
    <2>1. /\ conf' = conf
          /\ loaded' = [d \in Collection |->
                           IF There(d) THEN [loaded[d] EXCEPT ![n] = conf[d]] ELSE loaded[d]]
      BY <1>2 DEF Restart
    <2>2. CASE There(c)
      <3>1. loaded'[c] = [loaded[c] EXCEPT ![n] = conf[c]]
        BY <2>1, <2>2
      <3>. QED
        BY <1>r, <1>t, <2>1, <2>2, <3>1
    <2>3. CASE ~There(c)
      <3>1. loaded'[c] = loaded[c]
        BY <2>1, <2>3
      <3>. QED
        BY <2>3, <3>1 DEF There
    <2>. QED
      BY <2>2, <2>3
  <1>3. CASE Create(n)
    <2> DEFINE e == Current(n)
               stored == IF conf[e] = None THEN dirs[n][e] ELSE conf[e]
    <2>1. e \in Collection /\ pc[n] = "upconfig"
      BY <1>3, AtOne DEF Create
    <2>2. stored # None
      BY <2>1, Lists DEF DirsInv, IsCopied, RunInv
    <2>3. \/ loaded' = loaded
          \/ /\ conf' = [conf EXCEPT ![e] = stored]
             /\ loaded' = [loaded EXCEPT ![e] = IF There(e) THEN @ ELSE [m \in Node |-> stored]]
      BY <1>3 DEF Create, cloud
    <2> HIDE DEF e, stored
    <2>4. CASE loaded' # loaded /\ e = c /\ ~There(c)
      <3>1. conf'[c] = stored /\ loaded'[c] = [m \in Node |-> stored]
        BY <1>r, <2>3, <2>4
      <3>. QED
        BY <2>2, <3>1
    <2>5. CASE loaded' # loaded /\ ~(e = c /\ ~There(c))
      <3>1. loaded'[c] = loaded[c]
        BY <1>r, <2>3, <2>5
      <3>. QED
        BY <1>n, <1>t, <3>1 DEF There
    <2>. QED
      BY <1>1, <2>4, <2>5
  <1>4. CASE Reload(n)
    <2>1. conf' = conf /\
          \/ loaded' = loaded
          \/ loaded' = [loaded EXCEPT ![Current(n)] =
                           IF There(Current(n)) THEN [m \in Node |-> conf[Current(n)]] ELSE @]
      BY <1>4 DEF Reload
    <2>2. CASE loaded' # loaded /\ Current(n) = c /\ There(c)
      <3>1. loaded'[c] = [m \in Node |-> conf'[c]]
        BY <1>r, <2>1, <2>2
      <3>. QED
        BY <1>t, <2>1, <2>2, <3>1
    <2>3. CASE loaded' # loaded /\ ~(Current(n) = c /\ There(c))
      <3>1. loaded'[c] = loaded[c]
        BY <1>r, <2>1, <2>3
      <3>. QED
        BY <1>n, <1>t, <3>1 DEF There
    <2>. QED
      BY <1>1, <2>2, <2>3
  <1>. QED
    BY <1>1, <1>2, <1>3, <1>4, CloudFrame

\* A collection has a configuration before it works.
LEMMA ThereStep == TypeOK /\ RunInv /\ DirsInv /\ ThereInv /\ [Next]_vars => ThereInv'
  <1> SUFFICES ASSUME TypeOK, RunInv, DirsInv, ThereInv, [Next]_vars PROVE ThereInv'
    OBVIOUS
  <1>1. ASSUME NEW n \in Node, Step(n) PROVE ThereInv'
    BY <1>1, Loads DEF ThereInv
  <1>2. CASE UNCHANGED vars
    BY <1>2 DEF ThereInv, There, vars, cloud
  <1>. QED
    BY <1>1, <1>2, Stepping

\* A node that has to reload c still has to, unless it has just done it.
LEMMA Reloads ==
    ASSUME TypeOK, TypeOK', RunInv, DirsInv, NEW n \in Node, Step(n), NEW c \in Collection,
           ToReload(n, c)
    PROVE  \/ ToReload(n, c)'
           \/ There(c)' => \A m \in Node : loaded'[c][m] = conf'[c]
  <1>r. /\ pc \in [Node -> {"idle", "copy", "restart", "upconfig", "reload"}]
        /\ missed \in [Node -> SUBSET Collection]
        /\ loaded \in [Collection -> [Node -> Version \union {None}]]
        /\ installed \in [Node -> BOOLEAN]
    BY DEF TypeOK
  <1>i. pc[n] # "idle" => ~installed[n]
    BY <1>r DEF RunInv
  <1>1. CASE Upconfig(n)
    <2>1. /\ pc[n] = "upconfig" /\ pc'[n] = "reload"
          /\ UNCHANGED <<at, version, dirs, fresh>>
      BY <1>1, <1>r DEF Upconfig, local
    <2>2. missed[n] \subseteq missed'[n]
      BY <1>1, <1>r DEF Upconfig, Miss
    <2>. QED
      BY <2>1, <2>2 DEF ToReload, Again, From
  <1>2. CASE ~Upconfig(n) /\ ToUpload(n, c)
    <2>1. ToUpload(n, c)'
      BY <1>2, Uploads
    <2>2. After(n, c)' => From(n, c)'
      BY Lists DEF After, From, TypeOK
    <2>. QED
      BY <2>1, <2>2 DEF ToUpload, ToReload
  <1>3. CASE ~Upconfig(n) /\ ~ToUpload(n, c)
    <2>1. pc[n] = "reload" /\ From(n, c) /\ ~After(n, c) /\ dirs[n][c] # None
      BY <1>3 DEF ToUpload, ToReload
    <2>2. Current(n) = c
      <3>1. PICK i \in DOMAIN Collections : Collections[i] = c /\ at[n] <= i
        BY <2>1 DEF From
      <3>2. at[n] = i
        BY <2>1, <3>1, Lists DEF After, TypeOK
      <3>. QED
        BY <3>1, <3>2 DEF Current
    <2>3. CASE Reload(n)
      <3>1. Advance(n) /\ UNCHANGED <<version, dirs, fresh, conf>>
        BY <2>3 DEF Reload, local
      <3>2. CASE Miss(n)
        <4>1. c \in missed'[n]
          BY <1>r, <2>2, <3>2 DEF Miss
        <4>. QED
          BY <2>1, <3>1, <4>1, Advances DEF ToReload, Again
      <3>3. CASE loaded' = [loaded EXCEPT ![c] =
                               IF There(c) THEN [m \in Node |-> conf[c]] ELSE @]
        <4>1. CASE There(c)
          <5>1. loaded'[c] = [m \in Node |-> conf'[c]]
            BY <1>r, <3>1, <3>3, <4>1
          <5>. QED
            BY <5>1
        <4>2. CASE ~There(c)
          <5>1. loaded'[c] = loaded[c]
            BY <1>r, <3>3, <4>2
          <5>. QED
            BY <4>2, <5>1 DEF There
        <4>. QED
          BY <4>1, <4>2
      <3>. QED
        BY <2>2, <2>3, <3>2, <3>3 DEF Reload
    <2>4. CASE Die(n)
      <3>1. pc'[n] = "idle" /\ ~installed'[n] /\ dirs' = dirs
        BY <2>1, <2>4, <1>r, <1>i DEF Die, local
      <3>. QED
        BY <2>1, <3>1 DEF ToReload, Again
    <2>5. \/ Reload(n) \/ Die(n)
      BY <1>3, <2>1 DEF Step, Begin, Copy, Restart, Create
    <2>. QED
      BY <2>3, <2>4, <2>5
  <1>. QED
    BY <1>1, <1>2, <1>3

\* A replica that works with an old configuration will be reloaded.
LEMMA LoadedStep ==
    TypeOK /\ RunInv /\ DirsInv /\ ThereInv /\ LoadedInv /\ [Next]_vars
        /\ TypeOK' /\ ConfInv' => LoadedInv'
  <1> SUFFICES ASSUME TypeOK, RunInv, DirsInv, ThereInv, LoadedInv, [Next]_vars,
                      TypeOK', ConfInv'
               PROVE  LoadedInv'
    OBVIOUS
  <1>1. ASSUME NEW n \in Node, Step(n) PROVE LoadedInv'
    <2> SUFFICES ASSUME NEW c \in Collection, There(c)',
                        NEW m \in Node, loaded'[c][m] # MaxVersion
                 PROVE  \E k \in Node : ToReload(k, c)'
      BY DEF LoadedInv
    <2>0. /\ loaded'[c][m] \in {loaded[c][m], conf'[c]}
          /\ ~There(c) => loaded'[c][m] = conf'[c]
          /\ conf'[c] # None
      BY <1>1, Loads
    <2>1. CASE loaded'[c][m] = conf'[c]
      <3>1. PICK k \in Node : ToUpload(k, c)'
        BY <2>0, <2>1 DEF ConfInv
      <3>2. After(k, c)' => From(k, c)'
        BY Lists DEF After, From, TypeOK
      <3>. QED
        BY <3>1, <3>2 DEF ToUpload, ToReload
    <2>2. CASE loaded'[c][m] # conf'[c]
      <3>1. There(c) /\ loaded[c][m] # MaxVersion
        BY <2>0, <2>2
      <3>2. PICK k \in Node : ToReload(k, c)
        BY <3>1 DEF LoadedInv
      <3>3. CASE k = n
        BY <1>1, <2>2, <3>2, <3>3, Reloads
      <3>4. CASE k # n
        BY <1>1, <3>2, <3>4, Others
      <3>. QED
        BY <3>3, <3>4
    <2>. QED
      BY <2>1, <2>2
  <1>2. CASE UNCHANGED vars
    BY <1>2 DEF LoadedInv, There, ToReload, Again, From, vars, run, local, cloud
  <1>. QED
    BY <1>1, <1>2, Stepping

-----------------------------------------------------------------------------
(* The properties.                                                         *)

\* Every state of the specification satisfies the invariant.
LEMMA Invariant == Spec => []Inv
  <1>1. Init => Inv
    <2> SUFFICES ASSUME Init PROVE Inv
      OBVIOUS
    <2>1. TypeOK
      BY Lists DEF Init, TypeOK
    <2>2. RunInv /\ DirsInv
      BY DEF Init, RunInv, DirsInv, IsCopied
    <2>3. ThereInv /\ LoadedInv
      BY DEF Init, ThereInv, LoadedInv, There
    <2>4. ConfInv
      BY DEF Init, ConfInv
    <2>. QED
      BY <2>1, <2>2, <2>3, <2>4 DEF Inv
  <1>2. Inv /\ [Next]_vars => Inv'
    BY TypeStep, RunStep, DirsStep, ThereStep, ConfStep, LoadedStep DEF Inv
  <1>. QED
    BY <1>1, <1>2, PTL DEF Spec

\* Once the newest version is installed everywhere and nobody has missed an
\* update, all replicas work with the newest configuration (postinst 198 to 241),
\* whatever the other nodes' runs did in between.
THEOREM Newer == Spec => []ConfigCurrent
  <1>1. Inv => ConfigCurrent
    <2> SUFFICES ASSUME Inv, NEW c \in Collection, There(c),
                        \A n \in Node : Newest(n) /\ c \notin missed[n]
                 PROVE  conf[c] = MaxVersion /\ \A n \in Node : loaded[c][n] = MaxVersion
      BY DEF ConfigCurrent, WorksWithNewest
    <2>1. \A n \in Node : ~Again(n, c) /\ pc[n] = "idle"
      BY DEF Again, Newest, Inv, RunInv
    <2>2. \A n \in Node : ~ToUpload(n, c) /\ ~ToReload(n, c)
      BY <2>1 DEF ToUpload, ToReload
    <2>. QED
      BY <2>2 DEF Inv, ThereInv, ConfInv, LoadedInv
  <1>. QED
    BY <1>1, Invariant, PTL

\* A collection that is not there when all nodes have its directory, and that no
\* run counts as fresh, is never created (62 and 210).
THEOREM Abandon == Spec => NoWayOut
  <1>1. Inv /\ [Next]_vars => [\A c \in Collection : Abandoned(c) => Abandoned(c)']_vars
    <2> SUFFICES ASSUME Inv, Next, NEW c \in Collection, Abandoned(c)
                 PROVE  Abandoned(c)'
      BY Zenon
    <2>1. PICK n \in Node : Step(n)
      BY Stepping
    <2>2. pc[n] = "upconfig" => c \notin fresh[n]
      BY DEF Abandoned
    <2>r. /\ loaded \in [Collection -> [Node -> Version \union {None}]]
          /\ fresh \in [Node -> SUBSET Collection]
          /\ dirs \in [Node -> [Collection -> Version \union {None}]]
          /\ pc \in [Node -> {"idle", "copy", "restart", "upconfig", "reload"}]
          /\ pc[n] # "idle" => version[n] \in Version
      BY DEF Inv, TypeOK, RunInv
    <2>3. ~There(c)'
      <3>1. ~There(c)
        BY DEF Abandoned
      <3>2. loaded'[c] = loaded[c]
        <4>1. CASE Restart(n)
          BY <2>r, <3>1, <4>1 DEF Restart
        <4>2. CASE Create(n)
          BY <2>2, <2>r, <4>2 DEF Create, cloud
        <4>3. CASE Reload(n)
          BY <2>r, <3>1, <4>3 DEF Reload
        <4>. QED
          BY <2>1, <4>1, <4>2, <4>3, CloudFrame
      <3>. QED
        BY <3>1, <3>2 DEF There
    <2>4. dirs'[n][c] # None /\ (pc'[n] = "idle" \/ c \notin fresh'[n])
      <3>1. dirs[n][c] # None /\ (pc[n] = "idle" \/ c \notin fresh[n])
        BY DEF Abandoned
      <3>2. ASSUME NEW v \in Version, Begin(n, v)
            PROVE  dirs'[n][c] # None /\ c \notin fresh'[n]
        BY <2>r, <3>1, <3>2 DEF Begin
      <3>3. CASE Copy(n)
        <4>1. dirs'[n][c] # None
          BY <2>r, <3>1, <3>3, Lists DEF Copy
        <4>2. c \notin fresh'[n]
          BY <2>r, <3>1, <3>3 DEF Copy
        <4>. QED
          BY <4>1, <4>2
      <3>4. CASE ~Copy(n) /\ ~\E v \in Version : Begin(n, v)
        <4>1. pc[n] # "idle" /\ UNCHANGED <<dirs, fresh>>
          BY <2>1, <3>4 DEF Step, Restart, Create, Upconfig, Reload, Die, local
        <4>. QED
          BY <3>1, <4>1
      <3>. QED
        BY <3>2, <3>3, <3>4
    <2>5. \A m \in Node : dirs'[m][c] # None /\ (pc'[m] = "idle" \/ c \notin fresh'[m])
      BY <2>1, <2>4, Frame DEF Abandoned, Inv
    <2>. QED
      BY <2>3, <2>5 DEF Abandoned
  <1>. QED
    BY <1>1, Invariant, PTL DEF NoWayOut, Spec

=============================================================================
