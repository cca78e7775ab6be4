-------------------------- MODULE Packages_proofs --------------------------
(***************************************************************************)
(* Proofs about the packages of a node.  First what the scripts consist    *)
(* of, then what holds of the rest of a script that runs (Shape), and on   *)
(* that one inductive invariant for each property: Gut, Deployed, Pass     *)
(* and, about a run of dpkg as a whole, Run.                               *)
(***************************************************************************)
EXTENDS Packages, TLAPS

\* The step x is still to come.
In(x, s) == \E i \in 1 .. Len(s) : s[i] = x

\* Two of the steps come once at most.
Once(s) == \A i, j \in 1 .. Len(s) : s[i] = s[j] /\ s[i] \in {"list", "password"} => i = j

\* What is stopped is started later, and the password is not the last step.
Restarts(s) == \A i \in 1 .. Len(s) :
    /\ s[i] = "stopTomcat" => \E j \in i + 1 .. Len(s) : s[j] = "startTomcat"
    /\ s[i] = "stopApache" => \E j \in i + 1 .. Len(s) : s[j] = "startApache"
    /\ s[i] = "password" => i < Len(s)

\* The kinds of script that run prerm.
Prerms == {"prerm", "reprerm"}

\* What s, the rest of a script of package p, may consist of.
Proper(p, kind, s) ==
    /\ s \in Seq(Name)
    /\ p \in Web => Once(s) /\ Restarts(s)
    /\ In("delete", s) => p \in Web /\ kind \in Prerms
    /\ \A x \in {"deploy", "list", "password"} : In(x, s) => p \in Web /\ kind \notin Prerms
    /\ In("password", s) => p = "portal"
    /\ In("answers", s) => p = "oscore"

\* A script's rest, and the status dpkg has recorded while it runs.
Shape ==
    /\ script = Idle => todo = <<>>
    /\ script # Idle =>
          /\ Proper(script[1], script[2], todo)
          /\ status[script[1]] = IF script[2] \in {"reprerm", "reconfigure"} THEN "installed" ELSE "failed"

-----------------------------------------------------------------------------
(* Lemmas about the scripts.                                               *)

\* An empty script has no steps.
LEMMA Nothing == \A x : ~In(x, <<>>)
  BY DEF In

\* A step is the first one or one of the rest.
LEMMA TailIn ==
    ASSUME NEW s \in Seq(Name), s # <<>>, NEW x
    PROVE  In(x, s) <=> Head(s) = x \/ In(x, Tail(s))
  <1>1. /\ Len(s) \in Nat /\ Len(s) > 0 /\ Head(s) = s[1]
        /\ Len(Tail(s)) = Len(s) - 1 /\ \A i \in 1 .. Len(s) - 1 : Tail(s)[i] = s[i + 1]
    OBVIOUS
  <1>2. ASSUME In(x, s) PROVE Head(s) = x \/ In(x, Tail(s))
    <2>1. PICK i \in 1 .. Len(s) : s[i] = x
      BY <1>2 DEF In
    <2>2. CASE i # 1
      <3>1. i - 1 \in 1 .. Len(Tail(s)) /\ Tail(s)[i - 1] = x
        BY <1>1, <2>1, <2>2
      <3>. QED
        BY <3>1 DEF In
    <2>. QED
      BY <1>1, <2>1, <2>2
  <1>3. ASSUME In(x, Tail(s)) PROVE In(x, s)
    <2>1. PICK i \in 1 .. Len(Tail(s)) : Tail(s)[i] = x
      BY <1>3 DEF In
    <2>2. i + 1 \in 1 .. Len(s) /\ s[i + 1] = x
      BY <1>1, <2>1
    <2>. QED
      BY <2>2 DEF In
  <1>4. ASSUME Head(s) = x PROVE In(x, s)
    BY <1>1, <1>4 DEF In
  <1>. QED
    BY <1>2, <1>3, <1>4

\* os-core's steps when it is installed or updated.
LEMMA UpdateScript ==
  LET s == Configure["oscore"]
  IN  /\ s \in Seq(Name)
      /\ \A x : In(x, s) <=> x \in {"answers", "stopApache", "startApache", "stopTomcat"}
  <1> DEFINE s == Configure["oscore"]
  <1>1. s \in Seq(Name) /\ Len(s) = 4
    BY DEF Configure, Name
  <1>2. s[1] = "answers" /\ s[2] = "stopApache" /\ s[3] = "startApache" /\ s[4] = "stopTomcat"
    BY DEF Configure
  <1> HIDE DEF s
  <1>3. \A x : In(x, s) <=> x \in {"answers", "stopApache", "startApache", "stopTomcat"}
    BY <1>1, <1>2 DEF In
  <1>. QED
    BY <1>1, <1>3 DEF s

\* os-core's steps when it is reconfigured.
LEMMA ReconfScript ==
  LET s == OsCoreReconfigured
  IN  /\ s \in Seq(Name)
      /\ \A x : In(x, s) <=> x \in {"answers", "stopApache", "startApache", "stopTomcat", "startTomcat"}
  <1> DEFINE s == OsCoreReconfigured
  <1>1. s \in Seq(Name) /\ Len(s) = 5
    BY DEF OsCoreReconfigured, Name
  <1>2. s[1] = "answers" /\ s[2] = "stopApache" /\ s[3] = "startApache" /\ s[4] = "stopTomcat" /\ s[5] = "startTomcat"
    BY DEF OsCoreReconfigured
  <1> HIDE DEF s
  <1>3. \A x : In(x, s) <=> x \in {"answers", "stopApache", "startApache", "stopTomcat", "startTomcat"}
    BY <1>1, <1>2 DEF In
  <1>. QED
    BY <1>1, <1>3 DEF s

\* The steps of prerm.
LEMMA PrermScript ==
  LET s == Prerm
  IN  /\ s \in Seq(Name)
      /\ \A x : In(x, s) <=> x \in {"stopTomcat", "stopApache", "delete", "startTomcat", "startApache"}
      /\ Once(s) /\ Restarts(s)
  <1> DEFINE s == Prerm
  <1>1. s \in Seq(Name) /\ Len(s) = 5
    BY DEF Prerm, Name
  <1>2. s[1] = "stopTomcat" /\ s[2] = "stopApache" /\ s[3] = "delete" /\ s[4] = "startTomcat" /\ s[5] = "startApache"
    BY DEF Prerm
  <1> HIDE DEF s
  <1>3. \A x : In(x, s) <=> x \in {"stopTomcat", "stopApache", "delete", "startTomcat", "startApache"}
    BY <1>1, <1>2 DEF In
  <1>4. Once(s) /\ Restarts(s)
    BY <1>1, <1>2 DEF Once, Restarts
  <1>. QED
    BY <1>1, <1>3, <1>4 DEF s

\* The steps of metacat's postinst.
LEMMA MetacatScript ==
  LET s == Configure["metacat"]
  IN  /\ s \in Seq(Name)
      /\ \A x : In(x, s) <=> x \in {"list", "stopTomcat", "deploy", "stopApache", "startApache", "startTomcat"}
      /\ Once(s) /\ Restarts(s)
  <1> DEFINE s == Configure["metacat"]
  <1>1. s \in Seq(Name) /\ Len(s) = 6
    BY DEF Configure, Name
  <1>2. s[1] = "list" /\ s[2] = "stopTomcat" /\ s[3] = "deploy" /\ s[4] = "stopApache" /\ s[5] = "startApache" /\ s[6] = "startTomcat"
    BY DEF Configure
  <1> HIDE DEF s
  <1>3. \A x : In(x, s) <=> x \in {"list", "stopTomcat", "deploy", "stopApache", "startApache", "startTomcat"}
    BY <1>1, <1>2 DEF In
  <1>4. Once(s) /\ Restarts(s)
    BY <1>1, <1>2 DEF Once, Restarts
  <1>. QED
    BY <1>1, <1>3, <1>4 DEF s

\* The steps of the portal's postinst.
LEMMA PortalScript ==
  LET s == Configure["portal"]
  IN  /\ s \in Seq(Name)
      /\ \A x : In(x, s) <=> x \in {"list", "stopTomcat", "deploy", "password", "stopApache", "startApache", "startTomcat"}
      /\ Once(s) /\ Restarts(s)
  <1> DEFINE s == Configure["portal"]
  <1>1. s \in Seq(Name) /\ Len(s) = 7
    BY DEF Configure, Name
  <1>2. s[1] = "list" /\ s[2] = "stopTomcat" /\ s[3] = "deploy" /\ s[4] = "password" /\ s[5] = "stopApache" /\ s[6] = "startApache" /\ s[7] = "startTomcat"
    BY DEF Configure
  <1> HIDE DEF s
  <1>3. \A x : In(x, s) <=> x \in {"list", "stopTomcat", "deploy", "password", "stopApache", "startApache", "startTomcat"}
    BY <1>1, <1>2 DEF In
  <1>4. Once(s) /\ Restarts(s)
    BY <1>1, <1>2 DEF Once, Restarts
  <1>. QED
    BY <1>1, <1>3, <1>4 DEF s

\* The steps of the rest service's postinst.
LEMMA RestScript ==
  LET s == Configure["rest"]
  IN  /\ s \in Seq(Name)
      /\ \A x : In(x, s) <=> x \in {"stopTomcat", "deploy", "list", "stopApache", "startApache", "startTomcat"}
      /\ Once(s) /\ Restarts(s)
  <1> DEFINE s == Configure["rest"]
  <1>1. s \in Seq(Name) /\ Len(s) = 6
    BY DEF Configure, Name
  <1>2. s[1] = "stopTomcat" /\ s[2] = "deploy" /\ s[3] = "list" /\ s[4] = "stopApache" /\ s[5] = "startApache" /\ s[6] = "startTomcat"
    BY DEF Configure
  <1> HIDE DEF s
  <1>3. \A x : In(x, s) <=> x \in {"stopTomcat", "deploy", "list", "stopApache", "startApache", "startTomcat"}
    BY <1>1, <1>2 DEF In
  <1>4. Once(s) /\ Restarts(s)
    BY <1>1, <1>2 DEF Once, Restarts
  <1>. QED
    BY <1>1, <1>3, <1>4 DEF s

\* The script of a package that dpkg or dpkg-reconfigure starts is proper.
LEMMA Scripts ==
    ASSUME NEW p \in Package, NEW kind \in Kind
    PROVE  /\ Proper(p, kind, Steps(p, kind))
           /\ p \in Web /\ kind \in Prerms => In("delete", Steps(p, kind))
           /\ p \in Web /\ kind = "configure" =>
                 \A x \in {"deploy", "list", "startTomcat", "startApache"} : In(x, Steps(p, kind))
  <1>1. CASE Steps(p, kind) = <<>>
    <2>1. Proper(p, kind, <<>>)
      BY Nothing DEF Proper, Once, Restarts, Name
    <2>2. ~(p \in Web /\ (kind \in Prerms \/ kind = "configure"))
      <3>1. ASSUME p \in Web, kind \in Prerms PROVE FALSE
        <4>1. Prerm = <<>> /\ In("delete", Prerm)
          BY <1>1, <3>1, PrermScript DEF Steps, Prerms, Web
        <4>. QED
          BY <4>1, Nothing
      <3>2. ASSUME p \in Web, kind = "configure" PROVE FALSE
        <4>1. Configure[p] = <<>>
          BY <1>1, <3>2 DEF Steps, Web
        <4>2. In("deploy", Configure[p])
          BY <3>2, MetacatScript, PortalScript, RestScript DEF Web
        <4>. QED
          BY <4>1, <4>2, Nothing
      <3>. QED
        BY <3>1, <3>2
    <2>. QED
      BY <1>1, <2>1, <2>2
  <1>2. CASE kind \in Prerms /\ Steps(p, kind) = Prerm /\ p \in Web
    <2>. QED
      BY <1>2, PrermScript DEF Proper, Prerms
  <1>3. CASE p \in Web /\ kind \notin Prerms /\ Steps(p, kind) = Configure[p]
    <2>1. CASE p = "metacat"
      BY <1>3, <2>1, MetacatScript DEF Proper
    <2>2. CASE p = "portal"
      BY <1>3, <2>2, PortalScript DEF Proper
    <2>3. CASE p = "rest"
      BY <1>3, <2>3, RestScript DEF Proper
    <2>. QED
      BY <1>3, <2>1, <2>2, <2>3 DEF Web
  <1>4. CASE p = "oscore" /\ kind \notin Prerms /\ Steps(p, kind) = OsCoreReconfigured
    BY <1>4, ReconfScript DEF Proper, Web
  <1>5. CASE p = "oscore" /\ kind \notin Prerms /\ Steps(p, kind) = Configure["oscore"]
    BY <1>5, UpdateScript DEF Proper, Web
  <1>. QED
    BY <1>1, <1>2, <1>3, <1>4, <1>5 DEF Steps, Prerms, Package, Web

\* The rest of a proper script is proper, and what its first step tells of it.
LEMMA ProperTail ==
    ASSUME NEW p, NEW kind, NEW s, Proper(p, kind, s), s # <<>>
    PROVE  /\ Proper(p, kind, Tail(s))
           /\ \A x : In(x, s) <=> Head(s) = x \/ In(x, Tail(s))
           /\ p \in Web =>
                 /\ Head(s) \in {"list", "password"} => ~In(Head(s), Tail(s))
                 /\ Head(s) = "stopTomcat" => In("startTomcat", Tail(s))
                 /\ Head(s) = "stopApache" => In("startApache", Tail(s))
                 /\ Head(s) = "password" => Tail(s) # <<>>
  <1> DEFINE t == Tail(s)
  <1>1. /\ s \in Seq(Name) /\ t \in Seq(Name)
        /\ Len(s) \in Nat /\ Len(s) > 0 /\ Head(s) = s[1]
        /\ Len(t) = Len(s) - 1 /\ \A i \in 1 .. Len(t) : i + 1 \in 1 .. Len(s) /\ t[i] = s[i + 1]
    BY DEF Proper
  <1>2. \A x : In(x, s) <=> Head(s) = x \/ In(x, t)
    BY <1>1, TailIn
  <1> HIDE DEF t
  <1>3. ASSUME p \in Web PROVE Once(t)
    <2>1. Once(s)
      BY <1>3 DEF Proper
    <2>2. SUFFICES ASSUME NEW i \in 1 .. Len(t), NEW j \in 1 .. Len(t),
                          t[i] = t[j], t[i] \in {"list", "password"}
                   PROVE  i = j
      BY DEF Once
    <2>3. i + 1 = j + 1
      BY <1>1, <2>1, <2>2 DEF Once
    <2>. QED
      BY <2>3, <1>1
  <1>4. ASSUME NEW i \in 1 .. Len(s), NEW y, \E j \in i + 1 .. Len(s) : s[j] = y
        PROVE  \E j \in i .. Len(t) : t[j] = y
    <2>1. PICK j \in i + 1 .. Len(s) : s[j] = y
      BY <1>4
    <2>2. j - 1 \in i .. Len(t) /\ j - 1 \in 1 .. Len(t) /\ (j - 1) + 1 = j
      BY <1>1, <2>1
    <2>3. t[j - 1] = y
      BY <1>1, <2>1, <2>2
    <2>. QED
      BY <2>2, <2>3
  <1>5. ASSUME p \in Web PROVE Restarts(t)
    <2>1. Restarts(s)
      BY <1>5 DEF Proper
    <2>2. ASSUME NEW i \in 1 .. Len(t), t[i] = "stopTomcat"
          PROVE  \E j \in i + 1 .. Len(t) : t[j] = "startTomcat"
      <3>1. i + 1 \in 1 .. Len(s) /\ s[i + 1] = "stopTomcat"
        BY <1>1, <2>2
      <3>2. \E j \in (i + 1) + 1 .. Len(s) : s[j] = "startTomcat"
        BY <2>1, <3>1 DEF Restarts
      <3>. QED
        BY <1>4, <3>1, <3>2
    <2>3. ASSUME NEW i \in 1 .. Len(t), t[i] = "stopApache"
          PROVE  \E j \in i + 1 .. Len(t) : t[j] = "startApache"
      <3>1. i + 1 \in 1 .. Len(s) /\ s[i + 1] = "stopApache"
        BY <1>1, <2>3
      <3>2. \E j \in (i + 1) + 1 .. Len(s) : s[j] = "startApache"
        BY <2>1, <3>1 DEF Restarts
      <3>. QED
        BY <1>4, <3>1, <3>2
    <2>4. ASSUME NEW i \in 1 .. Len(t), t[i] = "password"
          PROVE  i < Len(t)
      <3>1. i + 1 \in 1 .. Len(s) /\ s[i + 1] = "password"
        BY <1>1, <2>4
      <3>2. i + 1 < Len(s)
        BY <2>1, <3>1 DEF Restarts
      <3>. QED
        BY <1>1, <3>2
    <2>. QED
      BY <2>2, <2>3, <2>4 DEF Restarts
  <1>6. ASSUME p \in Web, Head(s) \in {"list", "password"}, In(Head(s), t) PROVE FALSE
    <2>1. PICK i \in 1 .. Len(t) : t[i] = Head(s)
      BY <1>6 DEF In
    <2>2. i + 1 \in 1 .. Len(s) /\ 1 \in 1 .. Len(s) /\ s[i + 1] = s[1] /\ i + 1 # 1
      BY <1>1, <2>1
    <2>3. Once(s)
      BY <1>6 DEF Proper
    <2>. QED
      BY <1>1, <1>6, <2>2, <2>3 DEF Once
  <1>7. ASSUME p \in Web, Head(s) = "stopTomcat" PROVE In("startTomcat", t)
    <2>1. 1 \in 1 .. Len(s) /\ s[1] = "stopTomcat" /\ Restarts(s)
      BY <1>1, <1>7 DEF Proper
    <2>2. \E j \in 1 + 1 .. Len(s) : s[j] = "startTomcat"
      BY <2>1 DEF Restarts
    <2>3. \E j \in 1 .. Len(t) : t[j] = "startTomcat"
      BY <1>4, <2>1, <2>2
    <2>. QED
      BY <2>3 DEF In
  <1>8. ASSUME p \in Web, Head(s) = "stopApache" PROVE In("startApache", t)
    <2>1. 1 \in 1 .. Len(s) /\ s[1] = "stopApache" /\ Restarts(s)
      BY <1>1, <1>8 DEF Proper
    <2>2. \E j \in 1 + 1 .. Len(s) : s[j] = "startApache"
      BY <2>1 DEF Restarts
    <2>3. \E j \in 1 .. Len(t) : t[j] = "startApache"
      BY <1>4, <2>1, <2>2
    <2>. QED
      BY <2>3 DEF In
  <1>9. ASSUME p \in Web, Head(s) = "password" PROVE t # <<>>
    <2>1. 1 \in 1 .. Len(s) /\ s[1] = "password" /\ Restarts(s)
      BY <1>1, <1>9 DEF Proper
    <2>2. 1 < Len(s)
      BY <2>1 DEF Restarts
    <2>. QED
      BY <1>1, <2>2
  <1>10. Proper(p, kind, t)
    BY <1>1, <1>2, <1>3, <1>5 DEF Proper
  <1>. QED
    BY <1>2, <1>6, <1>7, <1>8, <1>9, <1>10 DEF t

\* What a script that runs is about to do, and what is left of it then.
LEMMA Doings ==
    ASSUME TypeOK, Shape, NEW step, Doing(step)
    PROVE  /\ script # Idle /\ script[1] \in Package /\ script[2] \in Kind
           /\ script = <<script[1], script[2]>>
           /\ Proper(script[1], script[2], todo)
           /\ Proper(script[1], script[2], todo')
           /\ todo' \in Seq(Name)
           /\ \A x : In(x, todo) <=> step = x \/ In(x, todo')
           /\ script[1] \in Web =>
                 /\ step \in {"list", "password"} => ~In(step, todo')
                 /\ step = "stopTomcat" => In("startTomcat", todo')
                 /\ step = "stopApache" => In("startApache", todo')
                 /\ step = "password" => todo' # <<>>
           /\ step \in {"delete", "deploy", "list", "password"} => script[1] \in Web
           /\ step \in {"deploy", "list", "password"} => script[2] \notin Prerms
           /\ step = "delete" => script[2] \in Prerms
           /\ step = "password" => script[1] = "portal"
           /\ step = "answers" => script[1] = "oscore"
  <1>1. todo # <<>> /\ Head(todo) = step /\ todo' = Tail(todo)
    BY DEF Doing
  <1>2. script # Idle /\ Proper(script[1], script[2], todo)
    BY <1>1 DEF Shape
  <1>3. script[1] \in Package /\ script[2] \in Kind /\ script = <<script[1], script[2]>>
    BY <1>2 DEF TypeOK
  <1>4. In(step, todo) /\ Proper(script[1], script[2], todo')
    BY <1>1, <1>2, ProperTail
  <1>5. /\ step \in {"delete", "deploy", "list", "password"} => script[1] \in Web
        /\ step \in {"deploy", "list", "password"} => script[2] \notin Prerms
        /\ step = "delete" => script[2] \in Prerms
        /\ step = "password" => script[1] = "portal"
        /\ step = "answers" => script[1] = "oscore"
    BY <1>2, <1>4 DEF Proper
  <1>6. /\ \A x : In(x, todo) <=> step = x \/ In(x, todo')
        /\ script[1] \in Web =>
                 /\ step \in {"list", "password"} => ~In(step, todo')
                 /\ step = "stopTomcat" => In("startTomcat", todo')
                 /\ step = "stopApache" => In("startApache", todo')
                 /\ step = "password" => todo' # <<>>
    BY <1>1, <1>2, ProperTail
  <1>7. todo' \in Seq(Name)
    BY <1>4 DEF Proper
  <1>. QED
    BY <1>2, <1>3, <1>4, <1>5, <1>6, <1>7

\* The package whose script comes to its hazelcast configuration gets the list there,
\* unless it is not the rest service and has no placeholder.
LEMMA NewLists ==
    ASSUME TypeOK, Shape, PutList
    PROVE  /\ script[1] \in Web
           /\ list' = [list EXCEPT ![script[1]] =
                          IF script[1] = "rest" \/ list[script[1]] = Placeholder
                          THEN iplist ELSE list[script[1]]]
  <1>1. Doing("list")
    BY DEF PutList
  <1>2. script[1] \in Web
    BY <1>1, Doings
  <1>3. CASE script[1] = "metacat"
    BY <1>2, <1>3 DEF PutList, MetacatList
  <1>4. CASE script[1] = "portal"
    BY <1>2, <1>4 DEF PutList, PortalList
  <1>5. CASE script[1] = "rest"
    BY <1>2, <1>5 DEF PutList, RestList
  <1>. QED
    BY <1>2, <1>3, <1>4, <1>5 DEF Web

\* A script begins.
LEMMA Begins ==
    ASSUME TypeOK, NEW p \in Package, NEW kind \in Kind, Begin(p, kind), dialog' \in BOOLEAN
    PROVE  /\ script' = <<p, kind>> /\ script' # Idle /\ script'[1] = p /\ script'[2] = kind
           /\ Proper(p, kind, todo') /\ todo' \in Seq(Name)
           /\ \A q \in Package \ {p} : status'[q] = status[q]
           /\ status'[p] = IF kind \in {"reprerm", "reconfigure"} THEN status[p] ELSE "failed"
           /\ status' \in [Package -> {"absent", "unpacked", "failed", "installed"}]
           /\ portalPw' \in BOOLEAN
           /\ p \in Web /\ kind \in Prerms => In("delete", todo')
           /\ p \in Web /\ kind = "configure" =>
                 \A x \in {"deploy", "list", "startTomcat", "startApache"} : In(x, todo')
  <1>1. script' = <<p, kind>> /\ todo' = Steps(p, kind)
    BY DEF Begin
  <1>2. <<p, kind>> # Idle
    BY DEF Idle, Package, Web
  <1>3. /\ Proper(p, kind, todo')
        /\ p \in Web /\ kind \in Prerms => In("delete", todo')
        /\ p \in Web /\ kind = "configure" =>
                 \A x \in {"deploy", "list", "startTomcat", "startApache"} : In(x, todo')
    BY <1>1, Scripts
  <1>4. /\ \A q \in Package \ {p} : status'[q] = status[q]
        /\ status'[p] = IF kind \in {"reprerm", "reconfigure"} THEN status[p] ELSE "failed"
        /\ status' \in [Package -> {"absent", "unpacked", "failed", "installed"}]
    BY DEF Begin, TypeOK
  <1>5. portalPw' \in BOOLEAN
    BY Zenon DEF Begin, TypeOK, PortalConfig
  <1>6. todo' \in Seq(Name)
    BY <1>3 DEF Proper
  <1>. QED
    BY <1>1, <1>2, <1>3, <1>4, <1>5, <1>6

-----------------------------------------------------------------------------
(* Types and the shape of scripts.                                         *)

\* No step breaks a type, or makes a script that is not proper.
LEMMA TypedStep ==
    ASSUME TypeOK, Shape, [Next]_vars
    PROVE  TypeOK' /\ Shape'
  <1>1. CASE Service
    <2>1. PICK step \in Name : Doing(step)
      BY <1>1 DEF Service, Name
    <2>2. TypeOK'
      BY <1>1, <2>1, Doings DEF Service, TypeOK, dpkg, deployed, debconf
    <2>. QED
      BY <1>1, <2>1, <2>2, Doings DEF Service, Shape, dpkg
  <1>2. CASE Delete
    <2>1. TypeOK'
      BY <1>2, Doings DEF Delete, TypeOK, dpkg, services, debconf
    <2>. QED
      BY <1>2, <2>1, Doings DEF Delete, Shape, dpkg
  <1>3. CASE Deploy
    <2>1. TypeOK'
      BY <1>3, Doings DEF Deploy, TypeOK, dpkg, services, debconf
    <2>. QED
      BY <1>3, <2>1, Doings DEF Deploy, Shape, dpkg
  <1>4. CASE PutList
    <2>1. TypeOK'
      BY <1>4, Doings, NewLists DEF TypeOK, PutList, dpkg, deployed, services, debconf
    <2>. QED
      BY <1>4, <2>1, Doings DEF PutList, Shape, dpkg
  <1>5. CASE Password
    <2>1. TypeOK'
      BY <1>5, Doings DEF Password, TypeOK, dpkg, deployed, services
    <2>. QED
      BY <1>5, <2>1, Doings DEF Password, Shape, dpkg
  <1>6. CASE Answers
    <2>1. TypeOK'
      BY <1>6, Doings DEF Answers, TypeOK, dpkg, deployed, services
    <2>. QED
      BY <1>6, <2>1, Doings DEF Answers, Shape, dpkg
  <1>7. ASSUME NEW packages \in SUBSET Package \ {{}}, Apt(packages) PROVE TypeOK' /\ Shape'
    <2>1. portalPw' \in BOOLEAN
      BY <1>7, Zenon DEF Apt, TypeOK, PortalConfig, debconf
    <2>2. corePw' \in BOOLEAN
      BY <1>7 DEF Apt, TypeOK
    <2>3. TypeOK'
      BY <1>7, <2>1, <2>2 DEF Apt, TypeOK, deployed, services
    <2>. QED
      BY <1>7, <2>3 DEF Apt, Shape
  <1>8. ASSUME NEW p \in Package, NEW kind \in Kind, Begin(p, kind), dialog' \in BOOLEAN,
               batch' \subseteq Package, unpack' \subseteq batch',
               kind \in {"reprerm", "reconfigure"} => status[p] = "installed",
               UNCHANGED <<deployed, list, services, iplist, corePw, keystore>>
        PROVE  TypeOK' /\ Shape'
    <2>1. TypeOK'
      BY <1>8, Begins DEF TypeOK, deployed, services
    <2>. QED
      BY <1>8, <2>1, Begins DEF Shape
  <1>9. ASSUME NEW p \in Package, Remove(p) PROVE TypeOK' /\ Shape'
    BY <1>8, <1>9 DEF Remove, TypeOK, Kind
  <1>10. ASSUME NEW p \in Package, Unpack(p) PROVE TypeOK' /\ Shape'
    <2>1. TypeOK'
      BY <1>10 DEF Unpack, TypeOK, services, debconf
    <2>. QED
      BY <1>10, <2>1 DEF Unpack, Shape
  <1>11. ASSUME NEW p \in Package, Abort(p) PROVE TypeOK' /\ Shape'
    BY <1>8, <1>11 DEF Abort, TypeOK, Kind
  <1>12. ASSUME NEW p \in Package, Postinst(p) PROVE TypeOK' /\ Shape'
    BY <1>8, <1>12 DEF Postinst, TypeOK, Kind
  <1>13. ASSUME NEW p \in Package, Reconfigure(p) PROVE TypeOK' /\ Shape'
    <2>1. script = <<p, "reprerm">> => status[p] = "installed"
      BY DEF Shape, Idle
    <2>2. status[p] = "installed" /\ dialog' \in BOOLEAN
      BY <1>13, <2>1 DEF Reconfigure, TypeOK
    <2>3. UNCHANGED <<batch, unpack, deployed, list, services, iplist, corePw, keystore>>
      BY <1>13 DEF Reconfigure
    <2>4. PICK kind \in {"reprerm", "reconfigure"} : Begin(p, kind)
      BY <1>13 DEF Reconfigure
    <2>. QED
      BY <1>8, <2>2, <2>3, <2>4 DEF TypeOK, Kind
  <1>14. CASE Configured
    <2>1. TypeOK'
      BY <1>14 DEF Configured, TypeOK, deployed, services, debconf
    <2>. QED
      BY <1>14, <2>1 DEF Configured, Shape
  <1>15. CASE Done
    <2>1. TypeOK'
      BY <1>15 DEF Done, Finished, TypeOK, run, deployed, services, debconf
    <2>. QED
      BY <1>15, <2>1 DEF Done, Shape, run
  <1>16. CASE Kill
    <2>1. corePw' \in BOOLEAN
      BY <1>16 DEF Kill, TypeOK
    <2>2. TypeOK'
      BY <1>16, <2>1 DEF Kill, TypeOK, deployed, services
    <2>. QED
      BY <1>16, <2>2 DEF Kill, Shape
  <1>17. CASE Admin
    <2>1. TypeOK'
      BY <1>17 DEF Admin, TypeOK, dpkg, run, deployed, debconf
    <2>. QED
      BY <1>17, <2>1 DEF Admin, Shape, dpkg, run
  <1>18. CASE UNCHANGED vars
    BY <1>18 DEF vars, TypeOK, Shape, dpkg, run, deployed, services, debconf
  <1>. QED
    BY <1>1, <1>2, <1>3, <1>4, <1>5, <1>6, <1>7, <1>9, <1>10, <1>11, <1>12, <1>13,
       <1>14, <1>15, <1>16, <1>17, <1>18 DEF Next

\* Every variable keeps its type, and a script that runs is one of the packages'
\* scripts from some step on.
LEMMA Shaped == Spec => [](TypeOK /\ Shape)
  <1>1. Init => TypeOK /\ Shape
    <2>1. SUFFICES ASSUME Init PROVE TypeOK /\ Shape
      OBVIOUS
    <2>2. PICK present \in SUBSET Web :
            /\ status = [p \in Package |-> IF p \in present \union {"oscore"} THEN "installed" ELSE "absent"]
            /\ files = present /\ web = present
            /\ keystore = ("portal" \in present)
            /\ iplist \in Lists /\ list = [p \in Web |-> IF p \in present THEN iplist ELSE Gone]
      BY <2>1 DEF Init
    <2>3. ("portal" \in present) \in BOOLEAN
      OBVIOUS
    <2>4. keystore \in BOOLEAN
      BY <2>2, <2>3
    <2>5. todo \in Seq(Name) /\ files \subseteq Web /\ web \subseteq Web
      BY <2>1, <2>2 DEF Init
    <2>6. /\ list \in [Web -> Lists \union {Placeholder, Gone}]
          /\ status \in [Package -> {"absent", "unpacked", "failed", "installed"}]
      BY <2>2
    <2>7. Shape
      BY <2>1 DEF Init, Shape
    <2>. QED
      BY <2>1, <2>2, <2>4, <2>5, <2>6, <2>7 DEF Init, TypeOK
  <1>2. TypeOK /\ Shape /\ [Next]_vars => (TypeOK /\ Shape)'
    BY TypedStep
  <1>. QED
    BY <1>1, <1>2, PTL DEF Spec

\* Every variable keeps its type, for any lists and any number of packages on the
\* node.
THEOREM Typed == Spec => []TypeOK
  BY Shaped, PTL

\* What the steps that begin a script have in common.
LEMMA BeginSteps ==
    ASSUME TypeOK, Shape, NEW p \in Package, Remove(p) \/ Abort(p) \/ Postinst(p) \/ Reconfigure(p)
    PROVE  \E kind \in Kind :
              /\ Begin(p, kind) /\ dialog' \in BOOLEAN
              /\ UNCHANGED <<deployed, list, services, iplist, corePw, keystore>>
  <1>1. CASE Remove(p)
    BY <1>1 DEF Remove, Kind, TypeOK
  <1>2. CASE Abort(p)
    BY <1>2 DEF Abort, Kind, TypeOK
  <1>3. CASE Postinst(p)
    BY <1>3 DEF Postinst, Kind, TypeOK
  <1>4. CASE Reconfigure(p)
    BY <1>4 DEF Reconfigure, Kind, TypeOK
  <1>. QED
    BY <1>1, <1>2, <1>3, <1>4

-----------------------------------------------------------------------------
(* What prerm has deleted.                                                 *)

\* prerm takes the configuration of the portal, and of the others the sources and
\* the application.
Gut == \A p \in gutted : IF p = "portal" THEN list[p] = Gone ELSE p \notin files /\ p \notin web

\* What was deleted stays away: a step that deploys finds no sources, and one that
\* puts a list no placeholder.
LEMMA GutStep ==
    ASSUME TypeOK, Shape, Gut, [Next]_vars
    PROVE  Gut'
  <1>1. CASE Service
    BY <1>1 DEF Service, Gut, deployed
  <1>2. CASE Delete
    <2>1. script[1] \in Web
      BY <1>2, Doings DEF Delete
    <2>. QED
      BY <1>2, <2>1 DEF Delete, Gut, TypeOK, Web
  <1>3. CASE Deploy
    BY <1>3 DEF Deploy, Gut
  <1>4. CASE PutList
    <2>1. script[1] \in Web
      BY <1>4, Doings DEF PutList
    <2>2. Gone # Placeholder
      BY DEF Gone, Placeholder
    <2>. QED
      BY <1>4, <2>1, <2>2, NewLists DEF PutList, Gut, TypeOK, deployed
  <1>5. CASE Password \/ Answers
    BY <1>5 DEF Password, Answers, Gut, deployed
  <1>6. ASSUME NEW packages \in SUBSET Package \ {{}}, Apt(packages) PROVE Gut'
    BY <1>6 DEF Apt, Gut, deployed
  <1>7. ASSUME NEW p \in Package, Remove(p) \/ Abort(p) \/ Postinst(p) \/ Reconfigure(p) PROVE Gut'
    BY <1>7, BeginSteps DEF Gut, deployed
  <1>8. ASSUME NEW p \in Package, Unpack(p) PROVE Gut'
    BY <1>8 DEF Unpack, Gut, TypeOK
  <1>9. CASE Configured \/ Done \/ Kill \/ Admin \/ UNCHANGED vars
    BY <1>9 DEF Configured, Done, Kill, Admin, vars, Gut, deployed
  <1>. QED
    BY <1>1, <1>2, <1>3, <1>4, <1>5, <1>6, <1>7, <1>8, <1>9 DEF Next

\* Once prerm has deleted a package's files, the application or its hazelcast
\* configuration stays away until the package is unpacked: aborted upgrades and
\* dpkg-reconfigure end with a package that is installed and does not work.
THEOREM Gutted == Spec => []GuttedUntilUnpacked
  <1>1. Init => Gut
    BY DEF Init, Gut
  <1>2. TypeOK /\ Shape /\ Gut /\ [Next]_vars => Gut'
    BY GutStep
  <1>3. Gut => GuttedUntilUnpacked
    BY DEF Gut, GuttedUntilUnpacked
  <1>. QED
    BY <1>1, <1>2, <1>3, Shaped, PTL DEF Spec

-----------------------------------------------------------------------------
(* What is deployed.                                                       *)

\* The files of a package that prerm has not deleted are there; the script that
\* runs for it deletes them, or deploys them unless they are deployed.
Deployed ==
    \A p \in Web \ gutted :
       /\ status[p] # "absent" => p \in files /\ list[p] # Gone
       /\ status[p] = "installed" => p \in web
       /\ script # Idle /\ script[1] = p =>
             IF script[2] \in Prerms THEN In("delete", todo)
             ELSE script[2] = "configure" /\ (In("deploy", todo) \/ p \in web)

\* No step leaves an ungutted package without its files, or an installed one
\* without its application.
LEMMA DeployedStep ==
    ASSUME TypeOK, Shape, Deployed, [Next]_vars
    PROVE  Deployed'
  <1> USE ListsAreLists
  <1>1. CASE Service
    <2>1. PICK step \in {"stopTomcat", "startTomcat", "stopApache", "startApache"} : Doing(step)
      BY <1>1 DEF Service
    <2>. QED
      BY <1>1, <2>1, Doings DEF Service, Deployed, dpkg, deployed
  <1>2. CASE Delete
    <2>1. script # Idle /\ script[1] \in Web /\ script[2] \in Prerms
      BY <1>2, Doings DEF Delete
    <2>. QED
      BY <1>2, <2>1 DEF Delete, Deployed, TypeOK, dpkg
  <1>3. CASE Deploy
    <2>1. /\ script # Idle /\ script[1] \in Web /\ script[2] \notin Prerms
          /\ \A x : In(x, todo) <=> "deploy" = x \/ In(x, todo')
      BY <1>3, Doings DEF Deploy
    <2>2. status[script[1]] # "absent"
      BY <2>1 DEF Shape
    <2>. QED
      BY <1>3, <2>1, <2>2 DEF Deploy, Deployed, dpkg
  <1>4. CASE PutList
    <2>1. /\ script # Idle /\ script[1] \in Web /\ script[2] \notin Prerms
          /\ \A x : In(x, todo) <=> "list" = x \/ In(x, todo')
      BY <1>4, Doings DEF PutList
    <2>2. iplist # Gone /\ Gone # Placeholder
      BY DEF TypeOK, Gone, Placeholder
    <2>. QED
      BY <1>4, <2>1, <2>2, NewLists DEF PutList, Deployed, TypeOK, dpkg, deployed
  <1>5. CASE Password
    <2>1. \A x : In(x, todo) <=> "password" = x \/ In(x, todo')
      BY <1>5, Doings DEF Password
    <2>. QED
      BY <1>5, <2>1 DEF Password, Deployed, dpkg, deployed
  <1>6. CASE Answers
    <2>1. \A x : In(x, todo) <=> "answers" = x \/ In(x, todo')
      BY <1>6, Doings DEF Answers
    <2>. QED
      BY <1>6, <2>1 DEF Answers, Deployed, dpkg, deployed
  <1>7. ASSUME NEW packages \in SUBSET Package \ {{}}, Apt(packages) PROVE Deployed'
    BY <1>7 DEF Apt, Deployed, deployed
  <1>8. ASSUME NEW p \in Package, NEW kind \in Kind, Begin(p, kind), dialog' \in BOOLEAN,
               p \in Web \ gutted => kind \in {"prerm", "reprerm", "configure"},
               p \in Web => status[p] # "absent",
               UNCHANGED <<deployed, list, services, iplist, corePw, keystore>>
        PROVE  Deployed'
    <2>1. SUFFICES ASSUME NEW q \in Web \ gutted
                   PROVE  /\ status'[q] # "absent" => q \in files /\ list[q] # Gone
                          /\ status'[q] = "installed" => q \in web
                          /\ p = q => IF kind \in Prerms THEN In("delete", todo')
                                      ELSE kind = "configure" /\ (In("deploy", todo') \/ q \in web)
      BY <1>8, Begins DEF Deployed, deployed
    <2>2. CASE q = p
      BY <1>8, <2>2, Begins DEF Deployed, Prerms
    <2>3. CASE q # p
      BY <1>8, <2>3, Begins DEF Deployed, Package
    <2>. QED
      BY <2>2, <2>3
  <1>9. ASSUME NEW p \in Package, Remove(p) PROVE Deployed'
    BY <1>8, <1>9 DEF Remove, Kind, TypeOK
  <1>10. ASSUME NEW p \in Package, Unpack(p) PROVE Deployed'
    <2>1. Placeholder # Gone
      BY DEF Placeholder, Gone
    <2>. QED
      BY <1>10, <2>1 DEF Unpack, Deployed, TypeOK, Package
  <1>11. ASSUME NEW p \in Package, Abort(p) PROVE Deployed'
    <2>1. ~In("delete", todo)
      BY <1>11, Nothing DEF Abort
    <2>2. script # Idle /\ script[1] = p /\ script[2] \in Prerms
      BY <1>11 DEF Abort, Idle, Prerms
    <2>3. p \in Web => p \in gutted /\ status[p] # "absent"
      BY <2>1, <2>2 DEF Deployed, Shape
    <2>. QED
      BY <1>8, <1>11, <2>3 DEF Abort, Kind, TypeOK
  <1>12. ASSUME NEW p \in Package, Postinst(p) PROVE Deployed'
    BY <1>8, <1>12 DEF Postinst, Kind, TypeOK
  <1>13. ASSUME NEW p \in Package, Reconfigure(p) PROVE Deployed'
    <2>1. CASE script = Idle /\ status[p] = "installed" /\ dialog' \in BOOLEAN /\ Begin(p, "reprerm")
      BY <1>8, <1>13, <2>1 DEF Reconfigure, Kind
    <2>2. CASE script = <<p, "reprerm">> /\ todo = <<>> /\ UNCHANGED dialog /\ Begin(p, "reconfigure")
      <3>1. ~In("delete", todo)
        BY <2>2, Nothing
      <3>2. script # Idle /\ script[1] = p /\ script[2] \in Prerms
        BY <2>2 DEF Idle, Prerms
      <3>3. p \in Web => p \in gutted /\ status[p] # "absent"
        BY <3>1, <3>2 DEF Deployed, Shape
      <3>. QED
        BY <1>8, <1>13, <2>2, <3>3 DEF Reconfigure, Kind, TypeOK
    <2>. QED
      BY <1>13, <2>1, <2>2 DEF Reconfigure
  <1>14. CASE Configured
    <2>1. ~In("deploy", todo)
      BY <1>14, Nothing DEF Configured
    <2>2. script # Idle /\ script[1] \in Package /\ script[2] \notin Prerms
      BY <1>14 DEF Configured, TypeOK, Prerms
    <2>3. status[script[1]] # "absent"
      BY <2>2 DEF Shape
    <2>. QED
      BY <1>14, <2>1, <2>2, <2>3 DEF Configured, Deployed, TypeOK, deployed
  <1>15. CASE Done \/ Kill \/ Admin \/ UNCHANGED vars
    BY <1>15 DEF Done, Kill, Admin, vars, Deployed, dpkg, run, deployed
  <1>. QED
    BY <1>1, <1>2, <1>3, <1>4, <1>5, <1>6, <1>7, <1>9, <1>10, <1>11, <1>12, <1>13,
       <1>14, <1>15 DEF Next

\* What dpkg calls installed is deployed, unless prerm has deleted its files:
\* however often scripts were killed and run again.
THEOREM Installed == Spec => []InstalledIsDeployed
  <1>1. Init => Deployed
    <2>1. SUFFICES ASSUME Init PROVE Deployed
      OBVIOUS
    <2>2. PICK present \in SUBSET Web :
            /\ status = [p \in Package |-> IF p \in present \union {"oscore"} THEN "installed" ELSE "absent"]
            /\ files = present /\ web = present
            /\ iplist \in Lists /\ list = [p \in Web |-> IF p \in present THEN iplist ELSE Gone]
      BY <2>1 DEF Init
    <2>3. "oscore" \notin Web /\ Web \subseteq Package
      BY DEF Web, Package
    <2>. QED
      BY <2>1, <2>2, <2>3, ListsAreLists DEF Init, Deployed
  <1>2. TypeOK /\ Shape /\ Deployed /\ [Next]_vars => Deployed'
    BY DeployedStep
  <1>3. Deployed => InstalledIsDeployed
    BY DEF Deployed, InstalledIsDeployed
  <1>. QED
    BY <1>1, <1>2, <1>3, Shaped, PTL DEF Spec

-----------------------------------------------------------------------------
(* The portal's password.                                                  *)

\* While a script is to read the password, and debconf can ask, there is one.
Pass == In("password", todo) /\ dialog => corePw \/ portalPw

\* A password that is there when the portal's script begins is there when it is
\* read.
LEMMA PassStep ==
    ASSUME TypeOK, Shape, Pass, [Next]_vars
    PROVE  Pass'
  <1>1. CASE Service
    <2>1. PICK step \in Name : Doing(step)
      BY <1>1 DEF Service, Name
    <2>. QED
      BY <1>1, <2>1, Doings DEF Service, Pass, debconf
  <1>2. CASE Delete
    BY <1>2, Doings DEF Delete, Pass, debconf
  <1>3. CASE Deploy
    BY <1>3, Doings DEF Deploy, Pass, debconf
  <1>4. CASE PutList
    BY <1>4, Doings DEF PutList, Pass, debconf
  <1>5. CASE Password
    BY <1>5, Doings DEF Password, Pass
  <1>6. CASE Answers
    <2>1. script[1] = "oscore" /\ Proper(script[1], script[2], todo')
      BY <1>6, Doings DEF Answers
    <2>. QED
      BY <2>1 DEF Proper, Pass
  <1>7. ASSUME NEW packages \in SUBSET Package \ {{}}, Apt(packages) PROVE Pass'
    BY <1>7, Nothing DEF Apt, Shape, Pass
  <1>8. ASSUME NEW p \in Package, Remove(p) \/ Abort(p) \/ Postinst(p) \/ Reconfigure(p) PROVE Pass'
    <2>1. PICK kind \in Kind : Begin(p, kind) /\ dialog' \in BOOLEAN /\ corePw' = corePw
      BY <1>8, BeginSteps
    <2>2. CASE p = "portal" /\ kind \notin Prerms
      <3>1. portalPw' = (portalPw \/ (dialog' /\ ~corePw))
        BY <2>1, <2>2, Zenon DEF Begin, PortalConfig, Prerms
      <3>. QED
        BY <2>1, <3>1 DEF Pass, TypeOK
    <2>3. CASE p # "portal" \/ kind \in Prerms
      <3>1. Proper(p, kind, todo')
        BY <2>1, Begins
      <3>. QED
        BY <2>3, <3>1 DEF Proper, Pass
    <2>. QED
      BY <2>2, <2>3
  <1>9. ASSUME NEW p \in Package, Unpack(p) PROVE Pass'
    BY <1>9, Nothing DEF Unpack, Pass
  <1>10. CASE Configured
    BY <1>10, Nothing DEF Configured, Pass
  <1>11. CASE Kill
    BY <1>11, Nothing DEF Kill, Pass
  <1>12. CASE Done \/ Admin \/ UNCHANGED vars
    BY <1>12 DEF Done, Admin, vars, Pass, run, debconf
  <1>. QED
    BY <1>1, <1>2, <1>3, <1>4, <1>5, <1>6, <1>7, <1>8, <1>9, <1>10, <1>11, <1>12 DEF Next

\* Where debconf can ask, the portal gets a password, although os-core forgets its
\* own before the portal reads it.
THEOREM Given == Spec => PasswordGiven
  <1>1. Init => Pass
    BY Nothing DEF Init, Pass
  <1>2. TypeOK /\ Shape /\ Pass /\ [Next]_vars => Pass'
    BY PassStep
  <1>3. TypeOK /\ Shape /\ Pass /\ [Next]_vars => [Doing("password") /\ dialog => keystore']_vars
    <2>1. SUFFICES ASSUME TypeOK, Shape, Pass, Next, Doing("password"), dialog PROVE keystore'
      OBVIOUS
    <2>2. corePw \/ portalPw
      BY <2>1, Doings DEF Pass
    <2>3. Password
      <3>1. todo # <<>> /\ Head(todo) = "password" /\ script # Idle /\ todo' = Tail(todo)
        BY <2>1, Doings DEF Doing
      <3>2. todo' # todo /\ todo' # <<>> /\ todo # <<>>
        BY <2>1, <3>1, Doings DEF TypeOK
      <3>3. ASSUME NEW step, Doing(step) PROVE step = "password"
        BY <3>1, <3>3 DEF Doing
      <3>4. ~(Service \/ Delete \/ Deploy \/ PutList \/ Answers)
        BY <3>3 DEF Service, Delete, Deploy, PutList, Answers
      <3>5. ~\E p \in Package : Remove(p) \/ Unpack(p) \/ Abort(p) \/ Postinst(p) \/ Reconfigure(p)
        BY <3>1, <3>2 DEF Remove, Unpack, Abort, Postinst, Reconfigure
      <3>6. ~(\E packages \in SUBSET Package \ {{}} : Apt(packages)) /\ ~Configured /\ ~Done /\ ~Kill /\ ~Admin
        BY <3>1, <3>2 DEF Apt, Configured, Done, Kill, Admin, run
      <3>. QED
        BY <2>1, <3>4, <3>5, <3>6 DEF Next
    <2>. QED
      BY <2>2, <2>3 DEF Password
  <1>. QED
    BY <1>1, <1>2, <1>3, Shaped, PTL DEF Spec, PasswordGiven

-----------------------------------------------------------------------------
(* A run of dpkg.                                                          *)

\* First all is unpacked, and only then configured.
Phases ==
    /\ batch \subseteq Package
    /\ batch = {} => unpack = {}
    /\ batch # {} /\ script # Idle =>
          IF unpack # {} THEN script[2] = "prerm" /\ script[1] \in unpack ELSE script[2] = "configure"
    /\ batch # {} /\ unpack # {} => \A q \in batch \ unpack : status[q] = "unpacked"
    /\ batch # {} => \A q \in batch \ unpack :
          status[q] = "failed" => script # Idle /\ script[1] = q

\* What the run has done to a web package.
Came(p) ==
    /\ status[p] = "unpacked" => list[p] = Placeholder
    /\ status[p] = "installed" =>
          /\ list[p] = iplist /\ status["oscore"] = "installed"
          /\ script = Idle => tomcat /\ apache

\* What the script that configures a web package has done.
Coming(p) ==
    /\ status["oscore"] = "installed"
    /\ In("startTomcat", todo) \/ tomcat
    /\ In("startApache", todo) \/ apache
    /\ p \in batch => IF In("list", todo) THEN p = "rest" \/ list[p] = Placeholder ELSE list[p] = iplist

\* The parts of a run that are done are done well.
Run ==
    /\ Phases
    /\ batch # {} =>
          /\ \A p \in (batch \intersect Web) \ unpack : Came(p)
          /\ unpack = {} /\ script # Idle /\ script[1] \in Web => Coming(script[1])

\* The steps keep the phases apart.
LEMMA PhasesStep ==
    ASSUME TypeOK, Shape, Phases, [Next]_vars
    PROVE  Phases'
  <1>1. CASE Service \/ Delete \/ Deploy \/ PutList \/ Password \/ Answers
    BY <1>1 DEF Service, Delete, Deploy, PutList, Password, Answers, Phases, dpkg
  <1>2. ASSUME NEW packages \in SUBSET Package \ {{}}, Apt(packages) PROVE Phases'
    BY <1>2 DEF Apt, Phases
  <1>3. ASSUME NEW p \in Package, Remove(p) PROVE Phases'
    <2>1. /\ script' = <<p, "prerm">> /\ script'[1] = p /\ script'[2] = "prerm"
          /\ \A q \in Package \ {p} : status'[q] = status[q]
      BY <1>3, Begins DEF Remove, Kind, TypeOK
    <2>. QED
      BY <1>3, <2>1 DEF Remove, Phases
  <1>4. ASSUME NEW p \in Package, Unpack(p) PROVE Phases'
    BY <1>4 DEF Unpack, Phases, TypeOK, Idle
  <1>5. ASSUME NEW p \in Package, Abort(p) PROVE Phases'
    BY <1>5 DEF Abort, Phases
  <1>6. ASSUME NEW p \in Package, Postinst(p) PROVE Phases'
    <2>1. /\ script' # Idle /\ script'[1] = p /\ script'[2] = "configure"
          /\ \A q \in Package \ {p} : status'[q] = status[q]
      BY <1>6, Begins DEF Postinst, Kind, TypeOK
    <2>. QED
      BY <1>6, <2>1 DEF Postinst, Phases
  <1>7. ASSUME NEW p \in Package, Reconfigure(p) PROVE Phases'
    <2>1. batch = {}
      BY <1>7 DEF Reconfigure, Phases, Idle, TypeOK
    <2>. QED
      BY <1>7, <2>1 DEF Reconfigure, Phases
  <1>8. CASE Configured
    BY <1>8 DEF Configured, Phases, TypeOK
  <1>9. CASE Done \/ Kill \/ Admin \/ UNCHANGED vars
    BY <1>9 DEF Done, Finished, Kill, Admin, vars, Phases, dpkg, run
  <1>. QED
    BY <1>1, <1>2, <1>3, <1>4, <1>5, <1>6, <1>7, <1>8, <1>9 DEF Next

\* A package that is configured stays as it is for the rest of the run: os-core is
\* configured before it, and the others leave tomcat and apache up.
LEMMA RunStep ==
    ASSUME TypeOK, Shape, Run, [Next]_vars
    PROVE  Run'
  <1>1. Phases /\ Phases'
    BY PhasesStep DEF Run
  <1>2. "oscore" \in Package /\ "oscore" \notin Web /\ Web \subseteq Package
    BY DEF Package, Web
  <1>3. ASSUME batch # {}, script # Idle, script[1] \in Web, script[2] \notin Prerms
        PROVE  unpack = {} /\ script[2] = "configure" /\ Coming(script[1]) /\ status[script[1]] = "failed"
    BY <1>1, <1>3 DEF Phases, Run, Shape, Prerms
  <1>4. CASE Service
    <2>1. PICK step \in {"stopTomcat", "startTomcat", "stopApache", "startApache"} : Doing(step)
      BY <1>4 DEF Service
    <2>2. script # Idle /\ script' = script /\ dpkg' = dpkg /\ list' = list /\ iplist' = iplist
      BY <1>4, <2>1, Doings DEF Service, debconf
    <2>3. \A p \in Web : Came(p) => Came(p)'
      BY <2>2 DEF Came, dpkg
    <2>4. ASSUME script[1] \in Web, Coming(script[1]) PROVE Coming(script[1])'
      <3>1. /\ \A x : In(x, todo) <=> step = x \/ In(x, todo')
            /\ step = "stopTomcat" => In("startTomcat", todo')
            /\ step = "stopApache" => In("startApache", todo')
        BY <2>1, <2>4, Doings
      <3>2. In("startTomcat", todo') \/ tomcat'
        BY <1>4, <2>1, <2>4, <3>1 DEF Service, Coming, Doing
      <3>3. In("startApache", todo') \/ apache'
        BY <1>4, <2>1, <2>4, <3>1 DEF Service, Coming, Doing
      <3>. QED
        BY <2>1, <2>2, <2>4, <3>1, <3>2, <3>3 DEF Coming, dpkg
    <2>. QED
      BY <1>1, <2>2, <2>3, <2>4 DEF Run, dpkg
  <1>5. CASE Delete
    <2>1. script # Idle /\ script[1] \in Web /\ script[2] \in Prerms
      BY <1>5, Doings DEF Delete
    <2>2. batch # {} => unpack # {} /\ script[1] \in unpack
      BY <1>1, <2>1 DEF Phases, Prerms
    <2>3. \A p \in Web \ {script[1]} : Came(p) => Came(p)'
      BY <1>5, <2>1 DEF Delete, Came, dpkg, debconf, services, TypeOK
    <2>. QED
      BY <1>1, <1>5, <2>2, <2>3 DEF Delete, Run, dpkg
  <1>6. CASE Deploy
    <2>1. \A x : In(x, todo) <=> "deploy" = x \/ In(x, todo')
      BY <1>6, Doings DEF Deploy
    <2>. QED
      BY <1>1, <1>6, <2>1 DEF Deploy, Run, Came, Coming, dpkg, services, debconf
  <1>7. CASE PutList
    <2>1. /\ script # Idle /\ script[1] \in Web /\ script[2] \notin Prerms /\ ~In("list", todo')
          /\ \A x : In(x, todo) <=> "list" = x \/ In(x, todo')
      BY <1>7, Doings DEF PutList
    <2>2. \A p \in Web \ {script[1]} : list'[p] = list[p]
      BY <1>7 DEF PutList, TypeOK
    <2>3. UNCHANGED <<dpkg, script, services, debconf>>
      BY <1>7 DEF PutList
    <2>4. SUFFICES ASSUME batch # {} PROVE Run'
      BY <1>1, <2>3 DEF Run, dpkg
    <2>5. unpack = {} /\ Coming(script[1]) /\ status[script[1]] = "failed"
      BY <1>3, <2>1, <2>4
    <2>6. \A p \in Web : Came(p) => Came(p)'
      BY <2>2, <2>3, <2>5 DEF Came, dpkg, services, debconf
    <2>7. script[1] \in batch => list'[script[1]] = iplist
      BY <1>7, <2>1, <2>5, NewLists DEF Coming, TypeOK
    <2>8. Coming(script[1])'
      BY <2>1, <2>3, <2>5, <2>7 DEF Coming, dpkg, services, debconf
    <2>. QED
      BY <1>1, <2>3, <2>6, <2>8 DEF Run, dpkg
  <1>8. CASE Password
    <2>1. \A x : In(x, todo) <=> "password" = x \/ In(x, todo')
      BY <1>8, Doings DEF Password
    <2>. QED
      BY <1>1, <1>8, <2>1 DEF Password, Run, Came, Coming, dpkg, services
  <1>9. CASE Answers
    <2>1. script # Idle /\ script[1] = "oscore"
      BY <1>9, Doings DEF Answers
    <2>2. UNCHANGED <<dpkg, script, list>>
      BY <1>9 DEF Answers
    <2>3. SUFFICES ASSUME batch # {} PROVE Run'
      BY <1>1, <2>2 DEF Run, dpkg
    <2>4. status["oscore"] = "failed"
      BY <1>1, <2>1, <2>3 DEF Shape, Phases
    <2>5. \A p \in Web : Came(p) => Came(p)'
      BY <2>2, <2>4 DEF Came, dpkg
    <2>. QED
      BY <1>1, <1>2, <2>1, <2>2, <2>5 DEF Run, dpkg
  <1>10. ASSUME NEW packages \in SUBSET Package \ {{}}, Apt(packages) PROVE Run'
    BY <1>1, <1>10 DEF Apt, Run
  <1>11. ASSUME NEW p \in Package, Remove(p) PROVE Run'
    <2>1. UNCHANGED <<batch, unpack, list>> /\ p \in unpack /\ batch # {}
      BY <1>1, <1>11 DEF Remove, Phases
    <2>2. \A q \in Package \ {p} : status'[q] = status[q]
      BY <1>11, Begins DEF Remove, Kind, TypeOK
    <2>3. ASSUME NEW q \in (batch \intersect Web) \ unpack PROVE Came(q)'
      <3>1. status'[q] = "unpacked" /\ status[q] = "unpacked" /\ Came(q)
        BY <1>1, <1>2, <2>1, <2>2, <2>3 DEF Phases, Run
      <3>. QED
        BY <2>1, <3>1 DEF Came
    <2>. QED
      BY <1>1, <2>1, <2>3 DEF Run
  <1>12. ASSUME NEW p \in Package, Unpack(p) PROVE Run'
    <2>1. p \in unpack /\ batch # {} /\ batch' = batch /\ unpack' = unpack \ {p} /\ script' = Idle
      BY <1>1, <1>12 DEF Unpack, Phases
    <2>2. ASSUME NEW q \in (batch \intersect Web) \ unpack' PROVE Came(q)'
      <3>1. CASE q = p
        BY <1>2, <1>12, <2>2, <3>1 DEF Unpack, Came, TypeOK
      <3>2. CASE q # p
        <4>1. status'[q] = "unpacked" /\ status[q] = "unpacked" /\ Came(q)
          BY <1>1, <1>2, <1>12, <2>1, <2>2, <3>2 DEF Phases, Run, Unpack, TypeOK
        <4>. QED
          BY <1>12, <2>2, <3>2, <4>1 DEF Came, Unpack
      <3>. QED
        BY <3>1, <3>2
    <2>. QED
      BY <1>1, <2>1, <2>2 DEF Run
  <1>13. ASSUME NEW p \in Package, Abort(p) PROVE Run'
    BY <1>1, <1>13 DEF Abort, Run
  <1>14. ASSUME NEW p \in Package, Postinst(p) PROVE Run'
    <2>1. UNCHANGED <<batch, unpack, list, services, iplist>> /\ script = Idle /\ unpack = {}
      BY <1>14 DEF Postinst
    <2>2. SUFFICES ASSUME batch # {} PROVE Run'
      BY <1>1, <2>1 DEF Run
    <2>3. /\ script' # Idle /\ script'[1] = p /\ status'[p] = "failed"
          /\ \A q \in Package \ {p} : status'[q] = status[q]
          /\ p \in Web => \A x \in {"list", "startTomcat", "startApache"} : In(x, todo')
      BY <1>14, Begins DEF Postinst, Kind, TypeOK
    <2>4. status[p] # "installed" /\ (p \in Web => status["oscore"] = "installed")
      BY <1>2, <1>14 DEF Postinst, Depends
    <2>5. ASSUME NEW q \in batch \intersect Web, Came(q) PROVE Came(q)'
      BY <1>2, <2>1, <2>3, <2>4, <2>5 DEF Came
    <2>6. ASSUME p \in Web PROVE Coming(p)'
      <3>1. p \in batch => list[p] = Placeholder
        <4>1. p \in batch => status[p] = "unpacked"
          BY <1>1, <1>14, <2>1, <2>2 DEF Phases, Postinst
        <4>. QED
          BY <2>1, <2>2, <2>6, <4>1 DEF Run, Came
      <3>. QED
        BY <1>2, <2>1, <2>3, <2>4, <2>6, <3>1 DEF Coming
    <2>. QED
      BY <1>1, <2>1, <2>2, <2>3, <2>5, <2>6 DEF Run
  <1>15. ASSUME NEW p \in Package, Reconfigure(p) PROVE Run'
    <2>1. batch = {}
      BY <1>1, <1>15 DEF Reconfigure, Phases, Idle, TypeOK
    <2>. QED
      BY <1>1, <1>15, <2>1 DEF Reconfigure, Run
  <1>16. CASE Configured
    <2>1. /\ script # Idle /\ script[1] \in Package /\ script[2] \notin Prerms /\ todo = <<>>
          /\ script' = Idle /\ UNCHANGED <<batch, unpack, list, services, debconf>>
          /\ status'[script[1]] = "installed" /\ \A q \in Package \ {script[1]} : status'[q] = status[q]
      BY <1>16 DEF Configured, TypeOK, Prerms
    <2>2. SUFFICES ASSUME batch # {} PROVE Run'
      BY <1>1, <2>1 DEF Run
    <2>3. CASE script[1] \in Web
      <3>1. tomcat /\ apache /\ status["oscore"] = "installed" /\ (script[1] \in batch => list[script[1]] = iplist)
        BY <1>3, <2>1, <2>2, <2>3, Nothing DEF Coming
      <3>2. ASSUME NEW q \in (batch \intersect Web) \ unpack PROVE Came(q)'
        <4>1. Came(q)
          BY <2>2, <3>2 DEF Run
        <4>2. status'["oscore"] = "installed"
          BY <1>2, <2>1, <2>3, <3>1
        <4>. QED
          BY <1>2, <2>1, <3>1, <4>1, <4>2 DEF Came, services, debconf
      <3>. QED
        BY <1>1, <2>1, <3>2 DEF Run
    <2>4. CASE script[1] = "oscore"
      <3>1. status["oscore"] = "failed"
        BY <1>1, <2>1, <2>2, <2>4 DEF Shape, Phases, Prerms
      <3>2. ASSUME NEW q \in (batch \intersect Web) \ unpack PROVE Came(q)'
        <4>1. Came(q) /\ status[q] # "installed" /\ status'[q] = status[q]
          BY <1>2, <2>1, <2>2, <2>4, <3>1, <3>2 DEF Run, Came
        <4>. QED
          BY <2>1, <4>1 DEF Came
      <3>. QED
        BY <1>1, <2>1, <3>2 DEF Run
    <2>. QED
      BY <2>1, <2>3, <2>4 DEF Package
  <1>17. CASE Done \/ Kill
    BY <1>1, <1>17 DEF Done, Kill, Run
  <1>18. CASE Admin
    BY <1>1, <1>18 DEF Admin, Run, dpkg
  <1>19. CASE UNCHANGED vars
    BY <1>1, <1>19 DEF vars, Run, Came, Coming, dpkg, run, services, debconf
  <1>. QED
    BY <1>4, <1>5, <1>6, <1>7, <1>8, <1>9, <1>10, <1>11, <1>12, <1>13, <1>14, <1>15,
       <1>16, <1>17, <1>18, <1>19 DEF Next

\* Between runs there is nothing to say.
LEMMA RunInit == Init => Run
  BY DEF Init, Run, Phases

\* After a run that ends well every package of it has the list that is in debconf
\* then.
THEOREM Current == Spec => []ListsCurrent
  <1>1. TypeOK /\ Shape /\ Run /\ [Next]_vars => Run'
    BY RunStep
  <1>2. Run => ListsCurrent
    BY DEF Run, Phases, Came, Finished, ListsCurrent
  <1>. QED
    BY <1>1, <1>2, RunInit, Shaped, PTL DEF Spec

\* A run of dpkg that brings a web application, and ends well, leaves tomcat and
\* apache up.
THEOREM Up == Spec => []EndsUp
  <1>1. TypeOK /\ Shape /\ Run /\ [Next]_vars => Run'
    BY RunStep
  <1>2. Run => EndsUp
    BY DEF Run, Phases, Came, Finished, EndsUp
  <1>. QED
    BY <1>1, <1>2, RunInit, Shaped, PTL DEF Spec

=============================================================================
