------------------------ MODULE ProcessDaemon_proofs ------------------------
(***************************************************************************)
(* Proofs about the processing daemon's init script and package scripts,   *)
(* for any shells and any number of daemons: at most one daemon beside     *)
(* those prerm lost sight of, which keeps its directory; nothing stops a   *)
(* lost one; and "installed" means usable.                                 *)
(***************************************************************************)
EXTENDS ProcessDaemon, TLAPS

\* The daemon that is not lost is the one in the pid file, and no lost one is.
PidInv ==
    /\ \A d \in alive \ orphans : d = pidfile
    /\ pidfile \notin orphans

\* Shells that run the script at the same time are disturbed.
BusyInv == \A b, c \in Caller : b # c /\ pc[b] # "idle" /\ pc[c] # "idle" => b \in disturbed

\* Who is to remove the directory, and who waits to, has found no daemon that
\* is entitled to it; who is about to start one sits in it.
HomeInv ==
    /\ \A c \in Caller :
          /\ pc[c] \in {"clear", "leave"} => alive \subseteq orphans \union disturbed
          /\ pc[c] = "wait" => alive \subseteq orphans \union disturbed \union {target[c]}
          /\ pc[c] = "jsvc" /\ c \notin disturbed => c \in home
    /\ Housed

\* postinst has got past the steps that need the script and the jar.
PackageInv ==
    /\ pkg \in {"copy", "createdb", "installed"} => script
    /\ pkg \in {"createdb", "installed"} => jar
    /\ pkg = "installed" => db

-----------------------------------------------------------------------------

\* A shell is not a daemon.
LEMMA Apart == ASSUME NEW c \in Caller PROVE c \notin Daemon
  <1>1. \A d \in Daemon : d \in 0 .. MaxDaemons
    BY Callers DEF Callers, Daemon
  <1>. QED
    BY <1>1, Callers DEF Callers

\* Every step keeps the types.
LEMMA TypeStep == TypeOK /\ [Next]_vars => TypeOK'
  <1> SUFFICES ASSUME TypeOK, [Next]_vars PROVE TypeOK'
    OBVIOUS
  <1> USE Callers DEF Callers, None, Daemon, Place, Package, TypeOK, vars, shell, daemons, dir, package, history,
        Go, End, Enter, Busy, Running, Fresh, Born
  <1>1. ASSUME NEW c \in Caller, Restart(c) PROVE TypeOK'
    BY <1>1 DEF Restart
  <1>2. ASSUME NEW c \in Caller, Start(c) PROVE TypeOK'
    BY <1>2 DEF Start
  <1>3. ASSUME NEW c \in Caller, StartTest(c) PROVE TypeOK'
    BY <1>3 DEF StartTest
  <1>4. ASSUME NEW c \in Caller, RemoveTmp(c) PROVE TypeOK'
    BY <1>4 DEF RemoveTmp
  <1>5. ASSUME NEW c \in Caller, MakeTmp(c) PROVE TypeOK'
    BY <1>5 DEF MakeTmp
  <1>6. ASSUME NEW c \in Caller, EnterTmp(c) PROVE TypeOK'
    BY <1>6 DEF EnterTmp
  <1>7. ASSUME NEW c \in Caller, Jsvc(c) PROVE TypeOK'
    BY <1>7 DEF Jsvc
  <1>8. ASSUME NEW c \in Caller, StopTest(c) PROVE TypeOK'
    BY <1>8 DEF StopTest
  <1>9. ASSUME NEW c \in Caller, JsvcStop(c) PROVE TypeOK'
    <2>1. CASE Running
      <3>1. pidfile \in alive /\ pidfile \in Daemon \union {None}
        BY <2>1
      <3>2. told' = told \union {pidfile} /\ target' = [target EXCEPT ![c] = pidfile]
        BY <1>9, <2>1 DEF JsvcStop
      <3>. QED
        BY <1>9, <2>1, <3>1, <3>2 DEF JsvcStop
    <2>2. CASE ~Running
      BY <1>9, <2>2 DEF JsvcStop
    <2>. QED
      BY <2>1, <2>2
  <1>10. ASSUME NEW c \in Caller, Stopped(c) PROVE TypeOK'
    BY <1>10 DEF Stopped
  <1>11. ASSUME NEW c \in Caller, StopFailed(c) PROVE TypeOK'
    BY <1>11 DEF StopFailed
  <1>12. ASSUME NEW c \in Caller, LeaveTmp(c) PROVE TypeOK'
    BY <1>12 DEF LeaveTmp
  <1>13. ASSUME NEW c \in Caller, Kill(c) PROVE TypeOK'
    BY <1>13 DEF Kill
  <1>14. ASSUME NEW c \in Caller, NEW place \in {"test", "stop", "restart"}, Call(c, place) PROVE TypeOK'
    BY <1>14 DEF Call
  <1>15. ASSUME NEW d \in Daemon, Exit(d) PROVE TypeOK'
    BY <1>15 DEF Exit, Gone
  <1>16. ASSUME NEW d \in Daemon, Crash(d) PROVE TypeOK'
    BY <1>16 DEF Crash, Gone
  <1>17. CASE Prerm
    BY <1>17 DEF Prerm
  <1>18. CASE RemoveScript
    BY <1>18 DEF RemoveScript
  <1>19. CASE RemovePid
    BY <1>19 DEF RemovePid
  <1>20. CASE RemoveJar
    BY <1>20 DEF RemoveJar
  <1>21. CASE Unpack
    BY <1>21 DEF Unpack
  <1>22. CASE Configure
    BY <1>22 DEF Configure
  <1>23. CASE Chmod
    BY <1>23 DEF Chmod
  <1>24. CASE Copy
    BY <1>24 DEF Copy
  <1>25. CASE CreateDb
    BY <1>25 DEF CreateDb
  <1>26. CASE UNCHANGED vars
    BY <1>26
  <1>. QED
    BY <1>1, <1>2, <1>3, <1>4, <1>5, <1>6, <1>7, <1>8, <1>9, <1>10, <1>11, <1>12,
       <1>13, <1>14, <1>15, <1>16, <1>17, <1>18, <1>19, <1>20, <1>21, <1>22,
       <1>23, <1>24, <1>25, <1>26
    DEF Next, Step, Packaging

\* The script, the daemons and the package keep their types.
THEOREM Typed == Spec => []TypeOK
  <1>1. Init => TypeOK
    BY Callers DEF Callers, Init, TypeOK, Place, Package, None, Daemon
  <1>. QED
    BY <1>1, TypeStep, PTL DEF Spec

-----------------------------------------------------------------------------

\* Every step keeps PidInv: jsvc starts a daemon only if the pid file names none
\* that lives, and prerm empties the file when it loses the daemons.
LEMMA PidStep == TypeOK /\ PidInv /\ [Next]_vars => PidInv'
  <1> SUFFICES ASSUME TypeOK, PidInv, [Next]_vars PROVE PidInv'
    OBVIOUS
  <1> USE Callers DEF Callers, None, Daemon, TypeOK, vars, shell, daemons, dir, package, history,
        Go, End, Enter, Busy, Running, Fresh, Born, PidInv
  <1>1. ASSUME NEW c \in Caller, Restart(c) PROVE PidInv'
    BY <1>1 DEF Restart
  <1>2. ASSUME NEW c \in Caller, Start(c) PROVE PidInv'
    BY <1>2 DEF Start
  <1>3. ASSUME NEW c \in Caller, StartTest(c) PROVE PidInv'
    BY <1>3 DEF StartTest
  <1>4. ASSUME NEW c \in Caller, RemoveTmp(c) PROVE PidInv'
    BY <1>4 DEF RemoveTmp
  <1>5. ASSUME NEW c \in Caller, MakeTmp(c) PROVE PidInv'
    BY <1>5 DEF MakeTmp
  <1>6. ASSUME NEW c \in Caller, EnterTmp(c) PROVE PidInv'
    BY <1>6 DEF EnterTmp
  <1>7. ASSUME NEW c \in Caller, Jsvc(c) PROVE PidInv'
    <2>1. ASSUME NEW d \in Fresh, ~Running, Born(c, d), UNCHANGED orphans PROVE PidInv'
      <3>1. alive \subseteq orphans /\ d \notin orphans
        BY <2>1
      <3>. QED
        BY <2>1, <3>1
    <2>2. CASE End(c) /\ UNCHANGED <<daemons, orphans>>
      BY <2>2
    <2>. QED
      BY <1>7, <2>1, <2>2 DEF Jsvc
  <1>8. ASSUME NEW c \in Caller, StopTest(c) PROVE PidInv'
    BY <1>8 DEF StopTest
  <1>9. ASSUME NEW c \in Caller, JsvcStop(c) PROVE PidInv'
    BY <1>9 DEF JsvcStop
  <1>10. ASSUME NEW c \in Caller, Stopped(c) PROVE PidInv'
    BY <1>10 DEF Stopped
  <1>11. ASSUME NEW c \in Caller, StopFailed(c) PROVE PidInv'
    BY <1>11 DEF StopFailed
  <1>12. ASSUME NEW c \in Caller, LeaveTmp(c) PROVE PidInv'
    BY <1>12 DEF LeaveTmp
  <1>13. ASSUME NEW c \in Caller, Kill(c) PROVE PidInv'
    BY <1>13 DEF Kill
  <1>14. ASSUME NEW c \in Caller, NEW place \in {"test", "stop", "restart"}, Call(c, place) PROVE PidInv'
    BY <1>14 DEF Call
  <1>15. ASSUME NEW d \in Daemon, Exit(d) PROVE PidInv'
    BY <1>15 DEF Exit, Gone
  <1>16. ASSUME NEW d \in Daemon, Crash(d) PROVE PidInv'
    BY <1>16 DEF Crash, Gone
  <1>17. CASE Prerm
    BY <1>17 DEF Prerm
  <1>18. CASE RemoveScript
    BY <1>18 DEF RemoveScript
  <1>19. CASE RemovePid
    BY <1>19 DEF RemovePid
  <1>20. CASE RemoveJar
    BY <1>20 DEF RemoveJar
  <1>21. CASE Unpack
    BY <1>21 DEF Unpack
  <1>22. CASE Configure
    BY <1>22 DEF Configure
  <1>23. CASE Chmod
    BY <1>23 DEF Chmod
  <1>24. CASE Copy
    BY <1>24 DEF Copy
  <1>25. CASE CreateDb
    BY <1>25 DEF CreateDb
  <1>26. CASE UNCHANGED vars
    BY <1>26
  <1>. QED
    BY <1>1, <1>2, <1>3, <1>4, <1>5, <1>6, <1>7, <1>8, <1>9, <1>10, <1>11, <1>12,
       <1>13, <1>14, <1>15, <1>16, <1>17, <1>18, <1>19, <1>20, <1>21, <1>22,
       <1>23, <1>24, <1>25, <1>26
    DEF Next, Step, Packaging

LEMMA PidAlways == Spec => []PidInv
  <1>1. Init => PidInv
    BY DEF Init, PidInv
  <1>. QED
    BY <1>1, PidStep, Typed, PTL DEF Spec

\* Of the daemons that prerm did not lose sight of at most one runs, however the
\* scripts interleave (OneDaemon).
THEOREM One == Spec => []OneDaemon
  <1>1. PidInv => OneDaemon
    BY DEF PidInv, OneDaemon
  <1>. QED
    BY <1>1, PidAlways, PTL

\* No run of the script stops a daemon that prerm has lost sight of
\* (OrphansStay).
THEOREM Orphans == Spec => OrphansStay
  <1>1. ASSUME TypeOK, PidInv, [Next]_vars
        PROVE  [\A d \in orphans : d \in told' => d \in told]_vars
    <2> SUFFICES ASSUME NEW d \in orphans, d \in told', d \notin told PROVE FALSE
      OBVIOUS
    <2>1. told' \subseteq told \/ \E c \in Caller : JsvcStop(c)
      BY <1>1 DEF Next, Step, Packaging, vars, shell, daemons, dir, package, history, Restart, Start, StartTest, RemoveTmp, MakeTmp,
         EnterTmp, Jsvc, Born, StopTest, Stopped, StopFailed, LeaveTmp, Kill, Call, Exit,
         Crash, Gone, Prerm, RemoveScript, RemovePid, RemoveJar, Unpack, Configure, Chmod,
         Copy, CreateDb
    <2>. QED
      BY <1>1, <2>1 DEF JsvcStop, Running, PidInv
  <1>. QED
    BY <1>1, Typed, PidAlways, PTL DEF Spec, OrphansStay

-----------------------------------------------------------------------------

\* Every step keeps BusyInv.
LEMMA BusyStep == TypeOK /\ BusyInv /\ [Next]_vars => BusyInv'
  <1> SUFFICES ASSUME TypeOK, BusyInv, [Next]_vars PROVE BusyInv'
    OBVIOUS
  <1> USE Callers DEF Callers, None, Daemon, TypeOK, vars, shell, daemons, dir, package, history,
        Go, End, Enter, Busy, Running, Fresh, Born, BusyInv
  <1>1. ASSUME NEW c \in Caller, Restart(c) PROVE BusyInv'
    BY <1>1 DEF Restart
  <1>2. ASSUME NEW c \in Caller, Start(c) PROVE BusyInv'
    BY <1>2 DEF Start
  <1>3. ASSUME NEW c \in Caller, StartTest(c) PROVE BusyInv'
    BY <1>3 DEF StartTest
  <1>4. ASSUME NEW c \in Caller, RemoveTmp(c) PROVE BusyInv'
    BY <1>4 DEF RemoveTmp
  <1>5. ASSUME NEW c \in Caller, MakeTmp(c) PROVE BusyInv'
    BY <1>5 DEF MakeTmp
  <1>6. ASSUME NEW c \in Caller, EnterTmp(c) PROVE BusyInv'
    BY <1>6 DEF EnterTmp
  <1>7. ASSUME NEW c \in Caller, Jsvc(c) PROVE BusyInv'
    BY <1>7 DEF Jsvc
  <1>8. ASSUME NEW c \in Caller, StopTest(c) PROVE BusyInv'
    BY <1>8 DEF StopTest
  <1>9. ASSUME NEW c \in Caller, JsvcStop(c) PROVE BusyInv'
    BY <1>9 DEF JsvcStop
  <1>10. ASSUME NEW c \in Caller, Stopped(c) PROVE BusyInv'
    BY <1>10 DEF Stopped
  <1>11. ASSUME NEW c \in Caller, StopFailed(c) PROVE BusyInv'
    BY <1>11 DEF StopFailed
  <1>12. ASSUME NEW c \in Caller, LeaveTmp(c) PROVE BusyInv'
    BY <1>12 DEF LeaveTmp
  <1>13. ASSUME NEW c \in Caller, Kill(c) PROVE BusyInv'
    BY <1>13 DEF Kill
  <1>14. ASSUME NEW c \in Caller, NEW place \in {"test", "stop", "restart"}, Call(c, place) PROVE BusyInv'
    BY <1>14 DEF Call
  <1>15. ASSUME NEW d \in Daemon, Exit(d) PROVE BusyInv'
    BY <1>15 DEF Exit, Gone
  <1>16. ASSUME NEW d \in Daemon, Crash(d) PROVE BusyInv'
    BY <1>16 DEF Crash, Gone
  <1>17. CASE Prerm
    BY <1>17 DEF Prerm
  <1>18. CASE RemoveScript
    BY <1>18 DEF RemoveScript
  <1>19. CASE RemovePid
    BY <1>19 DEF RemovePid
  <1>20. CASE RemoveJar
    BY <1>20 DEF RemoveJar
  <1>21. CASE Unpack
    BY <1>21 DEF Unpack
  <1>22. CASE Configure
    BY <1>22 DEF Configure
  <1>23. CASE Chmod
    BY <1>23 DEF Chmod
  <1>24. CASE Copy
    BY <1>24 DEF Copy
  <1>25. CASE CreateDb
    BY <1>25 DEF CreateDb
  <1>26. CASE UNCHANGED vars
    BY <1>26
  <1>. QED
    BY <1>1, <1>2, <1>3, <1>4, <1>5, <1>6, <1>7, <1>8, <1>9, <1>10, <1>11, <1>12,
       <1>13, <1>14, <1>15, <1>16, <1>17, <1>18, <1>19, <1>20, <1>21, <1>22,
       <1>23, <1>24, <1>25, <1>26
    DEF Next, Step, Packaging

\* Every step keeps HomeInv: a shell that removes the directory, or is about to,
\* beside another one is disturbed, and with it what the other one starts.
LEMMA HomeStep == TypeOK /\ PidInv /\ BusyInv /\ HomeInv /\ [Next]_vars => HomeInv'
  <1> SUFFICES ASSUME TypeOK, PidInv, BusyInv, HomeInv, [Next]_vars PROVE HomeInv'
    OBVIOUS
  <1> USE Callers DEF Callers, None, Daemon, TypeOK, vars, shell, daemons, dir, package, history,
        Go, End, Enter, Busy, Running, Fresh, Born, PidInv, BusyInv, HomeInv, Housed
  <1>end. ASSUME NEW c \in Caller, End(c), UNCHANGED <<alive, orphans>> PROVE HomeInv'
    <2>0. c \notin alive
      BY Apart
    <2>1. \A d \in alive : (d \in disturbed' <=> d \in disturbed) /\ (d \in home' <=> d \in home)
      BY <1>end, <2>0
    <2>2. /\ pc'[c] = "idle"
          /\ \A b \in Caller \ {c} :
                /\ pc'[b] = pc[b] /\ target'[b] = target[b]
                /\ b \in disturbed' <=> b \in disturbed
                /\ b \in home' <=> b \in home
      BY <1>end
    <2>. QED
      BY <1>end, <2>1, <2>2
  <1>go. ASSUME NEW c \in Caller, NEW p, p \notin {"clear", "leave", "wait", "jsvc"}, Go(c, p),
                UNCHANGED <<alive, orphans, target, disturbed, home>>
         PROVE  HomeInv'
    <2>1. pc'[c] = p /\ \A b \in Caller \ {c} : pc'[b] = pc[b]
      BY <1>go
    <2>. QED
      BY <1>go, <2>1
  <1>1. ASSUME NEW c \in Caller, Restart(c) PROVE HomeInv'
    <2>1. CASE End(c)
      BY <1>1, <1>end, <2>1 DEF Restart
    <2>2. CASE ~End(c)
      BY <1>1, <1>go, <2>2 DEF Restart
    <2>. QED
      BY <2>1, <2>2
  <1>2. ASSUME NEW c \in Caller, Start(c) PROVE HomeInv'
    <2>1. CASE End(c)
      BY <1>2, <1>end, <2>1 DEF Start
    <2>2. CASE ~End(c)
      BY <1>2, <1>go, <2>2 DEF Start
    <2>. QED
      BY <2>1, <2>2
  <1>3. ASSUME NEW c \in Caller, StartTest(c) PROVE HomeInv'
    <2>1. CASE Running
      BY <1>3, <1>end, <2>1 DEF StartTest
    <2>2. CASE ~Running
      <3>1. alive \subseteq orphans
        BY <2>2
      <3>2. pc'[c] = "clear" /\ \A b \in Caller \ {c} : pc'[b] = pc[b]
        BY <1>3, <2>2 DEF StartTest
      <3>. QED
        BY <1>3, <2>2, <3>1, <3>2 DEF StartTest
    <2>. QED
      BY <2>1, <2>2
  <1>4. ASSUME NEW c \in Caller, RemoveTmp(c) PROVE HomeInv'
    BY <1>4 DEF RemoveTmp
  <1>5. ASSUME NEW c \in Caller, MakeTmp(c) PROVE HomeInv'
    <2>1. CASE End(c)
      BY <1>5, <1>end, <2>1 DEF MakeTmp
    <2>2. CASE ~End(c)
      BY <1>5, <1>go, <2>2 DEF MakeTmp
    <2>. QED
      BY <2>1, <2>2
  <1>6. ASSUME NEW c \in Caller, EnterTmp(c) PROVE HomeInv'
    <2>1. CASE tmp
      <3>1. pc'[c] = "jsvc" /\ \A b \in Caller \ {c} : pc'[b] = pc[b]
        BY <1>6, <2>1 DEF EnterTmp
      <3>. QED
        BY <1>6, <2>1, <3>1 DEF EnterTmp
    <2>2. CASE ~tmp
      BY <1>6, <1>end, <2>2 DEF EnterTmp
    <2>. QED
      BY <2>1, <2>2
  <1>7. ASSUME NEW c \in Caller, Jsvc(c) PROVE HomeInv'
    <2>1. ASSUME NEW d \in Fresh, ~Running, Born(c, d), UNCHANGED orphans PROVE HomeInv'
      <3>1. alive \subseteq orphans /\ d \notin alive /\ d \notin Caller
        BY <2>1
      <3>2. /\ pc'[c] = "idle"
            /\ \A b \in Caller \ {c} :
                  /\ pc'[b] = pc[b] /\ target'[b] = target[b]
                  /\ b \in disturbed' <=> b \in disturbed
                  /\ b \in home' <=> b \in home
        BY <2>1, <3>1
      <3>3. c \in disturbed => d \in disturbed'
        BY <2>1
      <3>4. c \notin disturbed => d \in home' /\ \A b \in Caller \ {c} : pc[b] = "idle"
        BY <1>7, <2>1 DEF Jsvc
      <3>5. alive' = alive \union {d} /\ disturbed \ {c} \subseteq disturbed'
        BY <2>1
      <3>6. CASE c \in disturbed
        <4>1. alive' \subseteq orphans' \union disturbed'
          BY <2>1, <3>1, <3>3, <3>5, <3>6
        <4>. QED
          BY <3>2, <4>1
      <3>7. CASE c \notin disturbed
        <4>1. alive' \ (orphans' \union disturbed') \subseteq home'
          BY <2>1, <3>1, <3>4, <3>5, <3>7
        <4>. QED
          BY <3>2, <3>4, <3>7, <4>1
      <3>. QED
        BY <3>6, <3>7
    <2>2. CASE End(c) /\ UNCHANGED <<daemons, orphans>>
      BY <1>end, <2>2
    <2>. QED
      BY <1>7, <2>1, <2>2 DEF Jsvc
  <1>8. ASSUME NEW c \in Caller, StopTest(c) PROVE HomeInv'
    BY <1>8 DEF StopTest
  <1>9. ASSUME NEW c \in Caller, JsvcStop(c) PROVE HomeInv'
    <2>1. CASE Running
      <3>1. /\ pc'[c] = "wait" /\ target'[c] = pidfile
            /\ \A b \in Caller \ {c} : pc'[b] = pc[b] /\ target'[b] = target[b]
        BY <1>9, <2>1 DEF JsvcStop
      <3>2. UNCHANGED <<alive, orphans, home, disturbed>>
        BY <1>9, <2>1 DEF JsvcStop
      <3>. QED
        BY <3>1, <3>2
    <2>2. CASE ~Running
      BY <1>9, <1>end, <2>2 DEF JsvcStop
    <2>. QED
      BY <2>1, <2>2
  <1>10. ASSUME NEW c \in Caller, Stopped(c) PROVE HomeInv'
    BY <1>10 DEF Stopped
  <1>11. ASSUME NEW c \in Caller, StopFailed(c) PROVE HomeInv'
    BY <1>11, <1>end DEF StopFailed
  <1>12. ASSUME NEW c \in Caller, LeaveTmp(c) PROVE HomeInv'
    <2>1. alive \subseteq orphans \union disturbed
      BY <1>12 DEF LeaveTmp
    <2>0. c \notin alive
      BY Apart
    <2>2. \A d \in alive : d \in disturbed' <=> d \in disturbed
      BY <1>12, <2>0 DEF LeaveTmp
    <2>3. /\ pc'[c] \in {"start", "idle"}
          /\ \A b \in Caller \ {c} : pc'[b] = pc[b] /\ (b \in disturbed' <=> b \in disturbed)
      BY <1>12 DEF LeaveTmp
    <2>4. \A b \in Caller \ {c} : pc[b] # "idle" => b \in disturbed
      BY <1>12 DEF LeaveTmp
    <2>5. UNCHANGED <<alive, orphans, target>>
      BY <1>12 DEF LeaveTmp
    <2>. QED
      BY <2>1, <2>2, <2>3, <2>4, <2>5
  <1>13. ASSUME NEW c \in Caller, Kill(c) PROVE HomeInv'
    BY <1>13, <1>end DEF Kill
  <1>14. ASSUME NEW c \in Caller, NEW place \in {"test", "stop", "restart"}, Call(c, place) PROVE HomeInv'
    BY <1>14 DEF Call
  <1>15. ASSUME NEW d \in Daemon, Exit(d) PROVE HomeInv'
    BY <1>15 DEF Exit, Gone
  <1>16. ASSUME NEW d \in Daemon, Crash(d) PROVE HomeInv'
    BY <1>16 DEF Crash, Gone
  <1>17. CASE Prerm
    BY <1>17 DEF Prerm
  <1>18. CASE RemoveScript
    BY <1>18 DEF RemoveScript
  <1>19. CASE RemovePid
    BY <1>19 DEF RemovePid
  <1>20. CASE RemoveJar
    BY <1>20 DEF RemoveJar
  <1>21. CASE Unpack
    BY <1>21 DEF Unpack
  <1>22. CASE Configure
    BY <1>22 DEF Configure
  <1>23. CASE Chmod
    BY <1>23 DEF Chmod
  <1>24. CASE Copy
    BY <1>24 DEF Copy
  <1>25. CASE CreateDb
    BY <1>25 DEF CreateDb
  <1>26. CASE UNCHANGED vars
    BY <1>26
  <1>. QED
    BY <1>1, <1>2, <1>3, <1>4, <1>5, <1>6, <1>7, <1>8, <1>9, <1>10, <1>11, <1>12,
       <1>13, <1>14, <1>15, <1>16, <1>17, <1>18, <1>19, <1>20, <1>21, <1>22,
       <1>23, <1>24, <1>25, <1>26
    DEF Next, Step, Packaging

\* A daemon that was started by a run of the script which no other overlapped keeps
\* its working directory until prerm loses sight of it (Housed).
THEOREM Home == Spec => []Housed
  <1>1. Init => BusyInv /\ HomeInv
    BY DEF Init, BusyInv, HomeInv, Housed
  <1>2. HomeInv => Housed
    BY DEF HomeInv
  <1>. QED
    BY <1>1, <1>2, BusyStep, HomeStep, Typed, PidAlways, PTL DEF Spec

-----------------------------------------------------------------------------

\* Every step keeps PackageInv.
LEMMA PackageStep == TypeOK /\ PackageInv /\ [Next]_vars => PackageInv'
  <1> SUFFICES ASSUME TypeOK, PackageInv, [Next]_vars PROVE PackageInv'
    OBVIOUS
  <1> USE DEF PackageInv, vars, shell, daemons, dir, package, history
  <1>1. ASSUME NEW c \in Caller, Restart(c) PROVE PackageInv'
    BY <1>1 DEF Restart
  <1>2. ASSUME NEW c \in Caller, Start(c) PROVE PackageInv'
    BY <1>2 DEF Start
  <1>3. ASSUME NEW c \in Caller, StartTest(c) PROVE PackageInv'
    BY <1>3 DEF StartTest
  <1>4. ASSUME NEW c \in Caller, RemoveTmp(c) PROVE PackageInv'
    BY <1>4 DEF RemoveTmp
  <1>5. ASSUME NEW c \in Caller, MakeTmp(c) PROVE PackageInv'
    BY <1>5 DEF MakeTmp
  <1>6. ASSUME NEW c \in Caller, EnterTmp(c) PROVE PackageInv'
    BY <1>6 DEF EnterTmp
  <1>7. ASSUME NEW c \in Caller, Jsvc(c) PROVE PackageInv'
    BY <1>7 DEF Jsvc
  <1>8. ASSUME NEW c \in Caller, StopTest(c) PROVE PackageInv'
    BY <1>8 DEF StopTest
  <1>9. ASSUME NEW c \in Caller, JsvcStop(c) PROVE PackageInv'
    BY <1>9 DEF JsvcStop
  <1>10. ASSUME NEW c \in Caller, Stopped(c) PROVE PackageInv'
    BY <1>10 DEF Stopped
  <1>11. ASSUME NEW c \in Caller, StopFailed(c) PROVE PackageInv'
    BY <1>11 DEF StopFailed
  <1>12. ASSUME NEW c \in Caller, LeaveTmp(c) PROVE PackageInv'
    BY <1>12 DEF LeaveTmp
  <1>13. ASSUME NEW c \in Caller, Kill(c) PROVE PackageInv'
    BY <1>13 DEF Kill
  <1>14. ASSUME NEW c \in Caller, NEW place \in {"test", "stop", "restart"}, Call(c, place) PROVE PackageInv'
    BY <1>14 DEF Call
  <1>15. ASSUME NEW d \in Daemon, Exit(d) PROVE PackageInv'
    BY <1>15 DEF Exit, Gone
  <1>16. ASSUME NEW d \in Daemon, Crash(d) PROVE PackageInv'
    BY <1>16 DEF Crash, Gone
  <1>17. CASE Prerm
    BY <1>17 DEF Prerm
  <1>18. CASE RemoveScript
    BY <1>18 DEF RemoveScript
  <1>19. CASE RemovePid
    BY <1>19 DEF RemovePid
  <1>20. CASE RemoveJar
    BY <1>20 DEF RemoveJar
  <1>21. CASE Unpack
    BY <1>21 DEF Unpack
  <1>22. CASE Configure
    BY <1>22 DEF Configure
  <1>23. CASE Chmod
    BY <1>23 DEF Chmod
  <1>24. CASE Copy
    BY <1>24 DEF Copy
  <1>25. CASE CreateDb
    BY <1>25 DEF CreateDb
  <1>26. CASE UNCHANGED vars
    BY <1>26
  <1>. QED
    BY <1>1, <1>2, <1>3, <1>4, <1>5, <1>6, <1>7, <1>8, <1>9, <1>10, <1>11, <1>12,
       <1>13, <1>14, <1>15, <1>16, <1>17, <1>18, <1>19, <1>20, <1>21, <1>22,
       <1>23, <1>24, <1>25, <1>26
    DEF Next, Step, Packaging

\* Whatever upgrades were aborted and whatever configurations failed: a package
\* that dpkg calls installed has its script, its jar and its database
\* (InstalledIsUsable).
THEOREM Usable == Spec => []InstalledIsUsable
  <1>1. Init => PackageInv
    BY DEF Init, PackageInv
  <1>2. PackageInv => InstalledIsUsable
    BY DEF PackageInv, InstalledIsUsable
  <1>. QED
    BY <1>1, <1>2, PackageStep, Typed, PTL DEF Spec

=============================================================================
