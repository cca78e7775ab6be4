---------------------------- MODULE ProcessDaemon ----------------------------
(***************************************************************************)
(* The processing daemon (d1-processing) of one coordinating node: its     *)
(* init script, which several people, cron and dpkg may run at the same    *)
(* time, the package scripts that stop it and take its files away, and the *)
(* daemons themselves, which the script knows by their pid file only.      *)
(* The two daemons of dataone-cn-index have the same init script.          *)
(*                                                                         *)
(* jsvc and dpkg are external: jsvc looks at the pid file, and writes it,  *)
(* under a lock; dpkg runs prerm, unpacks and runs postinst, and calls the *)
(* old postinst if the unpacking fails.  A pid is not given to another     *)
(* process while anything refers to it.                                    *)
(***************************************************************************)
EXTENDS Naturals, FiniteSets

CONSTANTS
    Caller,      \* the shells that may run the init script
    Dpkg,        \* the one dpkg, and with it prerm, runs in
    MaxDaemons   \* bound: daemons alive at once

ASSUME Callers ==
    /\ Dpkg \in Caller
    /\ MaxDaemons \in Nat \ {0}
    /\ Caller \intersect 0 .. MaxDaemons = {}

Daemon == 1 .. MaxDaemons
None   == 0

VARIABLES
    pc,          \* where each caller is in the init script
    restarting,  \* the callers whose stop is part of a restart
    target,      \* the daemon a caller waits for in jsvc -stop
    alive,       \* the daemons that run
    told,        \* those that got a SIGTERM
    pidfile,     \* /var/run/d1-processing.pid
    tmp,         \* is there a directory JVM_TMP?
    home,        \* the processes whose working directory it is
    pkg,         \* where dpkg is with the package
    script,      \* is /etc/init.d/d1-processing there?
    jar,         \* is d1_process_daemon.jar there?
    db,          \* is there a database d1-replication-history?
    orphans,     \* history: the daemons prerm took the pid file from
    disturbed    \* history: callers whose run another one overlapped, and
                 \* the daemons such callers started

shell   == <<pc, restarting, target>>
daemons == <<alive, told, pidfile>>
dir     == <<tmp, home>>
package == <<pkg, script, jar, db>>
history == <<orphans, disturbed>>
vars    == <<shell, daemons, dir, package, history>>

Place   == {"idle", "restart", "start", "test", "clear", "make", "enter", "jsvc",
            "stop", "kill", "wait", "leave"}
Package == {"installed", "failed", "prerm", "pid", "jar", "unpack", "postinst",
            "copy", "createdb"}

TypeOK ==
    /\ pc \in [Caller -> Place]
    /\ restarting \subseteq Caller
    /\ target \in [Caller -> Daemon \union {None}]
    /\ alive \subseteq Daemon /\ told \subseteq alive
    /\ pidfile \in Daemon \union {None}
    /\ tmp \in BOOLEAN /\ home \subseteq Caller \union alive
    /\ pkg \in Package /\ script \in BOOLEAN /\ jar \in BOOLEAN /\ db \in BOOLEAN
    /\ orphans \subseteq alive
    /\ disturbed \subseteq Caller \union alive

Init ==
    /\ pc = [c \in Caller |-> "idle"] /\ restarting = {}
    /\ target = [c \in Caller |-> None]
    /\ alive = {} /\ told = {} /\ pidfile = None
    /\ tmp = FALSE /\ home = {}
    /\ pkg = "installed" /\ script = TRUE /\ jar = TRUE /\ db = TRUE
    /\ orphans = {} /\ disturbed = {}

-----------------------------------------------------------------------------
(* The init script.                                                        *)

\* What start-stop-daemon --test finds out.
Running == pidfile \in alive

Go(c, place) == pc' = [pc EXCEPT ![c] = place]

\* The script of c is over.
End(c) ==
    /\ Go(c, "idle")
    /\ restarting' = restarting \ {c}
    /\ target' = [target EXCEPT ![c] = None]
    /\ home' = home \ {c}
    /\ disturbed' = disturbed \ {c}

Busy == {c \in Caller : pc[c] # "idle"}

\* c starts to run the script at a place, beside those that run it already.
Enter(c, place) ==
    /\ Go(c, place)
    /\ disturbed' = IF Busy = {} THEN disturbed ELSE disturbed \union Busy \union {c}

\* Somebody, cron or init runs the script, from the place where start, stop or
\* restart begins; it ends at once without the jar.
\* dpkg's shell may do so between upgrades.
Call(c, place) ==
    /\ pc[c] = "idle"
    /\ c = Dpkg => pkg \in {"installed", "failed"}
    /\ script /\ jar
    /\ Enter(c, place)
    /\ UNCHANGED <<restarting, target, daemons, dir, package, orphans>>

\* "restart" runs the script twice more; a stop that fails ends it.
Restart(c) ==
    /\ pc[c] = "restart"
    /\ \/ /\ Running /\ script /\ jar
          /\ Go(c, "stop") /\ restarting' = restarting \union {c}
          /\ UNCHANGED <<target, home, disturbed>>
       \/ Running /\ ~(script /\ jar) /\ End(c)
       \/ ~Running /\ Go(c, "start") /\ UNCHANGED <<restarting, target, home, disturbed>>
    /\ UNCHANGED <<daemons, tmp, package, orphans>>

\* The start of a restart, which needs the script and the jar once more.
Start(c) ==
    /\ pc[c] = "start"
    /\ IF script /\ jar THEN Go(c, "test") /\ UNCHANGED <<restarting, target, home, disturbed>>
                        ELSE End(c)
    /\ UNCHANGED <<daemons, tmp, package, orphans>>

\* "(already running)", or on to the start.
StartTest(c) ==
    /\ pc[c] = "test"
    /\ IF Running THEN End(c)
                  ELSE Go(c, "clear") /\ UNCHANGED <<restarting, target, home, disturbed>>
    /\ UNCHANGED <<daemons, tmp, package, orphans>>

RemoveTmp(c) ==
    /\ pc[c] = "clear"
    /\ tmp' = FALSE /\ home' = {}
    /\ Go(c, "make")
    /\ UNCHANGED <<restarting, target, daemons, package, history>>

\* mkdir fails if another start made the directory meanwhile.
MakeTmp(c) ==
    /\ pc[c] = "make"
    /\ IF tmp THEN End(c) ELSE Go(c, "enter") /\ UNCHANGED <<restarting, target, home, disturbed>>
    /\ tmp' = TRUE
    /\ UNCHANGED <<daemons, package, orphans>>

\* chown and cd fail if another run removed it.
EnterTmp(c) ==
    /\ pc[c] = "enter"
    /\ IF tmp THEN Go(c, "jsvc") /\ home' = home \union {c} /\ UNCHANGED <<restarting, target, disturbed>>
              ELSE End(c)
    /\ UNCHANGED <<daemons, tmp, package, orphans>>

\* The pids a new daemon may get.
Fresh == Daemon \ (alive \union {target[c] : c \in Caller})

\* A daemon d is born to c: it has its pid in the file, c's working directory,
\* and what disturbed c disturbed it.
Born(c, d) ==
    /\ alive' = alive \union {d} /\ pidfile' = d
    /\ home' = (home \ {c}) \union (IF c \in home THEN {d} ELSE {})
    /\ disturbed' = (disturbed \ {c}) \union (IF c \in disturbed THEN {d} ELSE {})
    /\ Go(c, "idle") /\ restarting' = restarting \ {c}
    /\ target' = [target EXCEPT ![c] = None]
    /\ UNCHANGED told

\* Faulty variant of Jsvc: the pid file is not looked at again.
JsvcTrustsTest(c) ==
    /\ pc[c] = "jsvc"
    /\ \/ \E d \in Fresh : jar /\ Born(c, d)
       \/ End(c) /\ UNCHANGED daemons
    /\ UNCHANGED <<tmp, package, orphans>>

\* jsvc does not start a second daemon beside the one in the pid file; it
\* fails without its classes, and may fail anyway.  What the script does
\* afterwards (lines 119 to 126) says only whether there is a daemon.
Jsvc(c) ==
    /\ pc[c] = "jsvc"
    /\ \/ \E d \in Fresh : ~Running /\ jar /\ Born(c, d)
       \/ End(c) /\ UNCHANGED daemons
    /\ UNCHANGED <<tmp, package, orphans>>

StopTest(c) ==
    /\ pc[c] = "stop"
    /\ Go(c, IF Running THEN "kill" ELSE "leave")
    /\ UNCHANGED <<restarting, target, daemons, dir, package, history>>

\* jsvc -stop fails if the daemon is gone in the meantime.
JsvcStop(c) ==
    /\ pc[c] = "kill"
    /\ IF Running
       THEN /\ told' = told \union {pidfile}
            /\ target' = [target EXCEPT ![c] = pidfile]
            /\ Go(c, "wait")
            /\ UNCHANGED <<restarting, home, disturbed>>
       ELSE End(c) /\ UNCHANGED told
    /\ UNCHANGED <<alive, pidfile, tmp, package, orphans>>

Stopped(c) ==
    /\ pc[c] = "wait"
    /\ target[c] \notin alive
    /\ Go(c, "leave") /\ target' = [target EXCEPT ![c] = None]
    /\ UNCHANGED <<restarting, daemons, dir, package, history>>

\* Faulty variant of StopFailed: what fails does not end the script.
StopFailureIgnored(c) ==
    /\ pc[c] = "wait"
    /\ Go(c, "leave") /\ target' = [target EXCEPT ![c] = None]
    /\ UNCHANGED <<restarting, daemons, dir, package, history>>

\* Faulty variant of StopFailed: jsvc -stop waits as long as it takes.
StopNeverFails(c) ==
    /\ pc[c] = "wait"
    /\ target[c] \notin alive
    /\ End(c)
    /\ UNCHANGED <<daemons, tmp, package, orphans>>

\* jsvc -stop waits for a limited time; then "set -e" ends the script.
StopFailed(c) ==
    /\ pc[c] = "wait"
    /\ End(c)
    /\ UNCHANGED <<daemons, tmp, package, orphans>>

LeaveTmp(c) ==
    /\ pc[c] = "leave"
    /\ tmp' = FALSE /\ home' = {}
    /\ restarting' = restarting \ {c}
    /\ Go(c, IF c \in restarting THEN "start" ELSE "idle")
    /\ disturbed' = IF c \in restarting THEN disturbed ELSE disturbed \ {c}
    /\ UNCHANGED <<target, daemons, package, orphans>>

Kill(c) ==
    /\ pc[c] # "idle"
    /\ End(c)
    /\ UNCHANGED <<daemons, tmp, package, orphans>>

-----------------------------------------------------------------------------
(* The daemons.                                                            *)

Gone(d) ==
    /\ alive' = alive \ {d} /\ told' = told \ {d} /\ home' = home \ {d}
    /\ orphans' = orphans \ {d} /\ disturbed' = disturbed \ {d}
    /\ UNCHANGED <<shell, tmp, package>>

\* A daemon that was told to stop removes the pid file if it is its own.
Exit(d) ==
    /\ d \in told
    /\ Gone(d)
    /\ pidfile' = IF pidfile = d THEN None ELSE pidfile

Crash(d) == d \in alive /\ Gone(d) /\ UNCHANGED pidfile

-----------------------------------------------------------------------------
(* The package.                                                            *)

\* prerm begins with the init script's stop, if that can be run.
Prerm ==
    /\ pkg \in {"installed", "failed"} /\ pc[Dpkg] = "idle"
    /\ pkg' = "prerm"
    /\ IF script /\ jar THEN Enter(Dpkg, "stop") ELSE UNCHANGED <<pc, disturbed>>
    /\ UNCHANGED <<restarting, target, daemons, dir, script, jar, db, orphans>>

\* Whether the stop succeeded is not looked at.
RemoveScript ==
    /\ pkg = "prerm" /\ pc[Dpkg] = "idle"
    /\ script' = FALSE /\ pkg' = "pid"
    /\ UNCHANGED <<shell, daemons, dir, jar, db, history>>

\* Faulty variant of RemovePid: a daemon that lives keeps its pid file.
RemovePidOfDead ==
    /\ pkg = "pid"
    /\ pidfile' = IF Running THEN pidfile ELSE None
    /\ orphans' = alive /\ pkg' = "jar"
    /\ UNCHANGED <<shell, alive, told, dir, script, jar, db, disturbed>>

RemovePid ==
    /\ pkg = "pid"
    /\ pidfile' = None /\ orphans' = alive /\ pkg' = "jar"
    /\ UNCHANGED <<shell, alive, told, dir, script, jar, db, disturbed>>

\* postgres does not drop a database somebody is connected to.
RemoveJar ==
    /\ pkg = "jar"
    /\ jar' = FALSE /\ pkg' = "unpack"
    /\ db' \in IF alive = {} THEN {FALSE} ELSE {FALSE, db}
    /\ UNCHANGED <<shell, daemons, dir, script, history>>

\* The new files arrive, or the upgrade is aborted; both run postinst.
Unpack ==
    /\ pkg = "unpack"
    /\ script' \in BOOLEAN /\ pkg' = "postinst"
    /\ UNCHANGED <<shell, daemons, dir, jar, db, history>>

\* dpkg --configure of a package whose postinst failed.
Configure ==
    /\ pkg = "failed"
    /\ pkg' = "postinst"
    /\ UNCHANGED <<shell, daemons, dir, script, jar, db, history>>

\* Faulty variant of Chmod: an error is logged, and the script goes on.
ChmodNonfatal ==
    /\ pkg = "postinst"
    /\ pkg' \in {"copy", "failed"}
    /\ UNCHANGED <<shell, daemons, dir, script, jar, db, history>>

\* postinst does the same whatever its arguments; chmod needs the init script.
Chmod ==
    /\ pkg = "postinst"
    /\ pkg' \in IF script THEN {"copy", "failed"} ELSE {"failed"}
    /\ UNCHANGED <<shell, daemons, dir, script, jar, db, history>>

\* The property files and the jar.
Copy ==
    /\ pkg = "copy"
    /\ \/ pkg' = "createdb" /\ jar' = TRUE
       \/ pkg' = "failed" /\ UNCHANGED jar
    /\ UNCHANGED <<shell, daemons, dir, script, db, history>>

\* The daemon is not started.
CreateDb ==
    /\ pkg = "createdb"
    /\ \/ pkg' = "installed" /\ db' = TRUE
       \/ pkg' = "failed" /\ db' \in {db, TRUE}
    /\ UNCHANGED <<shell, daemons, dir, script, jar, history>>

-----------------------------------------------------------------------------

Step(c) ==
    \/ Restart(c) \/ Start(c) \/ StartTest(c) \/ RemoveTmp(c) \/ MakeTmp(c)
    \/ EnterTmp(c) \/ Jsvc(c) \/ StopTest(c) \/ JsvcStop(c) \/ Stopped(c)
    \/ StopFailed(c) \/ LeaveTmp(c)

Packaging ==
    \/ Prerm \/ RemoveScript \/ RemovePid \/ RemoveJar \/ Unpack \/ Configure
    \/ Chmod \/ Copy \/ CreateDb

Next ==
    \/ \E c \in Caller : Step(c) \/ Kill(c)
    \/ \E c \in Caller, place \in {"test", "stop", "restart"} : Call(c, place)
    \/ \E d \in Daemon : Exit(d) \/ Crash(d)
    \/ Packaging

\* A shell goes on with its script; a daemon need not stop when told to, and
\* nobody has to run anything.
Spec == Init /\ [][Next]_vars /\ \A c \in Caller : WF_vars(Step(c))

-----------------------------------------------------------------------------
(* Properties.                                                             *)

\* However many starts, stops and restarts run at once: two daemons never run
\* beside each other, except those whose pid file prerm took away (prerm, line
\* 18).
OneDaemon == \A d, e \in alive \ orphans : d = e

\* A daemon keeps its working directory, also when a stop has failed or is
\* waiting, unless runs of the script overlapped when it was started (lines
\* 105 and 146 remove the directory) or prerm took its pid file away.
Housed == alive \ (orphans \union disturbed) \subseteq home

\* A daemon whose pid file prerm took away is never stopped by the script
\* again.
OrphansStay == [][\A d \in orphans : d \in told' => d \in told]_vars

\* dpkg calls the package installed only if the daemon can be started and has
\* its database, also after an upgrade that was aborted or failed halfway.
InstalledIsUsable == pkg = "installed" => script /\ jar /\ db

\* Every run of the script ends, also when the daemon does not.
Terminates == \A c \in Caller : pc[c] # "idle" ~> pc[c] = "idle"

=============================================================================
