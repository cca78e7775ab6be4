------------------------------ MODULE Zookeeper ------------------------------
(***************************************************************************)
(* The zookeeper of one coordinating node: the scripts of dataone-zookeeper*)
(* that turn cn.iplist into zoo.cfg and the server number, and the postinst*)
(* of dataone-event-index, which configures the same zookeeper once more.  *)
(* dpkg runs one of them at a time, so the list does not change under a    *)
(* script; a script may be killed at any step, and an upgrade aborted.     *)
(***************************************************************************)
EXTENDS Naturals, Sequences

CONSTANTS
    Lists,     \* the values of cn.iplist, sequences of addresses
    Owns,      \* what "hostname --all-ip-addresses" may say on this machine
    Part       \* <<a, b>>: the text of address a occurs in the text of b

Address == UNION {{l[n] : n \in DOMAIN l} : l \in Lists \union Owns}

\* An array entry that is not there.
Empty == ""

Place == 1 .. 3

\* What zoo.cfg may be besides the ensemble of a list: missing, just moved away
\* by the script that runs, as the package ships it (one server alone), or the
\* template with its tokens.
None     == <<"none">>
Moved    == <<"moved">>
Shipped  == <<"shipped">>
Template == <<"template">>
NoList   == {None, Moved, Shipped, Template}

ASSUME Addresses ==
    /\ \A l \in Lists \union Owns : l \in Seq(Address)
    /\ Part \subseteq Address \X Address
    /\ \A x \in Address : <<x, x>> \in Part
    /\ Empty \notin Address
    /\ Lists \intersect NoList = {}

VARIABLES
    iplist,   \* debconf: cn.iplist
    own,      \* the addresses of the machine
    by,       \* whose script runs: "zk", "ei", or "no"
    step,     \* its next step
    zk,       \* dpkg: dataone-zookeeper is "unpacked", "installed" or "failed"
    ei,       \* dpkg: dataone-event-index is "absent", "installed" or "failed"
    conf,     \* /var/lib/zookeeper/conf/zoo.cfg
    myid,     \* /var/lib/zookeeper/data/myid, 0 if there is none
    proc,     \* the server is "up", "stopping" (told to, but alive) or "down"
    runs      \* <<conf, myid>> as the server read them

vars == <<iplist, own, by, step, zk, ei, conf, myid, proc, runs>>

TypeOK ==
    /\ iplist \in Lists /\ own \in Owns
    /\ by \in {"zk", "ei", "no"}
    /\ step \in {"none", "prerm", "rm", "unpack", "stop", "mv", "cp", "sed", "myid", "start"}
    /\ by = "no" <=> step = "none"
    /\ zk \in {"unpacked", "installed", "failed"}
    /\ ei \in {"absent", "installed", "failed"}
    /\ conf \in Lists \union NoList
    /\ conf = Moved => step \in {"cp", "sed", "myid", "start"}
    /\ myid \in 0 .. 3
    /\ proc \in {"up", "stopping", "down"}
    /\ runs \in (Lists \union NoList) \X (0 .. 3)

Init ==
    /\ iplist \in Lists /\ own \in Owns
    /\ by = "no" /\ step = "none"
    /\ zk = "unpacked" /\ ei = "absent"
    /\ conf = Shipped /\ myid = 0
    /\ proc = "down" /\ runs = <<Shipped, 0>>

-----------------------------------------------------------------------------
(* What the scripts make of the list.                                      *)

\* SERVER_1, SERVER_2 and SERVER_3.
Server(n) == IF n \in DOMAIN iplist THEN iplist[n] ELSE Empty

\* LOCAL_IP: the last address of the machine whose text occurs in the list; no
\* element if there is none and the variable is not set.
InList(address) == \E n \in DOMAIN iplist : <<address, iplist[n]>> \in Part
LocalIP ==
    {own[n] : n \in {n \in DOMAIN own :
                        /\ InList(own[n])
                        /\ \A m \in DOMAIN own : InList(own[m]) => m <= n}}

\* Faulty variant of MyIds: an address need only occur in the entry.
MyIdsBySubstring ==
    {n \in Place \intersect DOMAIN iplist : \E x \in LocalIP : <<x, Server(n)>> \in Part}

\* The entries LOCAL_IP is equal to; if it is not set, the empty ones.
MyIds == {n \in Place : IF LocalIP = {} THEN Server(n) = Empty ELSE Server(n) \in LocalIP}

-----------------------------------------------------------------------------
(* The scripts.                                                            *)

At(who, where) == by \in who /\ step = where

Go(where) == step' = where /\ UNCHANGED by
Leave == by' = "no" /\ step' = "none"

\* dpkg begins to run a package's postinst.
Postinst(who) ==
    /\ step = "none"
    /\ \/ who = "zk" /\ zk \in {"unpacked", "failed"}
       \/ who = "ei" /\ zk = "installed"
    /\ by' = who /\ step' = "stop"
    /\ UNCHANGED <<iplist, own, zk, ei, conf, myid, proc, runs>>

\* Faulty variant of Stop: the old server runs on.
StopForgotten ==
    /\ At({"zk", "ei"}, "stop")
    /\ Go("mv")
    /\ UNCHANGED <<iplist, own, zk, ei, conf, myid, proc, runs>>

\* The init script sends a signal and does not wait.
Stop ==
    /\ At({"zk", "ei"}, "stop")
    /\ proc' = IF proc = "up" THEN "stopping" ELSE proc
    /\ Go("mv")
    /\ UNCHANGED <<iplist, own, zk, ei, conf, myid, runs>>

\* Faulty variant of Move: its failure is ignored in either script.
MoveNonfatal ==
    /\ At({"zk", "ei"}, "mv")
    /\ conf' = IF conf = None THEN None ELSE Moved
    /\ Go("cp")
    /\ UNCHANGED <<iplist, own, zk, ei, myid, proc, runs>>

\* Without a zoo.cfg mv fails: "set -e" ends the postinst of dataone-zookeeper;
\* the other one goes on.
Move ==
    /\ At({"zk", "ei"}, "mv")
    /\ \/ conf # None /\ conf' = Moved /\ Go("cp") /\ UNCHANGED zk
       \/ conf = None /\ by = "ei" /\ Go("cp") /\ UNCHANGED <<zk, conf>>
       \/ conf = None /\ by = "zk" /\ Leave /\ zk' = "failed" /\ UNCHANGED conf
    /\ UNCHANGED <<iplist, own, ei, myid, proc, runs>>

\* dataone-zookeeper puts its template in the place of the file.
Copy ==
    /\ At({"zk"}, "cp")
    /\ conf' = Template
    /\ Go("sed")
    /\ UNCHANGED <<iplist, own, zk, ei, myid, proc, runs>>

\* What rsync is to copy for dataone-event-index is in a directory that does not
\* exist ("dataone-evnet-index").
CopyNothing ==
    /\ At({"ei"}, "cp")
    /\ Go("sed")
    /\ UNCHANGED <<iplist, own, zk, ei, conf, myid, proc, runs>>

Substitute ==
    /\ At({"zk", "ei"}, "sed")
    /\ conf' = IF conf = Template THEN iplist ELSE conf
    /\ Go("myid")
    /\ UNCHANGED <<iplist, own, zk, ei, myid, proc, runs>>

\* Faulty variant of MyId: a number that is there is kept.
MyIdOnce ==
    /\ At({"zk", "ei"}, "myid")
    /\ IF myid # 0 \/ MyIds = {} THEN UNCHANGED myid
                   ELSE myid' \in MyIds /\ \A n \in MyIds : myid' <= n
    /\ Go("start")
    /\ UNCHANGED <<iplist, own, zk, ei, conf, proc, runs>>

\* The first entry that is equal; "Unknown server IP" leaves the file alone.
MyId ==
    /\ At({"zk", "ei"}, "myid")
    /\ IF MyIds = {} THEN UNCHANGED myid
                     ELSE myid' \in MyIds /\ \A n \in MyIds : myid' <= n
    /\ Go("start")
    /\ UNCHANGED <<iplist, own, zk, ei, conf, proc, runs>>

\* zookeeper runs with the file as shipped, or with three servers and a number.
CanRun == conf = Shipped \/ (conf \in Lists /\ Len(conf) >= 3 /\ myid # 0)

\* Nothing is started while a server lives; that one cannot run with its files
\* goes unnoticed: it is in the background by then.
StartServer ==
    IF proc = "down" /\ CanRun THEN proc' = "up" /\ runs' = <<conf, myid>>
                               ELSE UNCHANGED <<proc, runs>>

Start ==
    /\ At({"zk", "ei"}, "start")
    /\ StartServer
    /\ Leave
    /\ IF by = "zk" THEN zk' = "installed" /\ UNCHANGED ei ELSE ei' = "installed" /\ UNCHANGED zk
    /\ conf' = IF conf = Moved THEN None ELSE conf
    /\ UNCHANGED <<iplist, own, myid>>

\* Under "set -e" of dataone-zookeeper a chown or an update-rc.d that fails, or an
\* init script that says it could not start the server, ends the postinst.
StartFails ==
    /\ At({"zk"}, "start")
    /\ Leave /\ zk' = "failed"
    /\ conf' = IF conf = Moved THEN None ELSE conf
    /\ UNCHANGED <<iplist, own, ei, myid, proc, runs>>

\* A killed script leaves what it has done.  What prerm deletes goes at once here:
\* a kill between two deletions is left out.
Kill ==
    /\ step \notin {"none", "rm", "unpack"}
    /\ Leave
    /\ IF by = "zk" THEN zk' = "failed" /\ UNCHANGED ei ELSE ei' = "failed" /\ UNCHANGED zk
    /\ conf' = IF conf = Moved THEN None ELSE conf
    /\ UNCHANGED <<iplist, own, myid, proc, runs>>

\* An upgrade of dataone-zookeeper: prerm stops the server and removes conf ...
Prerm ==
    \/ /\ step = "none" /\ zk # "unpacked"
       /\ by' = "zk" /\ step' = "prerm"
       /\ UNCHANGED <<iplist, own, zk, ei, conf, myid, proc, runs>>
    \/ /\ step = "prerm"
       /\ proc' = IF proc = "up" THEN "stopping" ELSE proc
       /\ Go("rm")
       /\ UNCHANGED <<iplist, own, zk, ei, conf, myid, runs>>
    \/ /\ step = "rm"
       /\ conf' = None
       /\ Go("unpack")
       /\ UNCHANGED <<iplist, own, zk, ei, myid, proc, runs>>

\* ... and the new files come, to be configured later.
Unpack ==
    /\ step = "unpack"
    /\ conf' = Shipped /\ zk' = "unpacked"
    /\ Leave
    /\ UNCHANGED <<iplist, own, ei, myid, proc, runs>>

\* If they do not, dpkg calls the old postinst, which does what it always does.
Abort ==
    /\ step = "unpack"
    /\ zk' = "failed" /\ step' = "stop" /\ UNCHANGED by
    /\ UNCHANGED <<iplist, own, ei, conf, myid, proc, runs>>

-----------------------------------------------------------------------------
(* Everybody else.                                                         *)

\* os-core stores another list; the machine gets other addresses.
SetList ==
    /\ step = "none"
    /\ iplist' \in Lists /\ own' \in Owns
    /\ UNCHANGED <<by, step, zk, ei, conf, myid, proc, runs>>

Process ==
    \/ proc = "stopping" /\ proc' = "down" /\ UNCHANGED runs   \* is gone at last
    \/ proc = "up" /\ proc' = "down" /\ UNCHANGED runs         \* crashes, or is stopped
    \/ step = "none" /\ proc = "down" /\ StartServer           \* is started by hand

Outside ==
    \/ SetList
    \/ Process /\ UNCHANGED <<iplist, own, by, step, zk, ei, conf, myid>>

-----------------------------------------------------------------------------

Next ==
    \/ \E who \in {"zk", "ei"} : Postinst(who)
    \/ Stop \/ Move \/ Copy \/ CopyNothing \/ Substitute \/ MyId \/ Start \/ StartFails
    \/ Kill \/ Prerm \/ Unpack \/ Abort
    \/ Outside

Spec == Init /\ [][Next]_vars

-----------------------------------------------------------------------------
(* Properties.                                                             *)

OwnAddresses == {own[n] : n \in DOMAIN own}

\* If the list is complete a number is written only if it is the place of an
\* address of this machine, however similar the addresses are (lines 62 to 103).
IdIsOwn ==
    [][myid' # myid /\ Len(iplist) >= 3 =>
          \E n \in Place : myid' = n /\ iplist[n] \in OwnAddresses]_vars

\* The addresses of the machine name one of the first three of a list and are
\* part of no other.
Named(list) ==
    \E n \in Place \intersect DOMAIN list :
        /\ list[n] \in OwnAddresses
        /\ \A m \in DOMAIN list, x \in OwnAddresses : <<x, list[m]>> \in Part => m = n /\ x = list[n]

\* A machine that the list of its zoo.cfg names has the number of its place
\* there, whatever lists it had before: two such machines with the same zoo.cfg
\* have different numbers.  (The addresses of a machine change with the list.)
IdIsPlace ==
    [][zk' = "installed" /\ zk # "installed" /\ Named(iplist) => iplist[myid'] \in OwnAddresses]_vars

\* Once dataone-zookeeper is configured with a list, a server that is up, and
\* not about to stop, has read that list and the number that is in the file.
RunsConfigured ==
    zk = "installed" /\ conf \in Lists /\ proc = "up" => runs = <<conf, myid>>

\* Once zoo.cfg is lost, to a killed script, an aborted upgrade or
\* dataone-event-index, no postinst brings it back: dataone-zookeeper cannot be
\* configured until it is unpacked again.
OnlyUnpackCures ==
    [][conf = None /\ conf' # None => step = "unpack" /\ zk' = "unpacked"]_vars

\* "Configure zookeeper to run an ensemble with the 3 CNs" (event-index, line
\* 126).  It fails: zoo.cfg is gone.
EventIndexConfigures ==
    [][by = "ei" /\ ei' = "installed" /\ step = "start" /\ Len(iplist) >= 3 => conf' = iplist]_vars

=============================================================================
