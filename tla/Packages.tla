------------------------------ MODULE Packages ------------------------------
(***************************************************************************)
(* The packages of one coordinating node that share tomcat, apache, the    *)
(* list of addresses and the keystore password: dataone-cn-os-core,        *)
(* -metacat, -portal and -rest-service, and the runs of dpkg over them.    *)
(* The maintainer scripts are sequences of steps; a script may be killed,  *)
(* or fail, between any two, and an unpacking may be aborted.  What        *)
(* os-core's postinst does besides is in OsCoreDebconf and OsCorePostinst. *)
(*                                                                         *)
(* dpkg and debconf are external.  A run of dpkg unpacks all its packages  *)
(* before it configures the first; a package is configured after those it  *)
(* depends on.  debconf runs a package's config script when apt starts and *)
(* again at the start of its postinst; its dpkg-reconfigure runs prerm,    *)
(* config and postinst and unpacks nothing.                                *)
(***************************************************************************)
EXTENDS Naturals, Sequences, FiniteSets

CONSTANTS
    Lists,     \* the values of cn.iplist
    MaxWeb     \* bound: web packages on the node, at most

Web      == {"metacat", "portal", "rest"}
Package  == Web \union {"oscore"}

\* What a hazelcast configuration may hold instead of a list.
Placeholder == "127.0.0.1"
Gone        == "gone"

ASSUME ListsAreLists == Placeholder \notin Lists /\ Gone \notin Lists

VARIABLES
    batch,     \* the packages of the run of dpkg, {} between runs
    unpack,    \* those of them still to be unpacked
    script,    \* <<package, kind>> of the script that runs, or Idle
    todo,      \* its steps to come
    dialog,    \* does debconf show its questions?
    status,    \* dpkg: "absent", "unpacked", "failed" (half-configured), "installed"
    files,     \* the packages whose war file is under /usr/share
    web,       \* the packages whose web application is deployed
    list,      \* the addresses in each package's hazelcast configuration
    tomcat, apache,   \* is it up?
    iplist,    \* debconf: dataone-cn-os-core/cn.iplist
    corePw,    \* debconf: is dataone-cn-os-core/cn.keystore.password there?
    portalPw,  \* debconf: is dataone-cn-portal/cn.keystore.password there?
    keystore,  \* has the portal a password in client.xml?
    gutted     \* history: packages whose files prerm has deleted since the last
               \* unpacking

dpkg     == <<batch, unpack, status>>
run      == <<script, todo, dialog>>
deployed == <<files, web, gutted>>
services == <<tomcat, apache>>
debconf  == <<iplist, corePw, portalPw>>
vars     == <<dpkg, run, deployed, list, services, debconf, keystore>>

\* Faulty variant of Depends: the portal's control file does not name os-core.
DependsForgotten(p) == IF p = "rest" THEN {"oscore", "metacat"}
                       ELSE IF p = "metacat" THEN {"oscore"} ELSE {}

\* The rest service depends on dataone-cn-index, which depends on metacat.
Depends(p) == IF p = "oscore" THEN {} ELSE IF p = "rest" THEN {"oscore", "metacat"} ELSE {"oscore"}

Idle == <<"none", "none">>
Kind == {"prerm", "configure", "abort", "reprerm", "reconfigure"}

-----------------------------------------------------------------------------
(* The scripts.                                                            *)

Name == {"stopTomcat", "startTomcat", "stopApache", "startApache",
         "list", "deploy", "password", "answers", "delete"}

\* What the postinst scripts do once they do something.  The portal's and the
\* rest service's do so whatever their arguments are.  An update of os-core leaves
\* tomcat down.
Configure ==
    [metacat |-> <<"list", "stopTomcat", "deploy", "stopApache", "startApache", "startTomcat">>,
     portal  |-> <<"list", "stopTomcat", "deploy", "password", "stopApache", "startApache", "startTomcat">>,
     rest    |-> <<"stopTomcat", "deploy", "list", "stopApache", "startApache", "startTomcat">>,
     oscore  |-> <<"answers", "stopApache", "startApache", "stopTomcat">>]

OsCoreReconfigured == <<"answers", "stopApache", "startApache", "stopTomcat", "startTomcat">>

\* os-core's does nothing.
Prerm == <<"stopTomcat", "stopApache", "delete", "startTomcat", "startApache">>

\* Faulty variant of Steps: metacat's postinst skips what is half-configured too.
StepsOfUnpacked(p, kind) ==
    IF kind \in {"prerm", "reprerm"} THEN IF p = "oscore" THEN <<>> ELSE Prerm
    ELSE IF p = "metacat" /\ (kind # "configure" \/ status[p] = "failed") THEN <<>>
    ELSE IF p = "oscore" /\ kind = "reconfigure" THEN OsCoreReconfigured
    ELSE IF p = "oscore" /\ kind = "abort" THEN <<>>
    ELSE Configure[p]

\* metacat's postinst does nothing when an upgrade is aborted, and skips a package
\* that is installed, which is when it is reconfigured; os-core's does nothing
\* when an upgrade is aborted, and starts tomcat when it is reconfigured only.
Steps(p, kind) ==
    IF kind \in {"prerm", "reprerm"} THEN IF p = "oscore" THEN <<>> ELSE Prerm
    ELSE IF p = "metacat" /\ kind # "configure" THEN <<>>
    ELSE IF p = "oscore" /\ kind = "reconfigure" THEN OsCoreReconfigured
    ELSE IF p = "oscore" /\ kind = "abort" THEN <<>>
    ELSE Configure[p]

TypeOK ==
    /\ batch \subseteq Package /\ unpack \subseteq batch
    /\ script \in {Idle} \union (Package \X Kind)
    /\ todo \in Seq(Name)
    /\ dialog \in BOOLEAN
    /\ status \in [Package -> {"absent", "unpacked", "failed", "installed"}]
    /\ files \subseteq Web /\ web \subseteq Web
    /\ list \in [Web -> Lists \union {Placeholder, Gone}]
    /\ tomcat \in BOOLEAN /\ apache \in BOOLEAN
    /\ iplist \in Lists
    /\ corePw \in BOOLEAN /\ portalPw \in BOOLEAN /\ keystore \in BOOLEAN
    /\ gutted \subseteq Web

\* A node whose os-core is installed, and perhaps others.
Init ==
    /\ batch = {} /\ unpack = {}
    /\ script = Idle /\ todo = <<>> /\ dialog = TRUE
    /\ \E present \in SUBSET Web :
          /\ Cardinality(present) <= MaxWeb
          /\ \A p \in present : Depends(p) \subseteq present \union {"oscore"}
          /\ status = [p \in Package |-> IF p \in present \union {"oscore"} THEN "installed" ELSE "absent"]
          /\ files = present /\ web = present
          /\ keystore = ("portal" \in present)
          /\ iplist \in Lists /\ list = [p \in Web |-> IF p \in present THEN iplist ELSE Gone]
    /\ gutted = {}
    /\ tomcat = TRUE /\ apache = TRUE
    /\ corePw = FALSE /\ portalPw = FALSE

-----------------------------------------------------------------------------
(* The steps of the scripts.                                               *)

Doing(step) == todo # <<>> /\ Head(todo) = step /\ todo' = Tail(todo)

Service ==
    /\ \/ Doing("stopTomcat") /\ tomcat' = FALSE /\ UNCHANGED apache
       \/ Doing("startTomcat") /\ tomcat' = TRUE /\ UNCHANGED apache
       \/ Doing("stopApache") /\ apache' = FALSE /\ UNCHANGED tomcat
       \/ Doing("startApache") /\ apache' = TRUE /\ UNCHANGED tomcat
    /\ UNCHANGED <<dpkg, script, dialog, deployed, list, debconf, keystore>>

\* Faulty variant of Delete: the source directory is kept, as the portal's is.
DeleteApplication ==
    /\ Doing("delete")
    /\ web' = web \ {script[1]} /\ gutted' = gutted \union {script[1]}
    /\ list' = IF script[1] = "rest" THEN list ELSE [list EXCEPT ![script[1]] = Gone]
    /\ UNCHANGED <<dpkg, script, dialog, files, services, debconf, keystore>>

\* The application; the source directory, except the portal's; and the directory
\* of the hazelcast configuration, except the rest service's.
Delete ==
    LET p == script[1]
    IN  /\ Doing("delete")
        /\ web' = web \ {p} /\ gutted' = gutted \union {p}
        /\ files' = IF p = "portal" THEN files ELSE files \ {p}
        /\ list' = IF p = "rest" THEN list ELSE [list EXCEPT ![p] = Gone]
        /\ UNCHANGED <<dpkg, script, dialog, services, debconf, keystore>>

\* The old application is removed; without a war file nothing takes its place,
\* which goes unnoticed.
Deploy ==
    LET p == script[1]
    IN  /\ Doing("deploy")
        /\ web' = IF p \in files THEN web \union {p} ELSE web \ {p}
        /\ UNCHANGED <<dpkg, script, dialog, files, gutted, list, services, debconf, keystore>>

\* In the two hazelcast.xml the placeholder is replaced and nothing else; the rest
\* service replaces what is there (node.properties is, os-core being installed).
MetacatList == IF list["metacat"] = Placeholder THEN iplist ELSE list["metacat"]
PortalList  == IF list["portal"] = Placeholder THEN iplist ELSE list["portal"]
RestList    == iplist

PutList ==
    LET new == [metacat |-> MetacatList, portal |-> PortalList, rest |-> RestList]
    IN  /\ Doing("list")
        /\ list' = [list EXCEPT ![script[1]] = new[script[1]]]
        /\ UNCHANGED <<dpkg, script, dialog, deployed, services, debconf, keystore>>

\* Faulty variant of Password: only os-core's is looked at.
PasswordOfCore ==
    /\ Doing("password")
    /\ keystore' = corePw
    /\ UNCHANGED <<dpkg, script, dialog, deployed, list, services, debconf>>

\* os-core's password, or else the portal's own, which is used up.
Password ==
    /\ Doing("password")
    /\ keystore' = (corePw \/ portalPw)
    /\ portalPw' = (portalPw /\ corePw)
    /\ UNCHANGED <<dpkg, script, dialog, deployed, list, services, iplist, corePw>>

\* os-core's postinst stores its list and forgets the password.
Answers ==
    /\ Doing("answers")
    /\ iplist' \in Lists /\ corePw' = FALSE
    /\ UNCHANGED <<dpkg, script, dialog, deployed, list, services, portalPw, keystore>>

-----------------------------------------------------------------------------
(* dpkg and debconf.                                                       *)

\* The portal's config script asks for its password if os-core's is not there.
PortalConfig(shown) == portalPw' = (portalPw \/ (shown /\ ~corePw))

\* apt starts.  The portal has a config script and is asked about now.  os-core has
\* none: its postinst asks, and by now ansible may have given it the answers.  What
\* its postinst asks about is stored from here on, which is earlier than it is.
Apt(packages) ==
    /\ script = Idle /\ batch = {}
    /\ Cardinality({p \in Web : status[p] # "absent" \/ p \in packages}) <= MaxWeb
    /\ \A p \in packages : \A q \in Depends(p) : status[q] # "absent" \/ q \in packages
    /\ batch' = packages /\ unpack' = packages
    /\ dialog' \in BOOLEAN
    /\ corePw' \in IF "oscore" \in packages THEN {corePw, TRUE} ELSE {corePw}
    /\ IF "portal" \in packages THEN PortalConfig(dialog') ELSE UNCHANGED portalPw
    /\ UNCHANGED <<script, todo, status, deployed, list, services, iplist, keystore>>

Begin(p, kind) ==
    /\ script' = <<p, kind>> /\ todo' = Steps(p, kind)
    /\ status' = [status EXCEPT ![p] = IF kind \in {"reprerm", "reconfigure"} THEN @ ELSE "failed"]
    /\ IF p = "portal" /\ kind \notin {"prerm", "reprerm"} THEN PortalConfig(dialog') ELSE UNCHANGED portalPw

\* The old package's prerm, unless no version of it has got as far as postinst.
Remove(p) ==
    /\ script = Idle /\ p \in unpack /\ status[p] \in {"failed", "installed"}
    /\ UNCHANGED dialog /\ Begin(p, "prerm")
    /\ UNCHANGED <<batch, unpack, deployed, list, services, iplist, corePw, keystore>>

\* Faulty variant of Unpack: hazelcast.xml is a conffile, and one that was changed
\* is kept.
UnpackKeepsLists(p) ==
    /\ p \in unpack /\ todo = <<>>
    /\ script = <<p, "prerm">> \/ (script = Idle /\ status[p] \in {"absent", "unpacked"})
    /\ unpack' = unpack \ {p} /\ script' = Idle
    /\ status' = [status EXCEPT ![p] = "unpacked"]
    /\ files' = files \union ({p} \intersect Web) /\ gutted' = gutted \ {p}
    /\ list' = [q \in Web |-> IF q = p /\ status[p] = "absent" THEN Placeholder ELSE list[q]]
    /\ UNCHANGED <<batch, todo, dialog, web, services, debconf, keystore>>

Unpack(p) ==
    /\ p \in unpack /\ todo = <<>>
    /\ script = <<p, "prerm">> \/ (script = Idle /\ status[p] \in {"absent", "unpacked"})
    /\ unpack' = unpack \ {p} /\ script' = Idle
    /\ status' = [status EXCEPT ![p] = "unpacked"]
    /\ files' = files \union ({p} \intersect Web) /\ gutted' = gutted \ {p}
    /\ list' = [q \in Web |-> IF q = p THEN Placeholder ELSE list[q]]
    /\ UNCHANGED <<batch, todo, dialog, web, services, debconf, keystore>>

\* The new files do not come: the old postinst is told, and the run is over.
Abort(p) ==
    /\ script = <<p, "prerm">> /\ todo = <<>>
    /\ batch' = {} /\ unpack' = {}
    /\ UNCHANGED dialog /\ Begin(p, "abort")
    /\ UNCHANGED <<deployed, list, services, iplist, corePw, keystore>>

\* In a run, or by "dpkg --configure -a" after one that failed.
Postinst(p) ==
    /\ script = Idle /\ unpack = {} /\ status[p] \in {"unpacked", "failed"}
    /\ \A q \in Depends(p) : status[q] = "installed"
    /\ IF batch = {} THEN dialog' \in BOOLEAN ELSE UNCHANGED dialog
    /\ Begin(p, "configure")
    /\ UNCHANGED <<batch, unpack, deployed, list, services, iplist, corePw, keystore>>

\* dpkg-reconfigure: prerm, and then postinst.
Reconfigure(p) ==
    /\ \/ script = Idle /\ batch = {} /\ status[p] = "installed"
          /\ dialog' \in BOOLEAN /\ Begin(p, "reprerm")
       \/ script = <<p, "reprerm">> /\ todo = <<>>
          /\ UNCHANGED dialog /\ Begin(p, "reconfigure")
    /\ UNCHANGED <<batch, unpack, deployed, list, services, iplist, corePw, keystore>>

\* A postinst has come to its end.
Configured ==
    /\ script # Idle /\ script[2] \notin {"prerm", "reprerm"} /\ todo = <<>>
    /\ status' = [status EXCEPT ![script[1]] = "installed"]
    /\ script' = Idle
    /\ UNCHANGED <<batch, unpack, todo, dialog, deployed, list, services, debconf, keystore>>

Finished == batch # {} /\ unpack = {} /\ script = Idle /\ \A p \in batch : status[p] = "installed"

Done ==
    /\ Finished
    /\ batch' = {}
    /\ UNCHANGED <<unpack, status, run, deployed, list, services, debconf, keystore>>

\* A script is killed, or fails; so does the run.  os-core's postinst forgets the
\* password also when it exits with a failure code.
Kill ==
    /\ script # Idle
    /\ script' = Idle /\ todo' = <<>> /\ batch' = {} /\ unpack' = {}
    /\ corePw' \in IF script[1] = "oscore" THEN {corePw, FALSE} ELSE {corePw}
    /\ UNCHANGED <<status, dialog, deployed, list, services, iplist, portalPw, keystore>>

\* Between runs somebody starts or stops the services.
Admin ==
    /\ script = Idle /\ batch = {}
    /\ tomcat' \in BOOLEAN /\ apache' \in BOOLEAN
    /\ UNCHANGED <<dpkg, run, deployed, list, debconf, keystore>>

-----------------------------------------------------------------------------

Next ==
    \/ Service \/ Delete \/ Deploy \/ PutList \/ Password \/ Answers
    \/ \E packages \in SUBSET Package \ {{}} : Apt(packages)
    \/ \E p \in Package : Remove(p) \/ Unpack(p) \/ Abort(p) \/ Postinst(p) \/ Reconfigure(p)
    \/ Configured \/ Done \/ Kill \/ Admin

Spec == Init /\ [][Next]_vars

-----------------------------------------------------------------------------
(* Properties.                                                             *)

\* A run of dpkg that brings a web application, and ends well, leaves tomcat and
\* apache up, although an update of os-core leaves tomcat down: the others
\* come after it.
EndsUp == Finished /\ batch \intersect Web # {} => tomcat /\ apache

\* After a run that ends well every package of it has the list that is in debconf
\* then, also if os-core changed it in the same run.
ListsCurrent == Finished => \A p \in batch \intersect Web : list[p] = iplist

\* What dpkg calls installed is deployed and has a hazelcast configuration, unless
\* prerm has deleted its files and no new ones came.
InstalledIsDeployed ==
    \A p \in Web \ gutted : status[p] = "installed" => p \in web /\ list[p] # Gone

\* An upgrade that is aborted or killed after prerm, and every dpkg-reconfigure,
\* takes the application or its hazelcast configuration away for good: until
\* new files are unpacked neither the old postinst nor "dpkg --configure" nor
\* dpkg-reconfigure brings both back.
GuttedUntilUnpacked ==
    \A p \in gutted : p \notin web \/ list[p] = Gone

\* Where debconf can ask, the portal gets a password, although os-core forgets its
\* own before the portal reads it.
PasswordGiven ==
    [][Doing("password") /\ dialog => keystore']_vars

=============================================================================
