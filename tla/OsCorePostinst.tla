--------------------------- MODULE OsCorePostinst ---------------------------
(***************************************************************************)
(* The configuration stages of dataone-cn-os-core's postinst: the          *)
(* functions configure_* in the order main() calls them, and what they do  *)
(* to the machine.  The dialogue that gives a run its answers is a step of *)
(* OsCoreAnswers.                                                          *)
(*                                                                         *)
(* A command that fails is one of three things: an exit with a failure     *)
(* code that wipes the passwords, a line in the log, or, where the call is *)
(* not part of a condition, the end of the script by "set -e".  What was   *)
(* done before stays done, and the next run starts from there.             *)
(***************************************************************************)
EXTENDS OsCoreAnswers, Sequences, Naturals

CONSTANTS
    KeystorePassword, LdapPassword, IpList,  \* questions the stages look at
    CertificateQuestions,  \* an update checks the certificates if one changed
    Keyed, Tokens,         \* node.properties: set by key, or by a placeholder
    HostName,              \* cn.hostname
    Synchronized, No,      \* cn.openldap.synchronized and its answer "false"
    Localhost,             \* 127.0.0.1
    Yes,                   \* the answer "true" to cn.openldap.firstcn
    Address, Hosts,        \* Hosts[v]: the addresses in v as a cn.iplist
    Self,                  \* the address of this machine
    Placeholder,           \* what a file holds before it is filled in
    NoFile,
    Faults                 \* the stages, and "slapd", that may fail; "kill"

\* What is configured when, on a first install and on an update.
Order == [
    create |-> <<"certificates", "properties", "ufwHosts", "ufwServices", "jdk",
        "keystore", "apacheStop", "apacheStart", "tomcatStop", "serviceFile",
        "servicePassword", "ldapRunning", "schemas", "slapdConf", "slapdStop",
        "slapdEmpty", "slaptest", "slapdOwner", "slapdStart", "slapdUp",
        "addOrg", "addDataone", "addCilogon", "addNodes", "markPopulated",
        "ldapPassword", "tomcatStart", "chmod">>,
    update |-> <<"certificates", "properties", "jdk", "ufwHosts", "ufwServices",
        "keystore", "apacheStop", "apacheStart", "tomcatStop", "serviceFile",
        "servicePassword", "ldapRunning", "schemas", "slapdConf", "slapdStop",
        "slapdEmpty", "slaptest", "slapdOwner", "slapdStart", "slapdUp",
        "addOrg", "addDataone", "addCilogon", "addNodes", "markPopulated",
        "ldapPassword">> ]

Entry == {"org", "dataone", "cilogon", "nodes"}

ASSUME Stages ==
    /\ Passwords = {KeystorePassword, LdapPassword} /\ KeystorePassword # LdapPassword
    /\ IpList \in Compared
    /\ CertificateQuestions \subseteq Configured
    /\ Keyed \subseteq Templates /\ Tokens \subseteq Templates
    /\ Keyed \intersect Tokens = {} /\ IpList \notin Tokens
    /\ IpList \in Keyed => Synchronized \in Templates
    /\ Yes \in Value
    /\ Hosts \in [Value -> SUBSET Address]
    /\ Placeholder \notin Stored /\ NoFile \notin Stored \union {Placeholder}

VARIABLES
    at,         \* the stage the run is at, an index of Order[mode]
    apache, tomcat, slapd,   \* which services run
    ufw,        \* the addresses that may reach port 389
    props,      \* node.properties
    service,    \* the password in ldapService.properties
    conf,       \* rootpw in slapd.conf
    rootpw,     \* rootpw in slapd.d, what slapd checks
    config,     \* slapd.d: "none", "root" (slapd may not read it), "usable"
    entries,    \* what the directory holds
    populated,  \* debconf: cn.openldap.populated
    version,    \* what dpkg has unpacked: "unpacked", "tried" by a run that did
                \* not end well, or "configured"
    clean       \* since the firewall was set every run has ended well, and only
                \* runs have changed cn.iplist, never to nothing

daemons == <<apache, tomcat, slapd>>
files   == <<props, service, conf, rootpw, config>>
machine == <<daemons, files, ufw, entries, populated>>
history == <<version, clean>>
pvars   == <<answers, at, machine, history>>

PTypeOK ==
    /\ AnswersTypeOK
    /\ at \in 0 .. Len(Order["create"]) + 1
    /\ apache \in BOOLEAN /\ tomcat \in BOOLEAN /\ slapd \in BOOLEAN
    /\ ufw \subseteq Address
    /\ props \in [Keyed \union Tokens -> Stored \union {Localhost, Placeholder}]
    /\ service \in Stored \union {Placeholder}
    /\ conf \in Stored \union {Placeholder, NoFile}
    /\ rootpw \in Stored \union {Placeholder}
    /\ config \in {"none", "root", "usable"}
    /\ entries \subseteq Entry
    /\ populated \in BOOLEAN
    /\ version \in {"unpacked", "tried", "configured"}
    /\ clean \in BOOLEAN

Unpacked == [t \in Keyed \union Tokens |-> Placeholder]

\* The packages this one depends on have left their services running, and
\* slapd with the configuration of its own package.
PInit ==
    /\ AnswersInit
    /\ at = 0
    /\ apache = TRUE /\ tomcat = TRUE /\ slapd = TRUE
    /\ ufw = {}
    /\ props = Unpacked
    /\ service = Placeholder /\ conf = NoFile /\ rootpw = Placeholder
    /\ config = "usable"
    /\ entries = {} /\ populated = FALSE
    /\ version = "unpacked" /\ clean = FALSE

-----------------------------------------------------------------------------
(* Outside a run.                                                          *)

Ansible(t, v) ==
    /\ Provide(t, v)
    /\ clean' = (clean /\ t # IpList)
    /\ UNCHANGED <<at, machine, version>>

Override(t, v) ==
    /\ Change(t, v)
    /\ clean' = (clean /\ t # IpList)
    /\ UNCHANGED <<at, machine, version>>

\* dpkg unpacks the package: node.properties is not a conffile.
Unpack ==
    /\ phase = "idle"
    /\ props' = Unpacked
    /\ version' = "unpacked"
    /\ UNCHANGED <<answers, at, daemons, service, conf, rootpw, config, ufw,
                   entries, populated, clean>>

\* slapd stops by itself, in a run or between runs.
SlapdDies ==
    /\ "slapd" \in Faults
    /\ slapd /\ slapd' = FALSE
    /\ UNCHANGED <<answers, at, apache, tomcat, files, ufw, entries, populated, history>>

\* dpkg configures a version it has unpacked until that ends well.  A
\* reconfiguration is a create run.
StartRun(m) ==
    /\ m = "update" => version # "configured"
    /\ Settle(m)
    /\ at' = 1
    /\ UNCHANGED <<machine, history>>

\* A run that does not end well.
Failed ==
    /\ version' = IF version = "unpacked" THEN "tried" ELSE version
    /\ clean' = FALSE
    /\ at' = 0

DialogueCutShort ==
    /\ "dialogue" \in Faults
    /\ CutShort
    /\ Failed
    /\ UNCHANGED machine

-----------------------------------------------------------------------------
(* The stages.                                                             *)

At(s) == phase = "configure" /\ at \in 1 .. Len(Order[mode]) /\ Order[mode][at] = s

\* Stage s is over, and the answers are as they were.
Proceed(s) == At(s) /\ at' = at + 1 /\ UNCHANGED answers

\* Stages that change nothing the model keeps.  The schemas are those
\* slapd.conf includes as well.
Check(s) ==
    /\ s \in {"certificates", "ufwServices", "jdk", "schemas", "chmod"}
    /\ Proceed(s)
    /\ UNCHANGED <<machine, history>>

\* A node that does not replicate is alone in its cn.iplist.
PropertyOf(t) == IF t = IpList /\ deb[Synchronized] = No THEN Localhost ELSE deb[t]

\* The placeholders that are replaced: a host name has to be known.
Replaced(t) == t \in Tokens /\ props[t] = Placeholder /\ (t = HostName => deb[t] # Empty)

\* A placeholder can be replaced once, and when that fails it is a line in the
\* log; a key is set every time.
NodeProperties ==
    /\ Proceed("properties")
    /\ \E missed \in SUBSET Tokens :
          /\ "properties" \notin Faults => missed = {}
          /\ props' = [t \in Keyed \union Tokens |->
                          IF t \in Keyed \/ (Replaced(t) /\ t \notin missed)
                          THEN PropertyOf(t) ELSE props[t]]
    /\ UNCHANGED <<daemons, service, conf, rootpw, config, ufw, entries, populated, history>>

HostsOf(v) == IF v = Empty THEN {} ELSE Hosts[v]

\* Faulty variant of SetsUfw: the changed flag is not looked at.
SetsUfwOnCreate == mode = "create"

\* An update sets the firewall only if cn.iplist has changed.  A rule that
\* cannot be added is a line in the log.
SetsUfw == mode = "create" \/ IpList \in changed

UfwHosts ==
    /\ Proceed("ufwHosts")
    /\ \E missed \in SUBSET (HostsOf(deb[IpList]) \ {Self}) :
          /\ "ufwHosts" \notin Faults => missed = {}
          /\ ufw' = IF SetsUfw THEN ufw \union ((HostsOf(deb[IpList]) \ {Self}) \ missed)
                               ELSE ufw
    /\ clean' = ((clean \/ SetsUfw) /\ deb[IpList] # Empty)
    /\ UNCHANGED <<daemons, files, entries, populated, version>>

\* Faulty variant of Keystore: the cached password is kept.
KeystoreCached ==
    /\ Proceed("keystore")
    /\ UNCHANGED <<machine, history>>

\* keytool's exit status is ignored.
Keystore ==
    /\ At("keystore") /\ at' = at + 1
    /\ Clear(KeystorePassword)
    /\ UNCHANGED <<machine, history>>

ApacheStop ==
    /\ Proceed("apacheStop")
    /\ apache' = FALSE
    /\ UNCHANGED <<tomcat, slapd, files, ufw, entries, populated, history>>

ApacheStart ==
    /\ Proceed("apacheStart")
    /\ apache' = TRUE
    /\ UNCHANGED <<tomcat, slapd, files, ufw, entries, populated, history>>

TomcatStop ==
    /\ Proceed("tomcatStop")
    /\ tomcat' = FALSE
    /\ UNCHANGED <<apache, slapd, files, ufw, entries, populated, history>>

TomcatStart ==
    /\ Proceed("tomcatStart")
    /\ tomcat' \in {TRUE} \union (IF "tomcatStart" \in Faults THEN {FALSE} ELSE {})
    /\ UNCHANGED <<apache, slapd, files, ufw, entries, populated, history>>

(* configure_openldap *)

\* A fresh copy of ldapService.properties, then its password.
ServiceFile ==
    /\ Proceed("serviceFile")
    /\ service' = Placeholder
    /\ UNCHANGED <<daemons, props, conf, rootpw, config, ufw, entries, populated, history>>

ServicePassword ==
    /\ Proceed("servicePassword")
    /\ service' = deb[LdapPassword]
    /\ UNCHANGED <<daemons, props, conf, rootpw, config, ufw, entries, populated, history>>

\* Faulty variant of LdapRunning: slapd is not looked for.
LdapRunningUnchecked ==
    /\ Proceed("ldapRunning")
    /\ UNCHANGED <<machine, history>>

\* confirm_ldap_running before the first population: slapd is started if it
\* does not run, which takes a configuration it can read.
LdapRunning ==
    /\ Proceed("ldapRunning")
    /\ populated \/ slapd \/ config = "usable"
    /\ slapd' = (slapd \/ ~populated)
    /\ UNCHANGED <<apache, tomcat, files, ufw, entries, populated, history>>

\* Faulty variant of SlapdConf: an empty password is written as it is.
SlapdConfEmpty ==
    /\ Proceed("slapdConf")
    /\ \/ conf' = deb[LdapPassword]
       \/ "slapdConf" \in Faults /\ conf' \in {Placeholder, NoFile}
    /\ UNCHANGED <<daemons, props, service, rootpw, config, ufw, entries, populated, history>>

\* slapd.conf from its template.  slappasswd does not hash an empty password;
\* it is not called when the file could not be put in place, and the root
\* password that could not be written is a line in the log.
SlapdConf ==
    /\ Proceed("slapdConf")
    /\ \/ deb[LdapPassword] # Empty /\ conf' = deb[LdapPassword]
       \/ "slapdConf" \in Faults /\ deb[LdapPassword] # Empty /\ conf' = Placeholder
       \/ "slapdConf" \in Faults /\ conf' = NoFile
    /\ UNCHANGED <<daemons, props, service, rootpw, config, ufw, entries, populated, history>>

SlapdStop ==
    /\ Proceed("slapdStop")
    /\ slapd' = FALSE
    /\ UNCHANGED <<apache, tomcat, files, ufw, entries, populated, history>>

SlapdEmpty ==
    /\ Proceed("slapdEmpty")
    /\ \/ config' = "none"
       \/ "slapdEmpty" \in Faults /\ config' = config
    /\ UNCHANGED <<daemons, props, service, conf, rootpw, ufw, entries, populated, history>>

\* Faulty variant of CanRebuild: a missing slapd.conf goes unnoticed.
CanRebuildBlind == config = "none"

\* Faulty variant of Slaptest: its failure is logged.
SlaptestLogged ==
    /\ Proceed("slaptest")
    /\ config' = "root"
    /\ UNCHANGED <<daemons, props, service, conf, rootpw, ufw, entries, populated, history>>

\* slaptest turns slapd.conf into a slapd.d that is not there yet.
CanRebuild == config = "none" /\ conf # NoFile

Slaptest ==
    /\ Proceed("slaptest")
    /\ CanRebuild
    /\ rootpw' = conf /\ config' = "root"
    /\ UNCHANGED <<daemons, props, service, conf, ufw, entries, populated, history>>

SlapdOwner ==
    /\ Proceed("slapdOwner")
    /\ config' = "usable"
    /\ UNCHANGED <<daemons, props, service, conf, rootpw, ufw, entries, populated, history>>

\* /etc/init.d/slapd start, and confirm_ldap_running after five seconds.
SlapdStart(s) ==
    /\ s \in {"slapdStart", "slapdUp"}
    /\ Proceed(s)
    /\ slapd' = TRUE
    /\ UNCHANGED <<apache, tomcat, files, ufw, entries, populated, history>>

\* What the stages that add an entry look for, and the entry.
Adds == [addOrg |-> "org", addDataone |-> "dataone", addCilogon |-> "cilogon"]

\* Faulty variant of Wanted: a populated directory is filled in again.
WantedAgain(s) ==
    /\ s = "addOrg" \/ deb[FirstCN] = Yes
    /\ ~slapd \/ Adds[s] \notin entries

\* Only a directory that is not populated gets the entry, only the first
\* coordinating node adds more than dc=org, and only if it is missing.
Wanted(s) ==
    /\ ~populated
    /\ s = "addOrg" \/ deb[FirstCN] = Yes
    /\ ~slapd \/ Adds[s] \notin entries

AddEntry(s) ==
    /\ s \in DOMAIN Adds
    /\ Proceed(s)
    /\ Wanted(s) => slapd
    /\ entries' = IF Wanted(s) THEN entries \union {Adds[s]} ELSE entries
    /\ UNCHANGED <<daemons, files, ufw, populated, history>>

\* The list of nodes is added with the password, and a failure is logged.
AddNodes ==
    /\ Proceed("addNodes")
    /\ \/ /\ ~populated /\ deb[FirstCN] = Yes
          /\ slapd /\ rootpw = deb[LdapPassword]
          /\ entries' = entries \union {"nodes"}
       \/ /\ \/ populated \/ deb[FirstCN] # Yes \/ "addNodes" \in Faults
             \/ ~slapd \/ rootpw # deb[LdapPassword]
          /\ UNCHANGED entries
    /\ UNCHANGED <<daemons, files, ufw, populated, history>>

MarkPopulated ==
    /\ Proceed("markPopulated")
    /\ populated' = TRUE
    /\ UNCHANGED <<daemons, files, ufw, entries, history>>

ClearLdapPassword ==
    /\ At("ldapPassword") /\ at' = at + 1
    /\ Clear(LdapPassword)
    /\ UNCHANGED <<machine, history>>

-----------------------------------------------------------------------------
(* The end of a run.                                                       *)

\* resetDebQuestionSeenFlag.  A create run does not know all its flags: see
\* CreateAccept in OsCoreDebconf.
Finish ==
    /\ phase = "configure" /\ at = Len(Order[mode]) + 1
    /\ Over("ok")
    /\ installed' = TRUE
    /\ \E kept \in SUBSET (seen \ Passwords) :
          /\ mode = "update" => kept \subseteq {FirstCN}
          /\ seen \intersect {FirstCN} \subseteq kept
          /\ seen' = kept \union (seen \intersect Passwords)
    /\ at' = 0
    /\ version' = "configured"
    /\ UNCHANGED <<val, machine, clean>>

\* Stages that exit with a failure code, with the code.
ExitCodes == [
    certificates |-> {62, 63, 64}, properties |-> {64}, ufwServices |-> {65, 66, 67},
    apacheStop |-> {68}, apacheStart |-> {69}, tomcatStop |-> {70},
    serviceFile |-> {94, 95, 96}, servicePassword |-> {97}, schemas |-> {71, 72, 73, 74},
    slapdStop |-> {78}, slaptest |-> {79}, slapdOwner |-> {80, 81}, slapdStart |-> {91},
    addOrg |-> {75}, addDataone |-> {76}, addCilogon |-> {77} ]

\* Whether the code of s can be met: some stages do nothing in this run.
Applies(s) ==
    CASE s = "certificates" -> mode = "create" \/ changed \intersect CertificateQuestions # {}
      [] s = "ufwServices" -> SetsUfw
      [] s = "apacheStop" -> apache
      [] s = "tomcatStop" -> tomcat
      [] s = "schemas" -> ~populated
      [] s = "slapdStop" -> slapd
      [] s \in DOMAIN Adds -> Wanted(s)
      [] OTHER -> TRUE

\* What makes a stage fail without a fault of its own.
MustFail(s) ==
    \/ s = "slaptest" /\ ~CanRebuild
    \/ s \in DOMAIN Adds /\ Wanted(s) /\ ~slapd

ExitWithFailureCode(s) ==
    /\ s \in DOMAIN ExitCodes
    /\ At(s) /\ Applies(s)
    /\ s \in Faults \/ MustFail(s)
    /\ Fail
    /\ Failed
    /\ UNCHANGED machine

\* Stages where "set -e" ends the script.  confirm_ldap_running is one: the
\* test of its return value is not reached.
Unguarded(s) ==
    \/ s = "ldapRunning" /\ ~populated /\ ~slapd /\ (config # "usable" \/ s \in Faults)
    \/ s = "slapdUp" /\ ~slapd /\ s \in Faults
    \/ s = "slapdConf" /\ deb[LdapPassword] = Empty
    \/ s \in {"jdk", "chmod"} /\ s \in Faults

SetE(s) ==
    /\ At(s) /\ Unguarded(s)
    /\ Die
    /\ Failed
    /\ UNCHANGED machine

\* configure_node_property is not guarded either: "set -e" ends the script at
\* the first key that cannot be set.  The last one holds a path and is no answer.
PropertiesCutShort ==
    /\ At("properties") /\ "properties" \in Faults
    /\ \E done \in SUBSET Keyed :
          props' = [t \in Keyed \union Tokens |->
                       IF t \in done THEN PropertyOf(t) ELSE props[t]]
    /\ Die
    /\ Failed
    /\ UNCHANGED <<daemons, service, conf, rootpw, config, ufw, entries, populated>>

Kill ==
    /\ "kill" \in Faults
    /\ Die
    /\ Failed
    /\ UNCHANGED machine

-----------------------------------------------------------------------------

Between ==
    \/ \E t \in Templates, v \in Value : Ansible(t, v) \/ Override(t, v)
    \/ Unpack
    \/ \E m \in {"create", "update"} : StartRun(m)
    \/ DialogueCutShort

OpenLdap ==
    \/ ServiceFile \/ ServicePassword
    \/ LdapRunning \/ SlapdConf \/ SlapdStop \/ SlapdEmpty \/ Slaptest \/ SlapdOwner
    \/ \E s \in {"slapdStart", "slapdUp"} : SlapdStart(s)
    \/ \E s \in DOMAIN Adds : AddEntry(s)
    \/ AddNodes \/ MarkPopulated \/ ClearLdapPassword

Stage ==
    \/ \E s \in {"certificates", "ufwServices", "jdk", "schemas", "chmod"} : Check(s)
    \/ NodeProperties \/ UfwHosts \/ Keystore
    \/ ApacheStop \/ ApacheStart \/ TomcatStop \/ TomcatStart
    \/ OpenLdap

Ends ==
    \/ Finish
    \/ \E s \in DOMAIN ExitCodes : ExitWithFailureCode(s)
    \/ \E s \in {"ldapRunning", "slapdUp", "slapdConf", "jdk", "chmod"} : SetE(s)
    \/ PropertiesCutShort
    \/ Kill

PNext == Between \/ SlapdDies \/ Stage \/ Ends

PSpec == PInit /\ [][PNext]_pvars

-----------------------------------------------------------------------------
(* Properties.                                                             *)

\* A run that ends well leaves slapd and its clients with one password, and not
\* the empty one, provided slapd.conf could be written: the file the services
\* read is filled in eight stages before slapd's own, and every exit between
\* them leaves the two apart until the next run.
PasswordsAgree ==
    [][(phase = "configure" /\ outcome' = "ok" /\ phase' = "idle") =>
          /\ service \in Value
          /\ rootpw = service \/ ("slapdConf" \in Faults /\ rootpw = Placeholder)
          /\ config = "usable"]_pvars

\* The directory counts as populated only when its entries are there, whatever
\* runs failed or were killed between two of them, and is never added to again.
PopulatedOnce ==
    [][/\ (populated' /\ ~populated) =>
             {"org"} \union (IF deb[FirstCN] = Yes THEN {"dataone", "cilogon"} ELSE {})
                 \subseteq entries
       /\ populated => entries' = entries]_pvars

\* As long as runs end well and only runs change cn.iplist, the other nodes of
\* cn.iplist may reach port 389.  Updates rely on the changed flag for it.
UfwCovers ==
    (phase = "idle" /\ clean /\ "ufwHosts" \notin Faults) =>
        HostsOf(val[IpList]) \ {Self} \subseteq ufw

\* A first installation that stops between the removal of slapd's configuration
\* and its new one cannot be repaired by another run: slapd does not start, and
\* it has to run before the configuration is generated again.
Stuck ==
    /\ ~populated /\ config # "usable" /\ ~slapd
    /\ phase = "configure" =>
          \A i \in 1 .. at : i <= Len(Order[mode]) => Order[mode][i] # "schemas"
NoWayOut == [][Stuck => Stuck']_pvars

\* An empty LDAP password that is marked seen (a prompt that was not shown) is
\* accepted by every run, and no run gets past slappasswd with it: it goes away
\* only when ansible sets it or a run exits with a failure code.
EmptyPassword == LdapPassword \in seen /\ val[LdapPassword] = Empty
EmptyPasswordStays ==
    [][(EmptyPassword /\ ~EmptyPassword') =>
          phase = "idle" \/ (outcome' = "failed" /\ phase' = "idle")]_pvars

\* Up to there it is true: the first run after an unpack, when it ends well,
\* leaves no answer of an earlier run in the file, and every key is current after
\* any run, although the ones before it may have been cut short between two keys.
FirstAttempt ==
    [][(phase = "configure" /\ outcome' = "ok" /\ phase' = "idle") =>
          /\ \A t \in Keyed : props[t] = PropertyOf(t)
          /\ version = "unpacked" =>
                \A t \in Tokens : props[t] \in {deb[t], Placeholder}]_pvars

\* "the node properties file is always overwritten" (line 2078, on the update
\* path): after an update it holds the answers of that run.  It fails when the
\* update is the second attempt: the placeholders were replaced by the first.
PropertiesCurrent ==
    [][(phase = "configure" /\ mode = "update" /\ outcome' = "ok" /\ phase' = "idle") =>
          \A t \in Tokens : props[t] = deb[t]]_pvars

=============================================================================
