------------------------ MODULE OsCorePostinst_proofs ------------------------
(***************************************************************************)
(* Proofs about the configuration stages of dataone-cn-os-core, for any    *)
(* questions, answers, addresses and faults: they implement OsCoreAnswers, *)
(* a run that ends well leaves one password and the firewall it should,    *)
(* the directory is populated once, and the two ways into a dead end have  *)
(* no way out.                                                             *)
(***************************************************************************)
EXTENDS OsCorePostinst, TLAPS

\* A run has a path and is at one of its stages, or past them; the answers are
\* in debconf, but for the passwords.
RunInv ==
    /\ phase = "configure" =>
          /\ mode \in {"create", "update"}
          /\ at \in 1 .. Len(Order[mode]) + 1
          /\ \A t \in Templates \ Passwords : val[t] = deb[t]

\* The passwords are in debconf up to the stages that end with Clear, and gone
\* afterwards.
WipedInv ==
    phase = "configure" =>
        /\ at > 6 => val[KeystorePassword] = Empty /\ KeystorePassword \notin seen
        /\ at <= 26 => val[LdapPassword] = deb[LdapPassword]
        /\ at > 26 => val[LdapPassword] = Empty /\ LdapPassword \notin seen

\* The other nodes of a cn.iplist may reach port 389.
Covered(v) == HostsOf(v) \ {Self} \subseteq ufw

\* The stage of the firewall is over.
UfwPassed == at > IF mode = "create" THEN 3 ELSE 4

\* While all is clean the firewall is that of the last run's list; a run that
\* will not set it has that list as well.
UfwInv ==
    clean =>
        /\ phase = "idle" => val[IpList] # Empty
        /\ phase = "configure" /\ UfwPassed => deb[IpList] # Empty
        /\ "ufwHosts" \notin Faults =>
              /\ phase = "idle" => Covered(val[IpList])
              /\ phase = "configure" /\ (UfwPassed \/ ~SetsUfw) => Covered(deb[IpList])

\* A password that is not empty, or none because of a fault.
Hashed(pw) ==
    /\ deb[LdapPassword] # Empty
    /\ pw = deb[LdapPassword] \/ ("slapdConf" \in Faults /\ pw = Placeholder)

\* How far the password and slapd's configuration have come.
PasswordInv ==
    phase = "configure" =>
        /\ at > 11 => service = deb[LdapPassword]
        /\ at > 14 /\ conf # NoFile => Hashed(conf)
        /\ at > 17 => Hashed(rootpw)
        /\ at > 18 => config = "usable"

\* The entries a run has passed are there.
EntriesInv ==
    phase = "configure" /\ ~populated =>
        /\ at > 21 => "org" \in entries
        /\ at > 22 /\ deb[FirstCN] = Yes => "dataone" \in entries
        /\ at > 23 /\ deb[FirstCN] = Yes => "cilogon" \in entries

\* Until its stage node.properties is as dpkg unpacked it, unless a run has come
\* to the stage before; after it the file has the answers of the run.
PropertiesInv ==
    /\ version = "unpacked" /\ (phase = "configure" => at <= 2) =>
          \A t \in Tokens : props[t] = Placeholder
    /\ phase = "configure" /\ at > 2 =>
          /\ \A t \in Keyed : props[t] = PropertyOf(t)
          /\ version = "unpacked" => \A t \in Tokens : props[t] \in {deb[t], Placeholder}

Inv == PTypeOK /\ RunInv /\ WipedInv /\ UfwInv /\ PasswordInv /\ EntriesInv /\ PropertiesInv

-----------------------------------------------------------------------------
(* The places of the stages.                                               *)

\* The two orders, place by place.
LEMMA Orders ==
    /\ Len(Order["create"]) = 28 /\ Len(Order["update"]) = 26
    /\ \A m \in {"create", "update"} :
          /\ Order[m][1] = "certificates" /\ Order[m][2] = "properties"
          /\ Order[m][6] = "keystore" /\ Order[m][7] = "apacheStop"
          /\ Order[m][8] = "apacheStart" /\ Order[m][9] = "tomcatStop"
          /\ Order[m][10] = "serviceFile" /\ Order[m][11] = "servicePassword"
          /\ Order[m][12] = "ldapRunning" /\ Order[m][13] = "schemas"
          /\ Order[m][14] = "slapdConf" /\ Order[m][15] = "slapdStop"
          /\ Order[m][16] = "slapdEmpty" /\ Order[m][17] = "slaptest"
          /\ Order[m][18] = "slapdOwner" /\ Order[m][19] = "slapdStart"
          /\ Order[m][20] = "slapdUp" /\ Order[m][21] = "addOrg"
          /\ Order[m][22] = "addDataone" /\ Order[m][23] = "addCilogon"
          /\ Order[m][24] = "addNodes" /\ Order[m][25] = "markPopulated"
          /\ Order[m][26] = "ldapPassword"
    /\ Order["create"][3] = "ufwHosts" /\ Order["create"][4] = "ufwServices"
    /\ Order["create"][5] = "jdk"
    /\ Order["update"][3] = "jdk" /\ Order["update"][4] = "ufwHosts"
    /\ Order["update"][5] = "ufwServices"
    /\ Order["create"][27] = "tomcatStart" /\ Order["create"][28] = "chmod"
  BY DEF Order

\* The place of each stage in a run.
LEMMA Places ==
    ASSUME RunInv, phase = "configure"
    PROVE  /\ Len(Order[mode]) = IF mode = "create" THEN 28 ELSE 26
           /\ At("properties") <=> at = 2
           /\ At("ufwHosts") <=> at = IF mode = "create" THEN 3 ELSE 4
           /\ \A s \in {"certificates", "ufwServices", "jdk"} : At(s) => at \in {1, 3, 4, 5}
           /\ At("keystore") <=> at = 6
           /\ At("apacheStop") => at = 7
           /\ At("apacheStart") => at = 8
           /\ At("tomcatStop") => at = 9
           /\ At("serviceFile") => at = 10
           /\ At("servicePassword") <=> at = 11
           /\ At("ldapRunning") <=> at = 12
           /\ At("schemas") => at = 13
           /\ At("slapdConf") <=> at = 14
           /\ At("slapdStop") => at = 15
           /\ At("slapdEmpty") => at = 16
           /\ At("slaptest") <=> at = 17
           /\ At("slapdOwner") <=> at = 18
           /\ At("slapdStart") => at = 19
           /\ At("slapdUp") => at = 20
           /\ At("addOrg") <=> at = 21
           /\ At("addDataone") <=> at = 22
           /\ At("addCilogon") <=> at = 23
           /\ At("addNodes") <=> at = 24
           /\ At("markPopulated") <=> at = 25
           /\ At("ldapPassword") <=> at = 26
           /\ At("tomcatStart") => at = 27
           /\ At("chmod") => at = 28
  <1>1. CASE mode = "create"
    <2>1. at \in 1 .. 29
      BY <1>1, Orders DEF RunInv
    <2>. QED
      BY <1>1, <2>1, Orders DEF At
  <1>2. CASE mode = "update"
    <2>1. at \in 1 .. 27
      BY <1>2, Orders DEF RunInv
    <2>. QED
      BY <1>2, <2>1, Orders DEF At
  <1>. QED
    BY <1>1, <1>2 DEF RunInv

-----------------------------------------------------------------------------
(* What the stages do, by their places.                                    *)

\* What every stage leaves alone, and where each of the variables changes.
Effect ==
    /\ phase = "configure" /\ at \in 1 .. Len(Order[mode]) /\ at' = at + 1
    /\ UNCHANGED <<installed, phase, mode, deb, changed, outcome>>
    /\ at = 6 => Clear(KeystorePassword)
    /\ at = 26 => Clear(LdapPassword)
    /\ at \notin {6, 26} => UNCHANGED <<val, seen>>
    /\ version' = version
    /\ IF At("ufwHosts") THEN UfwHosts ELSE UNCHANGED <<ufw, clean>>
    /\ IF at = 2 THEN NodeProperties ELSE props' = props
    /\ at = 11 => service' = deb[LdapPassword]
    /\ at > 11 => service' = service
    /\ IF at = 14 THEN SlapdConf ELSE conf' = conf
    /\ IF at = 17 THEN Slaptest ELSE rootpw' = rootpw
    /\ IF at = 18 THEN config' = "usable" ELSE at \notin {16, 17} => config' = config
    /\ at = 12 => LdapRunning
    /\ at < 12 => slapd' = slapd
    /\ at = 21 => AddEntry("addOrg")
    /\ at = 22 => AddEntry("addDataone")
    /\ at = 23 => AddEntry("addCilogon")
    /\ at = 24 => entries \subseteq entries'
    /\ at \notin 21 .. 24 \/ populated => entries' = entries
    /\ IF at = 25 THEN populated' = TRUE ELSE populated' = populated

\* Every stage has its effect.
LEMMA Effects == RunInv /\ Stage => Effect
  <1> SUFFICES ASSUME RunInv, Stage PROVE Effect
    OBVIOUS
  <1> USE Places DEF Effect, Proceed, answers, machine, daemons, files, history
  <1>0. ASSUME NEW s, At(s)
        PROVE  phase = "configure" /\ at \in 1 .. Len(Order[mode])
    BY <1>0 DEF At
  <1>1. ASSUME NEW s \in {"certificates", "ufwServices", "jdk", "schemas", "chmod"}, Check(s)
        PROVE  Effect
    BY <1>0, <1>1 DEF Check, At
  <1>2. CASE NodeProperties
    <2>1. /\ At("properties") /\ at' = at + 1
          /\ UNCHANGED <<answers, daemons, service, conf, rootpw, config, ufw, entries,
                         populated, history>>
      BY <1>2 DEF NodeProperties
    <2>2. phase = "configure" /\ at \in 1 .. Len(Order[mode]) /\ at = 2
      BY <1>0, <2>1
    <2>. QED
      BY <1>2, <2>1, <2>2
  <1>3. CASE UfwHosts
    <2>1. /\ At("ufwHosts") /\ at' = at + 1
          /\ UNCHANGED <<answers, daemons, files, entries, populated, version>>
      BY <1>3 DEF UfwHosts
    <2>2. phase = "configure" /\ at \in 1 .. Len(Order[mode]) /\ at \in {3, 4}
      BY <1>0, <2>1
    <2>. QED
      BY <1>3, <2>1, <2>2
  <1>4. CASE Keystore
    BY <1>0, <1>4 DEF Keystore, Clear
  <1>5. CASE ApacheStop
    BY <1>0, <1>5 DEF ApacheStop
  <1>6. CASE ApacheStart
    BY <1>0, <1>6 DEF ApacheStart
  <1>7. CASE TomcatStop
    BY <1>0, <1>7 DEF TomcatStop
  <1>8. CASE TomcatStart
    BY <1>0, <1>8 DEF TomcatStart
  <1>9. CASE ServiceFile
    BY <1>0, <1>9 DEF ServiceFile
  <1>10. CASE ServicePassword
    BY <1>0, <1>10 DEF ServicePassword
  <1>11. CASE LdapRunning
    BY <1>0, <1>11 DEF LdapRunning
  <1>12. CASE SlapdConf
    BY <1>0, <1>12 DEF SlapdConf
  <1>13. CASE SlapdStop
    BY <1>0, <1>13 DEF SlapdStop
  <1>14. CASE SlapdEmpty
    BY <1>0, <1>14 DEF SlapdEmpty
  <1>15. CASE Slaptest
    BY <1>0, <1>15 DEF Slaptest
  <1>16. CASE SlapdOwner
    BY <1>0, <1>16 DEF SlapdOwner
  <1>17. ASSUME NEW s \in {"slapdStart", "slapdUp"}, SlapdStart(s) PROVE Effect
    <2>1. /\ s \in {"slapdStart", "slapdUp"} /\ At(s) /\ at' = at + 1
          /\ UNCHANGED <<answers, apache, tomcat, files, ufw, entries, populated, history>>
      BY <1>17 DEF SlapdStart
    <2>2. phase = "configure" /\ at \in 1 .. Len(Order[mode]) /\ at \in {19, 20}
      BY <1>0, <2>1
    <2>. QED
      BY <2>1, <2>2
  <1>18. ASSUME NEW s \in DOMAIN Adds, AddEntry(s) PROVE Effect
    <2>1. s \in {"addOrg", "addDataone", "addCilogon"}
      BY DEF Adds
    <2>2. /\ At(s) /\ at' = at + 1
          /\ UNCHANGED <<answers, daemons, files, ufw, populated, history>>
          /\ populated => entries' = entries
      BY <1>18 DEF AddEntry, Wanted
    <2>3. /\ phase = "configure" /\ at \in 1 .. Len(Order[mode])
          /\ \/ s = "addOrg" /\ at = 21
             \/ s = "addDataone" /\ at = 22
             \/ s = "addCilogon" /\ at = 23
      BY <1>0, <2>1, <2>2
    <2>. QED
      BY <1>18, <2>2, <2>3
  <1>19. CASE AddNodes
    BY <1>0, <1>19 DEF AddNodes
  <1>20. CASE MarkPopulated
    <2>1. /\ At("markPopulated") /\ at' = at + 1 /\ populated' = TRUE
          /\ UNCHANGED <<answers, daemons, files, ufw, entries, history>>
      BY <1>20 DEF MarkPopulated
    <2>2. phase = "configure" /\ at \in 1 .. Len(Order[mode]) /\ at = 25
      BY <1>0, <2>1
    <2>. QED
      BY <2>1, <2>2
  <1>21. CASE ClearLdapPassword
    BY <1>0, <1>21 DEF ClearLdapPassword, Clear
  <1> HIDE Places DEF Effect, Proceed, answers, machine, daemons, files, history
  <1>. QED
    BY <1>1, <1>2, <1>3, <1>4, <1>5, <1>6, <1>7, <1>8, <1>9, <1>10, <1>11, <1>12,
       <1>13, <1>14, <1>15, <1>16, <1>17, <1>18, <1>19, <1>20, <1>21
       DEF Stage, OpenLdap

-----------------------------------------------------------------------------
(* The kinds of steps.                                                     *)

\* A step between runs, which starts one at the first stage.
Starts == \E m \in {"create", "update"} : StartRun(m)

\* The answers, the firewall and what the stages have come to depend on these
\* kinds of steps.
LEMMA Kinds ==
    ASSUME PNext
    PROVE  \/ \E t \in Templates, v \in Value : Ansible(t, v) \/ Override(t, v)
           \/ Unpack
           \/ Starts
           \/ DialogueCutShort
           \/ SlapdDies
           \/ Stage
           \/ Finish
           \/ PropertiesCutShort
           \/ /\ \E s \in DOMAIN ExitCodes : ExitWithFailureCode(s)
              /\ Fail /\ Failed /\ UNCHANGED machine
           \/ Die /\ Failed /\ UNCHANGED machine
  BY DEF PNext, Between, Ends, Starts, ExitWithFailureCode, SetE, Kill

-----------------------------------------------------------------------------
(* Type correctness.                                                       *)

\* The steps that change answers keep their types.
LEMMA AnswersTyped ==
    ASSUME AnswersTypeOK,
           \/ \E t \in Templates, v \in Value : Provide(t, v) \/ Change(t, v)
           \/ \E m \in {"create", "update"} : Settle(m)
           \/ CutShort
           \/ \E p \in Passwords : Clear(p)
           \/ Fail \/ Die \/ Finish
           \/ UNCHANGED answers
    PROVE  AnswersTypeOK'
  <1> USE Questions, Stages DEF AnswersTypeOK, Stored
  <1>0. Passwords \subseteq Templates /\ Derived \subseteq Templates /\ Configured \subseteq Templates
    BY DEF Templates
  <1>n. NoAnswer \in [Templates -> Stored]
    BY DEF NoAnswer
  <1>1. ASSUME NEW t \in Templates, NEW v \in Value, Provide(t, v) PROVE AnswersTypeOK'
    BY <1>1 DEF Provide
  <1>2. ASSUME NEW t \in Templates, NEW v \in Value, Change(t, v) PROVE AnswersTypeOK'
    BY <1>2 DEF Change
  <1>3. ASSUME NEW m \in {"create", "update"}, Settle(m) PROVE AnswersTypeOK'
    <2>1. /\ phase' = "configure" /\ mode' = m /\ deb' \in [Templates -> Stored]
          /\ val' = deb' /\ UNCHANGED <<installed, outcome>>
      BY <1>3 DEF Settle
    <2>2. changed' \subseteq Templates
      BY <1>0, <1>3 DEF Settle
    <2>3. seen' \subseteq Templates
      BY <1>0, <1>3 DEF Settle
    <2>. QED
      BY <2>1, <2>2, <2>3
  <1>4. CASE CutShort
    BY <1>4 DEF CutShort
  <1>5. ASSUME NEW p \in Passwords, Clear(p) PROVE AnswersTypeOK'
    BY <1>0, <1>5 DEF Clear
  <1>6. CASE Fail
    BY <1>n, <1>6 DEF Fail, Over
  <1>7. CASE Die
    BY <1>n, <1>7 DEF Die, Over
  <1>8. CASE Finish
    <2>1. seen' \subseteq Templates
      BY <1>8 DEF Finish
    <2>. QED
      BY <1>n, <1>8, <2>1 DEF Finish, Over
  <1>9. CASE UNCHANGED answers
    BY <1>9 DEF answers
  <1> HIDE Questions, Stages DEF AnswersTypeOK, Stored
  <1>. QED
    BY <1>1, <1>2, <1>3, <1>4, <1>5, <1>6, <1>7, <1>8, <1>9

\* The machine's part of the type invariant.
MachineTypeOK ==
    /\ apache \in BOOLEAN /\ tomcat \in BOOLEAN /\ slapd \in BOOLEAN
    /\ ufw \subseteq Address
    /\ props \in [Keyed \union Tokens -> Stored \union {Localhost, Placeholder}]
    /\ service \in Stored \union {Placeholder}
    /\ conf \in Stored \union {Placeholder, NoFile}
    /\ rootpw \in Stored \union {Placeholder}
    /\ config \in {"none", "root", "usable"}
    /\ entries \subseteq Entry
    /\ populated \in BOOLEAN
    /\ version \in {"unpacked", "tried", "configured"}
    /\ clean \in BOOLEAN

\* The stages keep the machine's types.
LEMMA MachineTyped == AnswersTypeOK /\ MachineTypeOK /\ Stage => MachineTypeOK'
  <1> SUFFICES ASSUME AnswersTypeOK, MachineTypeOK, Stage PROVE MachineTypeOK'
    OBVIOUS
  <1>0. /\ deb \in [Templates -> Stored]
        /\ IpList \in Templates /\ LdapPassword \in Templates
        /\ Keyed \union Tokens \subseteq Templates
    BY Questions, Stages DEF AnswersTypeOK, Templates
  <1>h. HostsOf(deb[IpList]) \subseteq Address
    BY <1>0, Stages DEF HostsOf, Stored
  <1> USE <1>0 DEF MachineTypeOK, answers, machine, daemons, files, history
  <1>1. ASSUME NEW s \in {"certificates", "ufwServices", "jdk", "schemas", "chmod"}, Check(s)
        PROVE  MachineTypeOK'
    BY <1>1 DEF Check
  <1>2. CASE NodeProperties
    <2>1. props' \in [Keyed \union Tokens -> Stored \union {Localhost, Placeholder}]
      BY <1>2 DEF NodeProperties, PropertyOf
    <2>. QED
      BY <1>2, <2>1 DEF NodeProperties
  <1>3. CASE UfwHosts
    <2>1. ufw' \subseteq Address
      BY <1>3, <1>h DEF UfwHosts
    <2>2. clean' \in BOOLEAN
      BY <1>3, Zenon DEF UfwHosts
    <2>. QED
      BY <1>3, <2>1, <2>2 DEF UfwHosts
  <1>4. CASE Keystore
    BY <1>4 DEF Keystore
  <1>5. CASE ApacheStop
    BY <1>5 DEF ApacheStop
  <1>6. CASE ApacheStart
    BY <1>6 DEF ApacheStart
  <1>7. CASE TomcatStop
    BY <1>7 DEF TomcatStop
  <1>8. CASE TomcatStart
    BY <1>8 DEF TomcatStart
  <1>9. CASE ServiceFile
    BY <1>9 DEF ServiceFile
  <1>10. CASE ServicePassword
    BY <1>10 DEF ServicePassword
  <1>11. CASE LdapRunning
    <2>1. slapd' \in BOOLEAN
      BY <1>11, Zenon DEF LdapRunning
    <2>. QED
      BY <1>11, <2>1 DEF LdapRunning
  <1>12. CASE SlapdConf
    BY <1>12 DEF SlapdConf
  <1>13. CASE SlapdStop
    BY <1>13 DEF SlapdStop
  <1>14. CASE SlapdEmpty
    BY <1>14 DEF SlapdEmpty
  <1>15. CASE Slaptest
    BY <1>15 DEF Slaptest, CanRebuild
  <1>16. CASE SlapdOwner
    BY <1>16 DEF SlapdOwner
  <1>17. ASSUME NEW s \in {"slapdStart", "slapdUp"}, SlapdStart(s) PROVE MachineTypeOK'
    BY <1>17 DEF SlapdStart
  <1>18. ASSUME NEW s \in DOMAIN Adds, AddEntry(s) PROVE MachineTypeOK'
    <2>1. Adds[s] \in Entry
      BY DEF Adds, Entry
    <2>. QED
      BY <1>18, <2>1 DEF AddEntry
  <1>19. CASE AddNodes
    BY <1>19 DEF AddNodes, Entry
  <1>20. CASE MarkPopulated
    BY <1>20 DEF MarkPopulated
  <1>21. CASE ClearLdapPassword
    BY <1>21 DEF ClearLdapPassword
  <1> HIDE <1>0 DEF MachineTypeOK, answers, machine, daemons, files, history
  <1>. QED
    BY <1>1, <1>2, <1>3, <1>4, <1>5, <1>6, <1>7, <1>8, <1>9, <1>10, <1>11, <1>12,
       <1>13, <1>14, <1>15, <1>16, <1>17, <1>18, <1>19, <1>20, <1>21
       DEF Stage, OpenLdap

\* Where a run is, and what its answers have to do with debconf.
LEMMA RunStep == AnswersTypeOK /\ RunInv /\ [PNext]_pvars => RunInv'
  <1> SUFFICES ASSUME AnswersTypeOK, RunInv, [PNext]_pvars PROVE RunInv'
    OBVIOUS
  <1>1. ASSUME NEW t \in Templates, NEW v \in Value, Ansible(t, v) \/ Override(t, v)
        PROVE  RunInv'
    BY <1>1 DEF Ansible, Override, Provide, Change, RunInv
  <1>2. ASSUME Unpack \/ DialogueCutShort PROVE RunInv'
    BY <1>2 DEF Unpack, DialogueCutShort, CutShort, RunInv, answers
  <1>3. CASE Starts
    <2>1. PICK m \in {"create", "update"} : StartRun(m)
      BY <1>3 DEF Starts
    <2>2. mode' = m /\ at' = 1 /\ val' = deb'
      BY <2>1 DEF StartRun, Settle
    <2>3. Len(Order[m]) \in {26, 28}
      BY Orders
    <2>. QED
      BY <2>2, <2>3 DEF RunInv
  <1>4. CASE SlapdDies
    BY <1>4 DEF SlapdDies, RunInv, answers
  <1>5. CASE Stage
    <2>1. Effect
      BY <1>5, Effects
    <2>2. /\ phase = "configure" /\ at \in 1 .. Len(Order[mode]) /\ at' = at + 1
          /\ mode' = mode /\ deb' = deb
      BY <2>1 DEF Effect
    <2>3. Len(Order[mode]) \in Nat
      BY <2>2, Places
    <2>4. ASSUME NEW t \in Templates \ Passwords PROVE val'[t] = val[t]
      BY <2>1, <2>2, <2>4, Stages DEF Effect, Clear, AnswersTypeOK
    <2>. QED
      BY <2>2, <2>3, <2>4 DEF RunInv
  <1>6. ASSUME Finish \/ Fail \/ Die \/ PropertiesCutShort PROVE RunInv'
    BY <1>6 DEF Finish, Fail, PropertiesCutShort, Die, Over, RunInv
  <1>7. CASE UNCHANGED pvars
    BY <1>7 DEF pvars, answers, RunInv
  <1>. QED
    BY <1>1, <1>2, <1>3, <1>4, <1>5, <1>6, <1>7, Kinds

\* Every step keeps the types.
LEMMA TypeStep == PTypeOK /\ RunInv /\ [PNext]_pvars => PTypeOK'
  <1> SUFFICES ASSUME PTypeOK, RunInv, [PNext]_pvars PROVE PTypeOK'
    OBVIOUS
  <1>a. AnswersTypeOK /\ MachineTypeOK /\ at \in 0 .. 29
    BY Orders DEF PTypeOK, MachineTypeOK
  <1>b. AnswersTypeOK' /\ MachineTypeOK' /\ at' \in 0 .. 29 => PTypeOK'
    BY Orders DEF PTypeOK, MachineTypeOK
  <1>m. UNCHANGED machine /\ clean' \in BOOLEAN /\ (Failed \/ version' = version) => MachineTypeOK'
    BY <1>a DEF MachineTypeOK, machine, daemons, files, Failed
  <1>1. ASSUME NEW t \in Templates, NEW v \in Value, Ansible(t, v) \/ Override(t, v)
        PROVE  PTypeOK'
    <2>1. AnswersTypeOK'
      BY <1>1, <1>a, AnswersTyped DEF Ansible, Override
    <2>2. clean' \in BOOLEAN /\ at' = at /\ UNCHANGED <<machine, version>>
      BY <1>1, Zenon DEF Ansible, Override
    <2>. QED
      BY <1>a, <1>b, <1>m, <2>1, <2>2
  <1>2. CASE Unpack
    <2>1. Keyed \union Tokens \subseteq Templates
      BY Stages
    <2>2. props' \in [Keyed \union Tokens -> Stored \union {Localhost, Placeholder}]
      BY <1>2 DEF Unpack, Unpacked
    <2>3. MachineTypeOK'
      BY <1>2, <1>a, <2>2 DEF Unpack, MachineTypeOK, daemons
    <2>4. AnswersTypeOK' /\ at' = at
      BY <1>2, <1>a, AnswersTyped DEF Unpack
    <2>. QED
      BY <1>a, <1>b, <2>3, <2>4
  <1>3. CASE Starts
    <2>1. AnswersTypeOK' /\ at' = 1 /\ UNCHANGED <<machine, history>>
      BY <1>3, <1>a, AnswersTyped DEF Starts, StartRun
    <2>. QED
      BY <1>a, <1>b, <1>m, <2>1 DEF MachineTypeOK, history
  <1>4. CASE DialogueCutShort
    <2>1. AnswersTypeOK'
      BY <1>4, <1>a, AnswersTyped DEF DialogueCutShort
    <2>2. at' = 0 /\ clean' \in BOOLEAN /\ Failed /\ UNCHANGED machine
      BY <1>4 DEF DialogueCutShort, Failed
    <2>. QED
      BY <1>b, <1>m, <2>1, <2>2
  <1>5. CASE SlapdDies
    <2>1. MachineTypeOK'
      BY <1>5, <1>a DEF SlapdDies, MachineTypeOK, files, history
    <2>. QED
      BY <1>5, <1>a, <1>b, <2>1, AnswersTyped DEF SlapdDies
  <1>6. CASE Stage
    <2>1. Effect
      BY <1>6, Effects
    <2>2. at' \in 0 .. 29
      BY <2>1, Places DEF Effect
    <2>3. AnswersTypeOK'
      <3>1. \/ Clear(KeystorePassword) \/ Clear(LdapPassword) \/ UNCHANGED answers
        BY <2>1 DEF Effect, answers
      <3>. QED
        BY <1>a, <3>1, AnswersTyped, Stages
    <2>. QED
      BY <1>6, <1>a, <1>b, <2>2, <2>3, MachineTyped
  <1>7. CASE Finish
    <2>1. AnswersTypeOK'
      BY <1>7, <1>a, AnswersTyped
    <2>2. at' = 0 /\ version' = "configured" /\ UNCHANGED <<machine, clean>>
      BY <1>7 DEF Finish
    <2>. QED
      BY <1>a, <1>b, <2>1, <2>2 DEF MachineTypeOK, machine, daemons, files
  <1>8. ASSUME Fail \/ Die, Failed, UNCHANGED machine PROVE PTypeOK'
    <2>1. AnswersTypeOK'
      BY <1>8, <1>a, AnswersTyped
    <2>2. clean' \in BOOLEAN /\ at' = 0
      BY <1>8 DEF Failed
    <2>3. MachineTypeOK' /\ at' \in 0 .. 29
      BY <1>8, <1>m, <2>2
    <2>. QED
      BY <1>b, <2>1, <2>3
  <1>9. CASE UNCHANGED pvars
    BY <1>9, <1>a, <1>b, <1>m, AnswersTyped DEF pvars, history, MachineTypeOK
  <1>10. CASE PropertiesCutShort
    <2>1. AnswersTypeOK' /\ at' = 0
      BY <1>10, <1>a, AnswersTyped DEF PropertiesCutShort, Failed
    <2>2. /\ deb \in [Templates -> Stored]
          /\ Keyed \union Tokens \subseteq Templates
      BY <1>a, Stages DEF AnswersTypeOK
    <2>3. props' \in [Keyed \union Tokens -> Stored \union {Localhost, Placeholder}]
      BY <1>10, <1>a, <2>2 DEF PropertiesCutShort, PropertyOf, MachineTypeOK
    <2>4. MachineTypeOK'
      BY <1>10, <1>a, <2>3 DEF PropertiesCutShort, Failed, MachineTypeOK, daemons
    <2>. QED
      BY <1>b, <2>1, <2>4
  <1>. QED
    BY <1>1, <1>2, <1>3, <1>4, <1>5, <1>6, <1>7, <1>8, <1>9, <1>10, Kinds

-----------------------------------------------------------------------------
(* The passwords in debconf.                                               *)

\* Each password is wiped by the stage that works with it.
LEMMA WipedStep == AnswersTypeOK /\ RunInv /\ WipedInv /\ [PNext]_pvars => WipedInv'
  <1> SUFFICES ASSUME AnswersTypeOK, RunInv, WipedInv, [PNext]_pvars PROVE WipedInv'
    OBVIOUS
  <1>1. ASSUME NEW t \in Templates, NEW v \in Value, Ansible(t, v) \/ Override(t, v)
        PROVE  WipedInv'
    BY <1>1 DEF Ansible, Override, Provide, Change, WipedInv
  <1>2. ASSUME Unpack \/ DialogueCutShort PROVE WipedInv'
    BY <1>2 DEF Unpack, DialogueCutShort, CutShort, WipedInv, answers
  <1>3. CASE Starts
    <2>1. val' = deb' /\ at' = 1
      BY <1>3 DEF Starts, StartRun, Settle
    <2>. QED
      BY <2>1 DEF WipedInv
  <1>4. CASE SlapdDies
    BY <1>4 DEF SlapdDies, WipedInv, answers
  <1>5. CASE Stage
    <2>1. Effect
      BY <1>5, Effects
    <2>2. /\ phase = "configure" /\ at \in 1 .. Len(Order[mode]) /\ at' = at + 1
          /\ phase' = "configure" /\ deb' = deb /\ Len(Order[mode]) \in Nat
      BY <2>1, Places DEF Effect
    <2>t. /\ val \in [Templates -> Stored]
          /\ KeystorePassword \in Templates /\ LdapPassword \in Templates
          /\ KeystorePassword # LdapPassword
      BY Questions, Stages DEF AnswersTypeOK, Templates
    <2>3. CASE at = 6
      <3>1. Clear(KeystorePassword)
        BY <2>1, <2>3 DEF Effect
      <3>. QED
        BY <2>2, <2>3, <2>t, <3>1 DEF WipedInv, Clear
    <2>4. CASE at = 26
      <3>1. Clear(LdapPassword)
        BY <2>1, <2>4 DEF Effect
      <3>. QED
        BY <2>2, <2>4, <2>t, <3>1 DEF WipedInv, Clear
    <2>5. CASE at \notin {6, 26}
      <3>1. UNCHANGED <<val, seen>>
        BY <2>1, <2>5 DEF Effect
      <3>. QED
        BY <2>2, <2>5, <3>1 DEF WipedInv
    <2>. QED
      BY <2>3, <2>4, <2>5
  <1>6. ASSUME Finish \/ Fail \/ Die \/ PropertiesCutShort PROVE WipedInv'
    BY <1>6 DEF Finish, Fail, PropertiesCutShort, Die, Over, WipedInv
  <1>7. CASE UNCHANGED pvars
    BY <1>7 DEF pvars, answers, WipedInv
  <1>. QED
    BY <1>1, <1>2, <1>3, <1>4, <1>5, <1>6, <1>7, Kinds

-----------------------------------------------------------------------------
(* The firewall.                                                           *)

\* An update that finds the list of the nodes as it is in debconf has left it
\* so, once there is one: the changed flag tells.
LEMMA ListKept ==
    ASSUME Settle("update"), IpList \notin changed', val[IpList] # Empty
    PROVE  deb'[IpList] = val[IpList]
  <1>0. IpList \in Templates /\ IpList \in Derived /\ IpList \in Compared
    BY Questions, Stages DEF Templates
  <1>1. ~Unreliable("update", IpList)
    BY <1>0 DEF Unreliable
  <1>2. {t \in {t \in Templates : deb'[t] # val[t]} \ seen : ~Unreliable("update", t)}
           \subseteq changed'
    BY DEF Settle
  <1>3. CASE IpList \in seen
    <2>1. PICK x \in XmlVersion : Answer("update", x, IpList, deb'[IpList])
      BY <1>0 DEF Settle
    <2>. QED
      BY <1>0, <1>3, <2>1 DEF Answer
  <1>4. CASE IpList \notin seen
    BY <1>0, <1>1, <1>2, <1>4
  <1>. QED
    BY <1>3, <1>4

\* A clean machine stays covered.
LEMMA UfwStep == AnswersTypeOK /\ RunInv /\ UfwInv /\ [PNext]_pvars => UfwInv'
  <1> SUFFICES ASSUME AnswersTypeOK, RunInv, UfwInv, [PNext]_pvars, clean' PROVE UfwInv'
    BY DEF UfwInv
  <1>0. IpList \in Templates \ Passwords
    BY Questions, Stages DEF Templates
  <1>1. ASSUME NEW t \in Templates, NEW v \in Value, Ansible(t, v) \/ Override(t, v)
        PROVE  UfwInv'
    <2>1. /\ clean /\ phase = "idle" /\ phase' = "idle" /\ ufw' = ufw
          /\ t # IpList /\ val' = [val EXCEPT ![t] = v]
      BY <1>1 DEF Ansible, Override, Provide, Change, machine
    <2>2. val'[IpList] = val[IpList]
      BY <1>0, <2>1 DEF AnswersTypeOK
    <2>. QED
      BY <2>1, <2>2 DEF UfwInv, Covered
  <1>2. CASE Unpack \/ SlapdDies \/ UNCHANGED pvars
    BY <1>2 DEF Unpack, SlapdDies, pvars, machine, answers, history, UfwInv, Covered,
       UfwPassed, SetsUfw
  <1>3. CASE Starts
    <2>1. PICK m \in {"create", "update"} : StartRun(m)
      BY <1>3 DEF Starts
    <2>2. /\ phase = "idle" /\ phase' = "configure" /\ mode' = m /\ at' = 1
          /\ clean /\ ufw' = ufw
      BY <2>1 DEF StartRun, Settle, machine, history
    <2>3. ~UfwPassed'
      BY <2>2 DEF UfwPassed
    <2>4. ASSUME "ufwHosts" \notin Faults, ~SetsUfw' PROVE Covered(deb[IpList])'
      <3>1. m = "update" /\ IpList \notin changed'
        BY <2>2, <2>4 DEF SetsUfw
      <3>2. val[IpList] # Empty /\ Covered(val[IpList])
        BY <2>2, <2>4 DEF UfwInv
      <3>3. deb'[IpList] = val[IpList]
        BY <2>1, <3>1, <3>2, ListKept DEF StartRun
      <3>. QED
        BY <2>2, <3>2, <3>3 DEF Covered
    <2>. QED
      BY <2>2, <2>3, <2>4 DEF UfwInv
  <1>4. CASE Stage
    <2>1. Effect
      BY <1>4, Effects
    <2>2. /\ phase = "configure" /\ phase' = "configure" /\ at' = at + 1 /\ at \in Nat
          /\ UNCHANGED <<mode, deb, changed>>
      BY <2>1, Places DEF Effect
    <2>3. CASE At("ufwHosts")
      <3>1. UfwHosts
        BY <2>1, <2>3 DEF Effect
      <3>2. (clean \/ SetsUfw) /\ deb[IpList] # Empty
        BY <3>1, Zenon DEF UfwHosts
      <3>3. ASSUME "ufwHosts" \notin Faults PROVE Covered(deb[IpList])'
        <4>1. ufw' = IF SetsUfw THEN ufw \union (HostsOf(deb[IpList]) \ {Self}) ELSE ufw
          BY <3>1, <3>3 DEF UfwHosts
        <4>2. SetsUfw \/ Covered(deb[IpList])
          BY <2>2, <3>2, <3>3 DEF UfwInv
        <4>. QED
          BY <2>2, <4>1, <4>2 DEF Covered
      <3>. QED
        BY <2>2, <3>2, <3>3 DEF UfwInv
    <2>4. CASE ~At("ufwHosts")
      <3>1. UNCHANGED <<ufw, clean>>
        BY <2>1, <2>4 DEF Effect
      <3>2. UfwPassed' => UfwPassed
        BY <2>2, <2>4, Places DEF UfwPassed
      <3>3. SetsUfw' <=> SetsUfw
        BY <2>2 DEF SetsUfw
      <3>. QED
        BY <2>2, <3>1, <3>2, <3>3 DEF UfwInv, Covered
    <2>. QED
      BY <2>3, <2>4
  <1>5. CASE Finish
    <2>1. /\ phase = "configure" /\ phase' = "idle" /\ val' = val /\ ufw' = ufw /\ clean
          /\ at = Len(Order[mode]) + 1
      BY <1>5 DEF Finish, Over, machine
    <2>2. UfwPassed
      BY <2>1, Places DEF UfwPassed
    <2>3. val[IpList] = deb[IpList]
      BY <1>0, <2>1 DEF RunInv
    <2>. QED
      BY <2>1, <2>2, <2>3 DEF UfwInv, Covered
  <1>6. CASE DialogueCutShort \/ PropertiesCutShort \/ clean' = FALSE
    BY <1>6 DEF DialogueCutShort, PropertiesCutShort, Failed
  <1>. QED
    BY <1>1, <1>2, <1>3, <1>4, <1>5, <1>6, Kinds DEF Failed

-----------------------------------------------------------------------------
(* The LDAP password and slapd's configuration.                            *)

\* Every stage of configure_openldap leaves the password where it should be.
LEMMA PasswordStep == AnswersTypeOK /\ RunInv /\ PasswordInv /\ [PNext]_pvars => PasswordInv'
  <1> SUFFICES ASSUME AnswersTypeOK, RunInv, PasswordInv, [PNext]_pvars,
                      phase' = "configure"
               PROVE  PasswordInv'
    BY DEF PasswordInv
  <1>1. ASSUME NEW t \in Templates, NEW v \in Value, Ansible(t, v) \/ Override(t, v)
        PROVE  PasswordInv'
    BY <1>1 DEF Ansible, Override, Provide, Change
  <1>2. CASE Unpack \/ DialogueCutShort
    BY <1>2 DEF Unpack, DialogueCutShort, CutShort, answers
  <1>3. CASE Starts
    BY <1>3 DEF Starts, StartRun, PasswordInv
  <1>4. CASE SlapdDies \/ UNCHANGED pvars
    BY <1>4 DEF SlapdDies, pvars, machine, files, answers, PasswordInv, Hashed
  <1>5. CASE Stage
    <2>1. Effect
      BY <1>5, Effects
    <2>2. /\ phase = "configure" /\ at' = at + 1 /\ at \in Nat /\ deb' = deb
      BY <2>1, Places DEF Effect
    <2>3. at' > 11 => service' = deb'[LdapPassword]
      BY <2>1, <2>2 DEF Effect, PasswordInv
    <2>4. at' > 14 /\ conf' # NoFile => Hashed(conf)'
      <3>1. CASE at = 14
        BY <2>1, <2>2, <3>1 DEF Effect, SlapdConf, Hashed
      <3>2. CASE at # 14
        BY <2>1, <2>2, <3>2 DEF Effect, PasswordInv, Hashed
      <3>. QED
        BY <3>1, <3>2
    <2>5. at' > 17 => Hashed(rootpw)'
      <3>1. CASE at = 17
        BY <2>1, <2>2, <3>1 DEF Effect, Slaptest, CanRebuild, PasswordInv, Hashed
      <3>2. CASE at # 17
        BY <2>1, <2>2, <3>2 DEF Effect, PasswordInv, Hashed
      <3>. QED
        BY <3>1, <3>2
    <2>6. at' > 18 => config' = "usable"
      BY <2>1, <2>2 DEF Effect, PasswordInv
    <2>. QED
      BY <2>3, <2>4, <2>5, <2>6 DEF PasswordInv
  <1>6. CASE Finish \/ Fail \/ Die \/ PropertiesCutShort
    BY <1>6 DEF Finish, Fail, PropertiesCutShort, Die, Over
  <1>. QED
    BY <1>1, <1>2, <1>3, <1>4, <1>5, <1>6, Kinds

-----------------------------------------------------------------------------
(* The entries of the directory.                                           *)

\* A run that goes on has the entries of the stages it has passed.
LEMMA EntriesStep == AnswersTypeOK /\ RunInv /\ EntriesInv /\ [PNext]_pvars => EntriesInv'
  <1> SUFFICES ASSUME AnswersTypeOK, RunInv, EntriesInv, [PNext]_pvars,
                      phase' = "configure", ~populated'
               PROVE  EntriesInv'
    BY DEF EntriesInv
  <1>1. ASSUME NEW t \in Templates, NEW v \in Value, Ansible(t, v) \/ Override(t, v)
        PROVE  EntriesInv'
    BY <1>1 DEF Ansible, Override, Provide, Change
  <1>2. CASE Unpack \/ DialogueCutShort
    BY <1>2 DEF Unpack, DialogueCutShort, CutShort, answers
  <1>3. CASE Starts
    BY <1>3 DEF Starts, StartRun, EntriesInv
  <1>4. CASE SlapdDies \/ UNCHANGED pvars
    BY <1>4 DEF SlapdDies, pvars, machine, answers, EntriesInv
  <1>5. CASE Stage
    <2>1. Effect
      BY <1>5, Effects
    <2>2. /\ phase = "configure" /\ at' = at + 1 /\ at \in Nat /\ deb' = deb
          /\ ~populated
      BY <2>1, Places DEF Effect
    <2>3. ASSUME NEW s \in {"addOrg", "addDataone", "addCilogon"}, AddEntry(s),
                 s = "addOrg" \/ deb[FirstCN] = Yes
          PROVE  Adds[s] \in entries'
      <3>1. CASE Wanted(s)
        BY <2>3, <3>1 DEF AddEntry
      <3>2. CASE ~Wanted(s)
        BY <2>2, <2>3, <3>2 DEF AddEntry, Wanted
      <3>. QED
        BY <3>1, <3>2
    <2>4. ASSUME NEW s, AddEntry(s) PROVE entries \subseteq entries'
      BY <2>4 DEF AddEntry
    <2>5. entries \subseteq entries'
      <3>1. CASE at \in 21 .. 24
        BY <2>1, <2>2, <2>4, <3>1 DEF Effect
      <3>2. CASE at \notin 21 .. 24
        BY <2>1, <3>2 DEF Effect
      <3>. QED
        BY <3>1, <3>2
    <2>6. at' > 21 => "org" \in entries'
      <3>1. CASE at = 21
        BY <2>1, <2>3, <3>1 DEF Effect, Adds
      <3>. QED
        BY <2>2, <2>5, <3>1 DEF EntriesInv
    <2>7. at' > 22 /\ deb'[FirstCN] = Yes => "dataone" \in entries'
      <3>1. CASE at = 22
        BY <2>1, <2>2, <2>3, <3>1 DEF Effect, Adds
      <3>. QED
        BY <2>2, <2>5, <3>1 DEF EntriesInv
    <2>8. at' > 23 /\ deb'[FirstCN] = Yes => "cilogon" \in entries'
      <3>1. CASE at = 23
        BY <2>1, <2>2, <2>3, <3>1 DEF Effect, Adds
      <3>. QED
        BY <2>2, <2>5, <3>1 DEF EntriesInv
    <2>. QED
      BY <2>6, <2>7, <2>8 DEF EntriesInv
  <1>6. CASE Finish \/ Fail \/ Die \/ PropertiesCutShort
    BY <1>6 DEF Finish, Fail, PropertiesCutShort, Die, Over
  <1>. QED
    BY <1>1, <1>2, <1>3, <1>4, <1>5, <1>6, Kinds

-----------------------------------------------------------------------------
(* node.properties.                                                        *)

\* Only the stage of node.properties and an unpack write the file, but for a run
\* that is cut short, which does not end well.
LEMMA PropertiesStep == RunInv /\ PropertiesInv /\ [PNext]_pvars => PropertiesInv'
  <1> SUFFICES ASSUME RunInv, PropertiesInv, [PNext]_pvars PROVE PropertiesInv'
    OBVIOUS
  <1>0. Keyed \intersect Tokens = {} /\ IpList \notin Tokens
    BY Stages
  <1>1. ASSUME NEW t \in Templates, NEW v \in Value, Ansible(t, v) \/ Override(t, v)
        PROVE  PropertiesInv'
    BY <1>1 DEF Ansible, Override, Provide, Change, PropertiesInv, machine, files
  <1>2. CASE Unpack
    BY <1>2 DEF Unpack, Unpacked, answers, PropertiesInv
  <1>3. CASE DialogueCutShort
    BY <1>3 DEF DialogueCutShort, CutShort, Failed, PropertiesInv
  <1>4. CASE Starts
    BY <1>4 DEF Starts, StartRun, Settle, PropertiesInv, machine, files, history
  <1>5. CASE SlapdDies \/ UNCHANGED pvars
    BY <1>5 DEF SlapdDies, pvars, answers, machine, files, history, PropertiesInv, PropertyOf
  <1>6. CASE Stage
    <2>1. Effect
      BY <1>6, Effects
    <2>2. /\ phase = "configure" /\ phase' = "configure" /\ at' = at + 1 /\ at \in Nat
          /\ deb' = deb /\ version' = version
      BY <2>1, Places DEF Effect
    <2>3. CASE at = 2
      <3>1. NodeProperties
        BY <2>1, <2>3 DEF Effect
      <3>2. \A t \in Keyed : props'[t] = PropertyOf(t)'
        BY <2>2, <3>1 DEF NodeProperties, PropertyOf
      <3>3. version = "unpacked" => \A t \in Tokens : props'[t] \in {deb[t], Placeholder}
        BY <1>0, <2>3, <3>1 DEF NodeProperties, PropertyOf, PropertiesInv
      <3>. QED
        BY <2>2, <2>3, <3>2, <3>3 DEF PropertiesInv
    <2>4. CASE at # 2
      BY <2>1, <2>2, <2>4 DEF Effect, PropertiesInv, PropertyOf
    <2>. QED
      BY <2>3, <2>4
  <1>7. ASSUME \/ Finish \/ PropertiesCutShort
               \/ (Fail \/ Die) /\ Failed
        PROVE  PropertiesInv'
    BY <1>7 DEF Finish, Fail, PropertiesCutShort, Die, Over, Failed, PropertiesInv
  <1>. QED
    BY <1>1, <1>2, <1>3, <1>4, <1>5, <1>6, <1>7, Kinds

-----------------------------------------------------------------------------
(* The inductive invariant.                                                *)

\* Before the first run nothing is configured and nothing is claimed.
LEMMA Start == PInit => Inv
  <1> SUFFICES ASSUME PInit PROVE Inv
    OBVIOUS
  <1>1. AnswersTypeOK
    BY Questions DEF PInit, AnswersInit, AnswersTypeOK, NoAnswer, Stored
  <1>2. props \in [Keyed \union Tokens -> Stored \union {Localhost, Placeholder}]
    BY DEF PInit, Unpacked
  <1>m. MachineTypeOK
    BY <1>2 DEF PInit, MachineTypeOK
  <1>a. at \in 0 .. Len(Order["create"]) + 1
    BY Orders DEF PInit
  <1>3. PTypeOK
    BY <1>1, <1>m, <1>a DEF PTypeOK, MachineTypeOK
  <1>4. phase = "idle" /\ clean = FALSE
    BY DEF PInit, AnswersInit
  <1>. QED
    BY <1>3, <1>4 DEF Inv, RunInv, WipedInv, UfwInv, PasswordInv, EntriesInv,
       PropertiesInv, PInit, Unpacked

\* Every state of the stages satisfies the invariant.
LEMMA Invariant == PSpec => []Inv
  <1>1. Inv /\ [PNext]_pvars => Inv'
    <2> SUFFICES ASSUME Inv, [PNext]_pvars PROVE Inv'
      OBVIOUS
    <2>1. AnswersTypeOK
      BY DEF Inv, PTypeOK
    <2>. QED
      BY <2>1, TypeStep, RunStep, WipedStep, UfwStep, PasswordStep, EntriesStep,
         PropertiesStep DEF Inv
  <1>. QED
    BY <1>1, Start, PTL DEF PSpec

-----------------------------------------------------------------------------
(* The theorems.                                                           *)

\* The answers, the files of the machine and the place of the run keep their
\* types through every stage of main() and every way it ends.
THEOREM Typed == PSpec => []PTypeOK
  <1>1. Inv => PTypeOK
    BY DEF Inv
  <1>. QED
    BY <1>1, Invariant, PTL

\* As long as runs end well and only runs change cn.iplist, configure_ufw's
\* rules cover the other nodes of the list, although an update only looks at
\* the changed flag.
THEOREM Ufw == PSpec => []UfwCovers
  <1>1. Inv => UfwCovers
    BY DEF Inv, UfwInv, UfwCovers, Covered
  <1>. QED
    BY <1>1, Invariant, PTL

\* Only Finish ends a run well, past all its stages.
LEMMA EndsWell ==
    ASSUME [PNext]_pvars, RunInv, phase = "configure", phase' = "idle", outcome' = "ok"
    PROVE  Finish /\ at > 26
  <1>1. ASSUME NEW t \in Templates, NEW v \in Value, Ansible(t, v) \/ Override(t, v)
        PROVE  FALSE
    BY <1>1 DEF Ansible, Override, Provide, Change
  <1>2. CASE Unpack \/ DialogueCutShort \/ SlapdDies \/ UNCHANGED pvars
    BY <1>2 DEF Unpack, DialogueCutShort, CutShort, SlapdDies, answers, pvars
  <1>3. CASE Starts
    BY <1>3 DEF Starts, StartRun, Settle
  <1>4. CASE Stage
    BY <1>4, Effects DEF Effect
  <1>5. CASE Finish
    BY <1>5, Places DEF Finish
  <1>6. CASE Fail \/ Die \/ PropertiesCutShort
    BY <1>6 DEF Fail, PropertiesCutShort, Die, Over
  <1>. QED
    BY <1>1, <1>2, <1>3, <1>4, <1>5, <1>6, Kinds

\* After a run that ends well ldapService.properties and slapd.d hold the same
\* password, which is not empty, and slapd can read its configuration, for every
\* combination of faults and whatever earlier runs left behind.
THEOREM Agree == PSpec => PasswordsAgree
  <1>1. ASSUME Inv, [PNext]_pvars
        PROVE  [(phase = "configure" /\ outcome' = "ok" /\ phase' = "idle") =>
                  /\ service \in Value
                  /\ rootpw = service \/ ("slapdConf" \in Faults /\ rootpw = Placeholder)
                  /\ config = "usable"]_pvars
    <2> SUFFICES ASSUME phase = "configure", outcome' = "ok", phase' = "idle"
                 PROVE  /\ service \in Value
                        /\ \/ rootpw = service
                           \/ "slapdConf" \in Faults /\ rootpw = Placeholder
                        /\ config = "usable"
      OBVIOUS
    <2>1. at > 26 /\ at \in Nat
      BY <1>1, EndsWell, Orders DEF Inv, PTypeOK
    <2>2. service = deb[LdapPassword] /\ Hashed(rootpw) /\ config = "usable"
      BY <1>1, <2>1 DEF Inv, PasswordInv
    <2>3. deb[LdapPassword] \in Stored
      BY <1>1, Questions, Stages DEF Inv, PTypeOK, AnswersTypeOK, Templates
    <2>. QED
      BY <2>2, <2>3 DEF Hashed, Stored
  <1>. QED
    BY <1>1, Invariant, PTL DEF PSpec, PasswordsAgree

\* The first run after an unpack that ends well leaves node.properties with no
\* answer of another run, and any run leaves every key with its own.
THEOREM First == PSpec => FirstAttempt
  <1>1. ASSUME Inv, [PNext]_pvars
        PROVE  [(phase = "configure" /\ outcome' = "ok" /\ phase' = "idle") =>
                  /\ \A t \in Keyed : props[t] = PropertyOf(t)
                  /\ version = "unpacked" =>
                        \A t \in Tokens : props[t] \in {deb[t], Placeholder}]_pvars
    <2> SUFFICES ASSUME phase = "configure", outcome' = "ok", phase' = "idle"
                 PROVE  /\ \A t \in Keyed : props[t] = PropertyOf(t)
                        /\ version = "unpacked" =>
                              \A t \in Tokens : props[t] \in {deb[t], Placeholder}
      OBVIOUS
    <2>1. at > 2
      BY <1>1, EndsWell, Orders DEF Inv, PTypeOK
    <2>. QED
      BY <1>1, <2>1 DEF Inv, PropertiesInv
  <1>. QED
    BY <1>1, Invariant, PTL DEF PSpec, FirstAttempt

\* What the steps do to the directory and to cn.openldap.populated.
LEMMA PopulatedStep ==
    ASSUME [PNext]_pvars, RunInv
    PROVE  /\ UNCHANGED <<populated, entries>> \/ (Stage /\ Effect)
  <1>1. ASSUME NEW t \in Templates, NEW v \in Value, Ansible(t, v) \/ Override(t, v)
        PROVE  UNCHANGED <<populated, entries>>
    BY <1>1 DEF Ansible, Override, machine
  <1>2. CASE Unpack \/ DialogueCutShort \/ SlapdDies \/ UNCHANGED pvars \/ Finish
             \/ PropertiesCutShort \/ UNCHANGED machine
    BY <1>2 DEF Unpack, DialogueCutShort, SlapdDies, pvars, machine, Finish, PropertiesCutShort
  <1>3. CASE Starts
    BY <1>3 DEF Starts, StartRun, machine
  <1>4. CASE Stage
    BY <1>4, Effects
  <1>. QED
    BY <1>1, <1>2, <1>3, <1>4, Kinds

\* cn.openldap.populated is set when dc=org and, on the first node, dc=dataone
\* and dc=cilogon are there, and nothing is added to the directory after that:
\* no failure or kill between the four stages and the flag can break it.
THEOREM Populated == PSpec => PopulatedOnce
  <1>1. ASSUME Inv, [PNext]_pvars
        PROVE  /\ (populated' /\ ~populated) =>
                     {"org"} \union (IF deb[FirstCN] = Yes THEN {"dataone", "cilogon"} ELSE {})
                         \subseteq entries
               /\ populated => entries' = entries
    <2>1. CASE UNCHANGED <<populated, entries>>
      BY <2>1
    <2>2. CASE Effect
      <3>1. ASSUME populated', ~populated
            PROVE  phase = "configure" /\ at = 25
        BY <2>2, <3>1 DEF Effect
      <3>. QED
        BY <1>1, <2>2, <3>1 DEF Effect, Inv, EntriesInv
    <2>. QED
      BY <1>1, <2>1, <2>2, PopulatedStep DEF Inv
  <1>. QED
    BY <1>1, Invariant, PTL DEF PSpec, PopulatedOnce

-----------------------------------------------------------------------------
(* Two dead ends.                                                          *)

\* Whether a run of path m that is at place a has passed the schemas.
LEMMA BeforeSchemas ==
    ASSUME NEW m \in {"create", "update"}, NEW a \in 1 .. Len(Order[m]) + 1
    PROVE  (\A i \in 1 .. a : i <= Len(Order[m]) => Order[m][i] # "schemas") <=> a < 13
  <1>0. Len(Order[m]) \in {26, 28} /\ a \in Nat
    <2>1. CASE m = "create"
      BY <2>1, Orders
    <2>2. CASE m = "update"
      BY <2>2, Orders
    <2>. QED
      BY <2>1, <2>2
  <1>1. ASSUME a < 13, NEW i \in 1 .. a PROVE Order[m][i] # "schemas"
    <2>1. i \in 1 .. 12
      BY <1>0, <1>1
    <2>2. CASE m = "create"
      BY <2>1, <2>2, Orders
    <2>3. CASE m = "update"
      BY <2>1, <2>3, Orders
    <2>. QED
      BY <2>2, <2>3
  <1>2. ASSUME ~(a < 13) PROVE 13 \in 1 .. a /\ 13 <= Len(Order[m])
    <2>1. \A n \in {26, 28} : 13 <= n
      OBVIOUS
    <2>2. 13 <= Len(Order[m])
      BY <1>0, <2>1, Zenon
    <2>3. a \in Nat /\ a >= 13
      BY <1>0, <1>2
    <2>. QED
      BY <2>2, <2>3
  <1>3. Order[m][13] = "schemas"
    BY Orders
  <1>. QED
    BY <1>1, <1>2, <1>3

\* A first installation that has lost slapd's configuration and has no slapd
\* running stays so: confirm_ldap_running, a stage before the schemas, ends
\* every run, and no other step starts slapd or gives it a configuration.
THEOREM DeadEnd == PSpec => NoWayOut
  <1>1. ASSUME Inv, [PNext]_pvars PROVE Stuck => Stuck'
    <2> SUFFICES ASSUME Stuck PROVE Stuck'
      OBVIOUS
    <2> DEFINE Lost == ~populated /\ config # "usable" /\ ~slapd
    <2>1. Lost /\ RunInv /\ RunInv'
      BY <1>1, RunStep DEF Stuck, Inv, PTypeOK
    <2>2. phase = "configure" => at < 13
      BY <2>1, BeforeSchemas DEF Stuck, RunInv
    <2>3. Lost' /\ (phase' = "configure" => at' < 13)
      <3>1. ASSUME NEW t \in Templates, NEW v \in Value, Ansible(t, v) \/ Override(t, v)
            PROVE  Lost' /\ phase' = "idle"
        BY <2>1, <3>1 DEF Ansible, Override, Provide, Change, machine, daemons, files
      <3>2. CASE Unpack \/ DialogueCutShort
        BY <2>1, <3>2 DEF Unpack, DialogueCutShort, CutShort, answers, machine, daemons, files
      <3>3. CASE Starts
        BY <2>1, <3>3 DEF Starts, StartRun, machine, daemons, files
      <3>4. CASE SlapdDies \/ UNCHANGED pvars
        BY <2>1, <2>2, <3>4 DEF SlapdDies, pvars, answers, machine, daemons, files
      <3>5. CASE Stage
        <4>1. Effect
          BY <2>1, <3>5, Effects
        <4>2. /\ phase = "configure" /\ at' = at + 1 /\ at \in Nat /\ at < 13
          BY <2>1, <2>2, <4>1, Places DEF Effect
        <4>3. at # 12
          BY <2>1, <4>1 DEF Effect, LdapRunning
        <4>4. slapd' = slapd /\ config' = config /\ populated' = populated
          BY <4>1, <4>2, <4>3 DEF Effect
        <4>5. at' < 13
          BY <4>2, <4>3
        <4>. QED
          BY <2>1, <4>4, <4>5
      <3>6. ASSUME Finish \/ Fail \/ Die, UNCHANGED machine
            PROVE  Lost' /\ phase' = "idle"
        BY <2>1, <3>6 DEF Finish, Fail, Die, Over, machine, daemons, files
      <3>8. CASE PropertiesCutShort
        BY <2>1, <3>8 DEF PropertiesCutShort, Die, Over, daemons
      <3>7. Finish => UNCHANGED machine
        BY DEF Finish, machine
      <3> HIDE DEF Lost
      <3>. QED
        BY <1>1, <3>1, <3>2, <3>3, <3>4, <3>5, <3>6, <3>7, <3>8, Kinds
    <2>4. CASE phase' = "configure"
      <3>1. mode' \in {"create", "update"} /\ at' \in 1 .. Len(Order[mode']) + 1
        BY <2>1, <2>4 DEF RunInv
      <3>. QED
        BY <2>3, <2>4, <3>1, BeforeSchemas DEF Stuck
    <2>5. CASE phase' # "configure"
      BY <2>3, <2>5 DEF Stuck
    <2>. QED
      BY <2>4, <2>5
  <1>. QED
    BY <1>1, Invariant, PTL DEF PSpec, NoWayOut

\* An empty LDAP password that is marked seen outlives every run that does not
\* exit with a failure code: slappasswd ends the script twelve stages before
\* the password would be cleared.
THEOREM EmptyStays == PSpec => EmptyPasswordStays
  <1>1. ASSUME Inv, [PNext]_pvars
        PROVE  [(EmptyPassword /\ ~EmptyPassword') =>
                  phase = "idle" \/ (outcome' = "failed" /\ phase' = "idle")]_pvars
    <2> SUFFICES ASSUME EmptyPassword, ~EmptyPassword', phase # "idle"
                 PROVE  outcome' = "failed" /\ phase' = "idle"
      OBVIOUS
    <2>0. /\ phase = "configure" /\ val \in [Templates -> Stored] /\ RunInv
          /\ LdapPassword \in Passwords /\ LdapPassword \in Templates
          /\ LdapPassword # KeystorePassword
      BY <1>1, Questions, Stages DEF Inv, PTypeOK, AnswersTypeOK, Templates
    <2>1. ~UNCHANGED <<val, seen>>
      BY DEF EmptyPassword
    <2>2. ASSUME NEW t \in Templates, NEW v \in Value, Ansible(t, v) \/ Override(t, v)
          PROVE  FALSE
      BY <2>2 DEF Ansible, Override, Provide, Change
    <2>3. ~(Unpack \/ DialogueCutShort \/ Starts \/ SlapdDies \/ Die \/ UNCHANGED pvars)
          /\ ~PropertiesCutShort
      BY <2>0, <2>1 DEF Unpack, DialogueCutShort, CutShort, Starts, StartRun, Settle,
         SlapdDies, PropertiesCutShort, Die, pvars, answers
    <2>4. ~Stage
      <3> SUFFICES ASSUME Stage PROVE FALSE
        OBVIOUS
      <3>1. Effect
        BY <2>0, Effects
      <3>2. at = 26
        <4>1. at = 6 => UNCHANGED val /\ FALSE
          BY <2>0, <3>1 DEF Effect, Clear, EmptyPassword
        <4>. QED
          BY <2>1, <3>1, <4>1 DEF Effect
      <3>3. val[LdapPassword] = deb[LdapPassword] /\ Hashed(rootpw)
        BY <1>1, <2>0, <3>2 DEF Inv, WipedInv, PasswordInv
      <3>. QED
        BY <3>3 DEF Hashed, EmptyPassword
    <2>5. ~Finish
      BY <2>0 DEF Finish, EmptyPassword
    <2>. QED
      BY <1>1, <2>2, <2>3, <2>4, <2>5, Kinds DEF Fail, Over
  <1>. QED
    BY <1>1, Invariant, PTL DEF PSpec, EmptyPasswordStays

-----------------------------------------------------------------------------
(* The refinement.                                                         *)

\* The stages work with the answers as OsCoreAnswers promises them: each
\* password is cleared in its stage, so that a run that ends well has wiped
\* both, whatever the order of its path and the faults on it.
THEOREM Refines == PSpec => AnswersSpec
  <1>1. PInit => AnswersInit
    BY DEF PInit
  <1>2. ASSUME Inv, [PNext]_pvars PROVE [AnswersNext]_answers
    <2>0. RunInv /\ WipedInv /\ Passwords = {KeystorePassword, LdapPassword}
      BY <1>2, Stages DEF Inv
    <2>1. ASSUME NEW t \in Templates, NEW v \in Value, Ansible(t, v) \/ Override(t, v)
          PROVE  AnswersNext
      BY <2>1 DEF Ansible, Override, AnswersNext
    <2>2. CASE Unpack \/ SlapdDies \/ UNCHANGED pvars
      BY <2>2 DEF Unpack, SlapdDies, pvars, AnswersNext
    <2>3. CASE DialogueCutShort
      BY <2>3 DEF DialogueCutShort, AnswersNext
    <2>4. CASE Starts
      BY <2>4 DEF Starts, StartRun, AnswersNext
    <2>5. CASE Stage
      <3>1. Effect
        BY <2>0, <2>5, Effects
      <3>2. Clear(KeystorePassword) \/ Clear(LdapPassword) \/ UNCHANGED answers
        BY <3>1 DEF Effect, answers
      <3>. QED
        BY <2>0, <3>2 DEF AnswersNext
    <2>6. CASE Finish
      <3>1. phase = "configure" /\ at > 26 /\ at \in Nat
        BY <2>0, <2>6, Places DEF Finish, Over
      <3>2. \A p \in Passwords : val[p] = Empty /\ p \notin seen
        BY <2>0, <3>1 DEF WipedInv
      <3>3. PICK kept \in SUBSET (seen \ Passwords) :
              /\ mode = "update" => kept \subseteq {FirstCN}
              /\ seen \intersect {FirstCN} \subseteq kept
              /\ seen' = kept \union (seen \intersect Passwords)
        BY <2>6 DEF Finish
      <3>4. seen' = kept
        BY <3>2, <3>3
      <3>5. Complete
        BY <2>6, <3>2, <3>3, <3>4 DEF Finish, Complete
      <3>. QED
        BY <3>5 DEF AnswersNext
    <2>7. CASE Fail \/ Die \/ PropertiesCutShort
      BY <2>7 DEF PropertiesCutShort, AnswersNext
    <2>. QED
      BY <1>2, <2>1, <2>2, <2>3, <2>4, <2>5, <2>6, <2>7, Kinds
  <1>. QED
    BY <1>1, <1>2, Invariant, PTL DEF PSpec, AnswersSpec

=============================================================================
