# Specifications of the CN buildout

The repository builds the Debian packages that turn an Ubuntu machine into a
DataONE coordinating node (CN).  Its logic is in the packages' maintainer
scripts and in a handful of shell scripts they install; the rest is
configuration, third-party distributions and build files.  The scripts are hard
for two reasons.  They run many times on the same machine, each run may end
half way, and the next one starts from whatever is there: debconf's database,
files, running services, firewall rules, an LDAP directory, a Solr cloud.  And
an environment has several nodes whose scripts run at the same time and share a
replicated directory and a zookeeper ensemble.

Paths below are relative to `src/`; `postinst` alone is
`dataone-cn-os-core/DEBIAN/postinst`.

## 1. Inventory

### Components

**os-core: the debconf dialogue** (`postinst` 163-571, 1967-2145; `templates`,
`etc/dataone/d1DebConfig.xml`).  *State:* the value, the `seen` flag and the
`user-entered-value` flag of some thirty questions, in debconf's database, from
one run to the next; in a run the arrays `DEB_QUESTION_VALUES`,
`DEB_QUESTION_FLAGS`, `XML_TEMPLATE_BOOLEAN` and `DB_QUESTION_CHANGED`.
*Operations:* the create path (first install or reconfigure), the update path
(upgrade), the loop over derived questions, `exitWithFailureCode`,
`resetDebQuestionSeenFlag`.  *Correct if:* what ansible provided is used as it
is; no question of a first install stays unanswered; the changed flags, which
decide what an update configures again, tell the truth; no password stays in
the database; `seen` means ansible, not an earlier run.

**os-core: the configuration stages** (`postinst` 573-1966).  *State:*
`node.properties`, `ldapService.properties`, `slapd.conf`, `slapd.d`, the
firewall, the directory's base entries and the flag `cn.openldap.populated`,
apache, tomcat and slapd.  *Operations:* `configure_certificates`,
`configure_node_properties`, `configure_ufw`, `configure_jdk`,
`configure_keystore`, `configure_apache`, `configure_tomcat`,
`configure_openldap`.  *Correct if:* a run that ends well leaves slapd and its
clients with one password; the directory is populated once and completely; the
firewall follows `cn.iplist`; failures are reported; and a failed run can be
repeated.

**LDAP replication between nodes** (`postinst` 1584-1790).  *State:* on each
node the directory, the providers it pulls from, the password, the open port.
*Operations:* configure, start, search an entry and add it, mark as populated.
*Correct if:* the directories converge and no two nodes create the same entry.

**dataone-cn-solr** (`DEBIAN/postinst`).  *State:* the config set directories
of a node, the configurations in zookeeper, the collections.  *Operations:*
copy, restart, create, or upload and reload.  *Correct if:* every collection
exists and works with the configuration of the newest package.

**togglePortsAndReplication.sh** (`dataone-cn-os-core/usr/local/bin`).  *State:*
services, firewall rules, metacat's replication flags.  *Operations:* enable,
disable.  *Correct if:* a run ends, and afterwards ports, flags and services are
as it was told.

**The web packages: dataone-cn-metacat, -portal, -rest-service** (`DEBIAN/*`,
the portal's `DEBIAN/config`).  *State:* the war file as unpacked, the deployed
application, the addresses in the hazelcast configuration, the keystore password
in the portal's `client.xml`, tomcat and apache, and what dpkg and debconf
remember.  *Operations:* `config`, `postinst`, `prerm`, each run by dpkg on
installations, upgrades, aborted upgrades and `dpkg-reconfigure`.  *Correct if:*
a run of dpkg that ends well leaves tomcat and apache up and every package with
the list os-core stored; what is called installed is deployed; the portal is not
configured with an empty password that could have been asked for.

**dataone-cn-processdaemon** (`DEBIAN/*`, `etc/init.d/d1-processing`,
`d1processingstate`).  *State:* the pid file, the directory `JVM_TMP`, the
daemon, the jar, the init script and the database, which `prerm` removes.
*Operations:* start, stop, restart, by anybody at any time; `prerm`, `postinst`.
*Correct if:* one daemon runs at most, in a directory that exists; every run of
the script ends; an installed package can be started.

**dataone-zookeeper, dataone-event-index, dataone-solr** (`DEBIAN/postinst`,
`prerm`).  *State:* `zoo.cfg`, the server number `myid`, the server.
*Operations:* stop, move `zoo.cfg` away, copy and fill in the new one, write the
number, start.  *Correct if:* the numbers of the nodes differ, and a server that
is up runs with what is configured.

**dataone-cn-index** (`DEBIAN/postinst`, `migrate-search-index.sh`,
`swap-core.sh`, `remove-core.sh`).  *Correct if:* a migration that fails does
not reach the live core.

**Others.**  `dataone-cn-audit-index`, superseded by `dataone-cn-solr`;
`insertOrUpdateObjectFormatList.sh` of metacat; the ansible playbooks, which set
debconf questions; os-core's `preinst`, `prerm` and `postrm`; the LDAP
administration scripts; the user interfaces and `dataone-cn-monitor`; jetty,
solr-jetty and the version tool, which are distributions; `Makefile`.

### How they interact

| Shared state | Written by | Read by |
|---|---|---|
| debconf `dataone-cn-os-core/*` | ansible, a person, os-core | os-core and the `postinst` of nearly all other packages |
| the keystore password in debconf | ansible or a prompt; os-core empties it (`postinst` 920) | portal |
| `cn.iplist` | os-core | os-core, portal, metacat, zookeeper, solr, the toggle script |
| ufw rules | os-core (389), portal (5703, 5432), metacat (5701), the toggle script (all) | the other nodes |
| tomcat, slapd, postgres, apache | every `postinst` stops and starts some | the others |
| LDAP directory | every node's run, replication, the identity service | every node |
| zookeeper: Solr configurations | `dataone-cn-solr` on every node | Solr on every node |

### What is hard

- *Runs after failed runs.*  About thirty exits, "set -e" at the unguarded
  commands, kills; `seen` flags and files survive them.
- *Order.*  Questions are visited in the hash order of a bash array.
- *Nodes.*  Search-then-add against replication, upload-then-reload against
  another node's upload, upgrades with two versions at once.
- *dpkg.*  `prerm` deletes before it is known whether new files come; a run of
  dpkg unpacks all packages before it configures the first; some scripts do the
  same whatever they are called for, others nothing.
- *Callers.*  The init script of the daemon has no lock, and dpkg calls it too.
- *Services.*  slapd may stop at any time, a service need not stop when told,
  or not start.
- *Waits.*  The loops that wait for a process are bounded.

All of it is in `PROJECT.json` under `hazards`, each at its line.

## 2. Modules

| Module | Models | State and actions against the code |
|---|---|---|
| `OsCoreDebconf` | the dialogue, `postinst` 163-571 and the frame of `main()` | `val`, `seen`, `user` are debconf; `flag`, `lastXml`, `deb`, `changed` the four arrays. One action per branch of `process_create_debian_config` (`Create...`), `process_update_debian_config` (`Update...`) and `process_derived_debian_config` (`Derive`, `SkipDerived`). `Finish` is `resetDebQuestionSeenFlag` and exit 0, `ExitWithFailureCode` the function of that name, `Abort` "set -e" or a kill. `Ansible`, `Override`: what may happen between runs. `Default` is the value the templates give a question, `XmlVersion` what the sections of `d1DebConfig.xml` say to this machine, `Custom` those versions that do not know its address (the context `CUSTOM`) |
| `OsCoreAnswers` | what the stages rely on (abstract) | the dialogue as one step `Settle`, or `CutShort`; then `Clear`, `Complete`, `Fail`, `Die` |
| `OsCoreDebconfAnswers` | the refinement `OsCoreDebconf` to `OsCoreAnswers` | until the stages begin, the database counts as it was when the run began |
| `OsCorePostinst` | the stages; composed with the dialogue by extending `OsCoreAnswers` | `Order` lists the stages of each path, `at` is the one the run is at. One action per stage; `ExitWithFailureCode(s)` with the codes of each stage, `SetE(s)` at the unguarded commands, `PropertiesCutShort` at the one that sets the keys of `node.properties`, `Kill`. `version` is what dpkg has unpacked, and whether a run of it has failed. `Faults` names what may fail without a reason in the model |
| `LdapReplication` | the directories of all nodes | `pc`, `populated`, `slapd`, `password`, `open`, `tree` per node; `Search` and `Add` are separate steps; `Opened` is what `configure_ufw` opens before `Begin`; `Pull` is one entry by syncRepl |
| `SolrCollections` | the second half of solr's `postinst` on all nodes | `dirs` and `fresh` per node, `conf` zookeeper, `loaded` the version each node's replica works with. `Create`, `Upconfig`, `Reload` each with its failures |
| `TogglePorts` | `togglePortsAndReplication.sh` | `Order` lists the steps of the script; `Wait`, `GiveUp`, `Confirmed` the loops; `Postinst` what packages do to the ports between runs; `refused` (history) the rules ufw refused in this run. `Fragile` names what may fail: services, `ufw`, `psql` |
| `ProcessDaemon` | `d1-processing` in any number of shells, `prerm` and `postinst` of its package, the daemons | `pc` is the place of each shell in the script, one action per command that others can see or disturb (`StartTest` ... `LeaveTmp`); `pidfile`, `tmp`, `home` the files and the working directories; `pkg` is where dpkg is, with `Prerm`, `RemoveScript`, `RemovePid`, `RemoveJar`, `Unpack` (or abort), `Chmod`, `Copy`, `CreateDb` |
| `Zookeeper` | `postinst` and `prerm` of `dataone-zookeeper` and what the `postinst` of `dataone-event-index` does to zookeeper | `by` and `step` say whose script is where: `Stop`, `Move`, `Copy` (`CopyNothing` for `dataone-event-index`), `Substitute`, `MyId`, `Start` or `StartFails` ("set -e" at 154-160); `conf`, `myid` the files, `proc` and `runs` the server and what it read; `LocalIP` and `MyIds` are the two searches for the machine's address |
| `Packages` | the four packages that share tomcat, apache, `cn.iplist` and the keystore password, under dpkg and debconf | a script is a sequence of steps (`Configure`, `Prerm`, `OsCoreReconfigured`, chosen by `Steps`), `todo` what is left of the one that runs; one action per kind of step (`Service`, `Delete`, `Deploy`, `PutList`, `Password`, `Answers`; the three scripts put the list in three ways, `MetacatList`, `PortalList`, `RestList`); `batch`, `unpack`, `status` are dpkg's, with `Apt`, `Remove`, `Unpack`, `Abort`, `Postinst`, `Reconfigure`, `Configured`, `Done`, `Kill` |
| `OsCoreDebconf_proofs`, `OsCorePostinst_proofs`, `LdapReplication_proofs`, `SolrCollections_proofs`, `TogglePorts_proofs`, `ProcessDaemon_proofs`, `Zookeeper_proofs`, `Packages_proofs` | theorems about the module of that name | one module per component |
| `MCDebconf`, `MCPostinst`, `MCLdapReplication`, `MCSolrCollections`, `MCTogglePorts`, `MCProcessDaemon`, `MCZookeeper`, `MCPackages` | instances for TLC | |

`PROJECT.json` maps each definition to the lines it models.  Definitions called
*faulty variants* are not part of any specification: each is a plausible mistake
in the definition that follows it, and makes a property fail.

What is abstracted.  A question is a member of one of the three kinds of
`d1DebConfig.xml`; an answer is a model value or the empty string; a prompt
that debconf does not show is told apart from an empty answer, because the code
does.  A hashed password equals the password it was made from.  Files are
reduced to what is read from them later: in `Packages` an application is
deployed or not, a hazelcast configuration holds a list, its placeholder or
nothing.  In `Zookeeper` addresses are model values, and which one is part of
the text of another is a constant relation.  A `postinst` runs under debconf's
lock, so that two scripts on one node do not interleave; those of different
nodes do, and so do the runs of an init script, which takes no lock.

## 3. Runs

| Run | Instance | Shows |
|---|---|---|
| `debconf` | a question of each kind, two answers, a default for one, three versions of `d1DebConfig.xml`, one of which does not know the machine | Over any number of runs: `ProvidedKept`, `ChangedExact`, `CreateAnswered`, `AnswerKept`, `PasswordsWiped`, `UpdateClearsSeen`, and `Promise`, the refinement of `OsCoreAnswers` |
| `postinst_ldap` | two LDAP passwords, first node or not, eight kinds of faults | A successful run leaves one password (`PasswordsAgree`); the directory is populated completely and once (`PopulatedOnce`); two wedges, `NoWayOut` and `EmptyPasswordStays` |
| `postinst_firewall` | two lists of addresses | `UfwCovers`: the firewall follows `cn.iplist` as long as all runs end well and only runs change the list. `AnswersSpec`: the stages with their exits implement `OsCoreAnswers` |
| `postinst_properties` | one varied answer, apache failing to start | **violation**, see below |
| `ldap` | two nodes, two passwords, an entry written in use, the second slapd may die, two runs per node | `Converges`, `PopulatedIsUsable`, `OneOrigin`, `RaceLostOnce` |
| `solr` | two nodes, two collections, two versions | `ConfigCurrent` and the wedge `NoWayOut` |
| `toggle` | three addresses, one port, one round of waiting, slapd may die, ufw may refuse | `Terminates`, `PortsFollow`, `ServicesBack` |
| `toggle_stop` | two ports, two rounds, nothing dies | **violation**, see below |
| `daemon` | dpkg's shell and another one, two daemons | `OneDaemon`, `Housed`, `OrphansStay`, `InstalledIsUsable`, `Terminates`: starts, stops, restarts and upgrades at the same time, each step of which may be the last |
| `zookeeper` | five lists, three sets of own addresses, one address part of another | `RunsConfigured`, `IdIsOwn`, `IdIsPlace` and the wedge `OnlyUnpackCures` |
| `zookeeper_event` | the same | **violation**, see below |
| `packages` | two lists, two of the three web packages at once | `EndsUp`, `ListsCurrent`, `InstalledIsDeployed`, `PasswordGiven` and the wedge `GuttedUntilUnpacked` |

### Bounds, and why they are enough

- *Questions.*  A visit touches one question and the two variables carried
  between visits, so one question of each kind meets every pair of neighbours
  but two of one kind.  The theorems hold for any sets of questions.
- *Answers.*  The code compares answers for equality and with the empty string.
  Two answers and the empty one give every outcome.
- *Runs* are not bounded except in `ldap`: the states are finite.  `MaxRuns = 2` in `ldap`: a node is configured and is configured again
  after losing a race, or with another password.
- *Nodes.*  Two: the first of the environment and another.  Races are between a
  run and one entry that arrives, or between one upload and another's reload.
- *Daemons and shells.*  Two daemons are an orphan and the one started beside it,
  two shells every pair of runs of the script, one of them possibly dpkg's.  The
  theorems hold for any number of both.
- *Packages.*  `MaxWeb = 2`: with os-core, every pair of web packages; the scripts
  of three meet each other only through what two of them show (the services and
  the list), and the theorems hold for any bound.  Rest counts metacat in, so
  that pair is the only one it can be in.
- *Lists for zookeeper.*  A list that is complete in two orders, one without the
  machine, one that is too short and one that is too long; a machine with one
  address, with two that are both listed, and with one that is part of another's.
- *Waits.*  The script waits 18 rounds.  One round in `toggle` shows a service
  that stops at once, after the wait, or never.  The rules of a port do not
  depend on those of another; the theorems hold for any ports and bound.

### Fairness

None in os-core, Solr, zookeeper and the packages: a run may stop anywhere and
need not be repeated.  In
`LdapReplication` each `Pull` is weakly fair: the consumers are configured with
`retry="12 5 300 +"`, so that they try for ever; no run has to continue and no
slapd has to come back, `Converges` assumes that they are up.  In `TogglePorts`
the script is weakly fair, because it is one process that no lock holds up
(debconf's is taken before it starts), every loop of it being bounded; services
need not stop, and `Kill` may come at any step.  In `ProcessDaemon` each shell's
`Step` is weakly fair: the script waits for nothing but `jsvc -stop`, which gives
up after a time (`StopFailed`); a daemon need not stop when told to, and no
action of dpkg, of the daemons or of a caller is fair.

### Properties that are wedges

Five properties say that a bad state is *never left*; they are there because
the way into it takes a long sequence of legal steps.

- `NoWayOut` (`OsCorePostinst`): a first install that stops between the removal
  of `slapd.d` (1686) and its regeneration, with slapd stopped, cannot be
  repaired by another run, because a run first wants slapd running (1444).
- `EmptyPasswordStays`: an LDAP password that an update's prompt left empty is
  marked seen; every later run accepts it and ends in `slappasswd`, until
  ansible sets it or some run exits with a failure code.
- `NoWayOut` (`SolrCollections`): the directory that tells an installation from
  an update is made first (62), the collection last (210).  When every node has
  the directory and no run counts the collection as fresh, no run creates it.
- `OnlyUnpackCures` (`Zookeeper`): `mv` ends the `postinst` if there is no
  `zoo.cfg` (71), which is what a kill between 71 and 72, an aborted upgrade or
  `dataone-event-index` leaves.
- `GuttedUntilUnpacked` (`Packages`): `prerm` deletes `hazelcast.xml` and, except
  for the portal, the sources; an aborted upgrade and `dpkg-reconfigure` run
  `prerm` and bring no new files, after which dpkg says "installed" all the same.

### Disagreements between the code and its comments

Three have a run whose counterexample shows them; `PROJECT.json` quotes the lines.

1. `postinst_properties`: placeholders of `node.properties` can be replaced once
   per unpack, so an update that is run again after one that failed keeps the host
   name of the first attempt, although "the node properties file is always
   overwritten" (2078).  A reconfiguration keeps it too.  `FirstAttempt` says what does hold, and is
   proved only (theorem `First`).
2. `toggle_stop`: found through `PATH` or called by its path, the script writes
   `pidof`'s output to a file in a directory that does not exist (60); the loop
   takes that for "not running" and confirms a stop that has not happened.
3. `zookeeper_event`: `dataone-event-index` moves `zoo.cfg` away (128) and copies
   the new one from a directory with a misspelt name (129): zookeeper is left
   without a configuration.

Others were met on the way and have no run.  On the create path the flags of the
question visited *before* are recorded for a question that is accepted (383), so
a derived one that ansible provided may be computed again, depending on the hash
order.  A change of `cn.iplist` does not reach the firewall if ansible made it,
or if the run that stored it failed before `configure_ufw` (2085; `UfwCovers` has
the two exceptions).  Exits 90 and 92 are unreachable: under "set -e" the script
ends at `confirm_ldap_running` (1444, 1746), with the passwords still in debconf
(`SetE`).  `curl` without `--fail` returns 0 when Solr answers with an error, so
a refused RELOAD is not logged (`dataone-cn-solr/DEBIAN/postinst` 206).  If
debconf can ask nobody, os-core's script empties the keystore password before the
portal's reads it, and the portal is configured with an empty one (the premise
`dialog` of `PasswordGiven`).  `prerm` of the daemon's package takes the pid file
away without looking at the result of the stop (18), and a second daemon may then
run beside the first (the premise of `OneDaemon`).  On the update path a prompt about a
configured question is followed by the comparison with the value from *before*
it, so that the answer is lost (493-506; `AnswerKept` leaves those questions
out).  After a create run controlled by ansible the accepted questions stay seen
(383 again; `UpdateClearsSeen` is about updates).  An update stops tomcat and
does not start it (2110; comment at 2034; `EndsUp` shows that the web packages of
the same run do).  `cn.nodeids` is read as one word, so
every node also gets a syncRepl block for itself (1586-1594; `Providers` has it
so).  The ports the toggle script has closed are opened by the `postinst`
scripts of the upgrade they were closed for (action `Postinst`).

## 4. Proofs

Checked by TLAPS, for every value of the constants that satisfies the modules'
assumptions.  For `OsCoreDebconf` these are that the three kinds of questions
are disjoint (no template of the XML file has more than one of the flags), that
the versions without a known address are among the versions, and
that the empty string and the mark of a prompt not shown are not answers; for
`OsCorePostinst`, the same about the questions, that the two passwords are two
questions, `cn.iplist` is one of the compared ones and no placeholder, no question
is both a key and a placeholder, and an unfilled or missing file holds no answer; for `LdapReplication`, that the cluster is a list of all
nodes, each once, and not empty; for `SolrCollections`, that neither list of
collections is empty and everything is copied; for `TogglePorts`, that `MaxTries` is a natural number and `Self` an address, and that `Fragile` names services, `ufw` and `psql` only; for
`ProcessDaemon`, that dpkg's shell is one of the callers and callers are not
pids; for `Zookeeper`, that lists are sequences of addresses, an address is part
of itself, and the empty entry is no address; for `Packages`, that the
placeholder and the mark of a missing file are not lists.

**`OsCoreDebconf_proofs`**: `TypeCorrect`, `Provided`, `Changed`, `Answered`,
`Kept`, `Wiped`, `Cleared` and `Implements`, one for each of the properties of
the run `debconf`.  None of the invariants is inductive: they speak of the state
when the stages begin, after loops that visit questions in any order.  The
invariant says what holds in the middle of a loop, split by whether a question
is still in `todo`:

- `GivenInv`: a question seen at the start has its flag in memory while it is to
  be visited and its old value as answer afterwards.  On the update path the flag
  stays, which protects derived questions from `Derive`; on the create path it
  does not, which is why `ProvidedKept` excepts them there.
- `UnseenInv`: any other question still has its old value until its visit.
- `ChangedInv`: from its visit on, the changed flag of a question is true
  exactly if its answer differs from the one at the start; derived questions
  get there in the second loop.
- `TypedInv`: what was typed is the answer in memory and the flag in memory is
  set, which protects it from `Derive`.
- `AnsweredInv`, `WipedInv`, `SeenInv`: the same idea for prompts not shown, for
  the passwords of stages that are over, and for the flags `Finish` clears by.
- `TodoInv`: the second loop visits derived questions only.

A lemma, `VisitFrame`, says that a visit leaves every other question alone;
each invariant then has to be shown for the question visited only.

`Implements` is the refinement of `OsCoreAnswers`.  The step that has to be found
is `Settle`: all of it happens at `StartConfigure`, from the state the run began
with, while visits, derivations and prompts map to stutters.  Another invariant,
`PromiseInv`, collects what `Settle` and `CutShort` ask for as the run goes on:

- `SettledInv`: a question whose visit is over has one value in memory and in
  the database, an answer its kind and path allow, and its seen flag, unless
  it is a derived one that `Derive` is still to visit, or a configured one of an
  update whose answer is not new.
- `KeptInv`: a question that `Derive` is to visit has its old value, so that
  `LooksChanged` compares with what it should.
- `PendingInv`: at any moment each question has its old value, or an answer and
  its flag; this is what an exit 86 or a kill in the middle leaves behind.
- `FlagInv`: a changed flag that is set is one `OsCoreAnswers` allows.

**`OsCorePostinst_proofs`**: `Typed`, `First`, `Ufw`, `Agree`, `Populated`, `DeadEnd`,
`EmptyStays`, `Refines`, all but `First` for the properties of the runs `postinst_ldap` and
`postinst_firewall`.  `Places` says where on each of the two paths a stage is,
`Effects` what a stage at a place may do; each invariant then speaks of the place:

- `WipedInv`: the keystore password is gone after place 6, the LDAP password
  after 26, and until then it is the one in memory.  `Refines` stands on it:
  `Finish` is `Complete` because both places are behind it.
- `PropertiesInv`: while what is unpacked has not been tried, the placeholders are
  there until the run's second stage (place 2), and are there or hold its
  answers after it; every key is current after it in any run.
- `UfwInv`: while `clean`, the rules cover the list of the last run that ended
  well, and, once a run has passed its firewall stage or will do nothing there,
  the list of that run.  What makes the second case true is `ListKept`: an
  update whose flag for `cn.iplist` is off has the list it found, if there was
  one; with an empty list debconf's flag says nothing, hence the emptiness in
  `clean`.
- `PasswordInv`: where the password has got to at each place: the service file
  after 11, `slapd.conf` after 14, `slapd.d` after 17, readable after 18, and not
  empty from 14 on because `slappasswd` has ended the script otherwise.
- `EntriesInv`: an unpopulated directory has the entries of the places passed.

`DeadEnd` and `EmptyStays` are the wedges: `ldapRunning` (12) comes before the
schemas (13) and before anything that gives slapd a configuration, and
`slappasswd` (14) before the place that would clear the password (26).

**`LdapReplication_proofs`**: `Typed`, `Populated`, `Race`, `Origin`, the
invariants of the run `ldap`, for any number of nodes.  `PassedInv`: what a
run has searched for or added is in its directory when it goes on, and entries
only come; `FirstInv`: places below dc=org are reached by first nodes only;
`LostInv`: an addition that was lost was lost to an entry that is there, so that
the next search finds it, if it asks a slapd that is up (`UpInv`).

**`SolrCollections_proofs`**: `Typed`, `Newer`, `Abandon`, for any nodes,
collections and versions.  `ConfigCurrent` speaks of the end only; the invariant
says who still has to act until then: while the configuration in zookeeper is not
the newest, some node is to upload it (`ConfInv`, `ToUpload`), and while some
replica works with another one, some node is to reload it (`LoadedInv`,
`ToReload`).  A node is to act if its run has not come to the collection yet, or
if it has to run again (`Again`): it has the old version, it failed, or it missed
an update.  An upload of an old version hands the duty back to its node, which is
`Again` because its version is old; `DirsInv` says that a run uploads what it
copied.  `Abandon` stands on the types and `RunInv`.

**`TogglePorts_proofs`**: `Typed`, `Ports`, `Services`.  `PortsInv`: while the
ports are set, every rule that is neither in `todo` nor `refused` is as the call
wants it, and after them all but the refused are; killed runs do not matter because each run sets all rules
again.  `ServicesInv`: from its confirmation to its start a service is down, and
up after it unless it fails by itself, and the flags are written if neither postgres
nor `psql` fails; this needs that the confirmation can be
trusted, hence `~byPath`.

**`ProcessDaemon_proofs`**: `Typed`, `One`, `Orphans`, `Home`, `Usable`.  For
`OneDaemon` the invariant is that a daemon that is not an orphan is the one in
the pid file: `Jsvc` starts a daemon only when the file names none that lives,
and only `RemovePid` takes a living one out of it, which is when it becomes an
orphan.  `OrphansStay` follows from the part that no orphan is in the pid file
again.  For `Housed`, `BusyInv` says that shells that run the script at the same
time are all disturbed, and `HomeInv` that a shell about to remove the directory
has left no daemon that is entitled to it (one that waits, none but the daemon it
waits for), and that an undisturbed one about to start a daemon sits in it: the
directory is removed in more than one place.  `Usable` follows the package through `prerm` and
`postinst`.

**`Zookeeper_proofs`**: `Typed`, `Runs`, `Cure`, `OwnId`,
`OwnPlace`.  `RunsConfigured`
because no server is up from a script's stop to its end (`StoppedInv`), where
`zoo.cfg` is changed, so that one that is up was started after the last change;
`MovedInv` says that what is copied back is what was moved away.  `OwnPlace` is
about a machine its list names: the last of its addresses that occurs in the text
of the list (`Last`, by well-foundedness of the naturals) is the entry itself, no
other entry is equal to it (`NamedIds`), and list and addresses stay as they are
until the script ends (`NumberInv`).  `OwnId` is about the two searches: with three
addresses or more no entry is empty, so that an entry that is equal is an own
address, whatever is part of what.

**`Packages_proofs`**: `Typed`, `Gutted`, `Installed`, `Given`, `Current`, `Up`.
First lemmas about the scripts, that is, sequences of steps: what each consists
of, that what is stopped is started later in the same script, and that this is
inherited by what is left of it (`ProperTail`).  Then `Shape`, about the script
that runs, and on it one invariant for each subject:

- `Gut`: of what `prerm` deleted, the portal's configuration, or the others'
  sources and application, stay away.
- `Deployed`: the files of any other package are there, and a script of it that
  is to end as a configuration will still deploy or has deployed.
- `Pass`: while the password is to be read and debconf can ask, there is one.
- `Run`: in a run of dpkg all is unpacked before anything is configured
  (`Phases`), so that a web package keeps its placeholder until its script;
  it is configured only when os-core is, which is not configured again in that
  run, so that its list stays current; and every web script ends with tomcat and
  apache up.

*Type invariants* of the toggle script, the daemon, zookeeper and the packages
are proved and in no run; those of the other modules are in the runs.

*Only model-checked:* the liveness properties `Converges` (`LdapReplication`) and
`Terminates` (`TogglePorts`, `ProcessDaemon`): they need fairness and ENABLED,
which are out of the prover's reach.  Every invariant, every action property and
both refinements the passing runs check are also theorems.  No recursion over
data occurs.

## 5. Not modelled, and why

*Contents of files:* apache's, tomcat's, java's and jetty's configuration, keys
and certificates (their stage is one that may fail), property files.

*Outside the repository:* `stopDaemons.sh`, which the toggle script downloads;
slapd, Solr, ufw, debconf, dpkg and jsvc themselves, which are modelled from how
the scripts use them and marked external; conflicts slapd resolves by timestamps;
how the daemon reads the flags `d1processingstate` sets one after the other.

*Databases:* the portal's, metacat's and the indexes' are created, dropped or
guarded by single commands whose results no later command looks at; only the
daemon's appears, because `postinst` may fail at it.

*Scripts that cannot run:* `migrate-search-index.sh`, `swap-core.sh` and
`remove-core.sh` copy a core and read properties that are not in the repository
any more, and call a port (8080) on which Solr does not listen.

*Left out of a model:* a kill
between the deletions of one `prerm`; the removal of a package; `dpkg-reconfigure`
of the daemon and of zookeeper; a missing `/var/lib/zookeeper/data`; the first
installation of os-core in `Packages` (it is in `OsCorePostinst`).

*Not part of the system's own logic:* nearly all of the repository's bulk is
third-party code in packages (the web applications of Solr, jetty and
their libraries), schemas and data.  `insertOrUpdateObjectFormatList.sh` reads a
revision, adds one and writes it: whether two nodes collide is metacat's
decision.  Packages that only copy files and restart services have no state worth
a model.

## 6. Plan

All components with state of their own are modelled as far as section 5 says, and
all that the passing runs check is proved, but for liveness.  What is left:

1. For `Terminates`, what can be proved without fairness: that a step of a run
   decreases a measure, so that a run has no infinite behaviour of its own.
2. For `Converges`, the safety half: once all nodes are marked, up and agree on
   the password, a pull brings an entry nearer to everywhere and none is lost.
3. Across modules: that what `Packages` takes for granted about a run of os-core
   (its list is stored, its keystore password empty) follows from
   `OsCoreAnswers`.
