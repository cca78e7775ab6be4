--------------------------- MODULE OsCoreDebconf ---------------------------
(***************************************************************************)
(* The dialogue between the maintainer scripts of dataone-cn-os-core and   *)
(* the debconf database: DEBIAN/postinst, lines 163 to 571 and the frame   *)
(* of main().                                                              *)
(*                                                                         *)
(* A question (a debconf template) keeps a value and a "seen" flag in the  *)
(* database from one run of postinst to the next.  Between runs ansible    *)
(* may set a question and mark it seen, which tells postinst to accept it. *)
(* A run reads the flags into memory, visits every question once (the      *)
(* order is the hash order of a bash array, so any order), visits the      *)
(* derived questions, configures the machine, wipes the passwords and      *)
(* clears the seen flags.  It may also exit with a failure code, or be     *)
(* cut short by "set -e".                                                  *)
(*                                                                         *)
(* What the configuration stages do to the machine is in OsCorePostinst.   *)
(***************************************************************************)
CONSTANTS
    Configured,   \* questions whose answer d1DebConfig.xml gives
    Derived,      \* questions computed from d1DebConfig.xml
    UserEntered,  \* questions only a person or ansible can answer
    Compared,     \* derived questions whose old and new value are compared
    Passwords,    \* cn.keystore.password and cn.openldap.password
    FirstCN,      \* cn.openldap.firstcn
    Value,        \* nonempty answers
    Empty,        \* the empty string
    NotAsked,     \* a prompt debconf did not show
    Default,      \* Default[t]: what the templates file has for t
    Answers,      \* Answers[t]: the answers that make sense for t
    XmlVersion,   \* versions of d1DebConfig.xml, as the answers they give
    Custom        \* those that do not know an address of this machine

Templates == Configured \union Derived \union UserEntered

\* Each template of d1DebConfig.xml has at most one of the three flags.  The one
\* that has none, cn.openldap.populated, is a question of no environment, so
\* that no loop visits it: it is not among the Templates.
ASSUME TemplateKinds ==
    /\ Configured \intersect Derived = {}
    /\ Configured \intersect UserEntered = {}
    /\ Derived \intersect UserEntered = {}
    /\ Compared \subseteq Derived
    /\ Passwords \subseteq UserEntered
    /\ FirstCN \in UserEntered \ Passwords

ASSUME Answering ==
    /\ Empty \notin Value
    /\ NotAsked \notin Value \union {Empty}
    /\ Default \in [Templates -> Value \union {Empty}]
    /\ Answers \in [Templates -> SUBSET Value]
    /\ XmlVersion \subseteq [Configured \union Derived -> Value \union {Empty}]
    /\ Custom \subseteq XmlVersion

VARIABLES
    val,        \* debconf: the value of each question
    seen,       \* debconf: the questions whose seen flag is true
    user,       \* debconf: those whose user-entered-value flag is true
    installed,  \* dpkg knows a most recently configured version
    xml,        \* the d1DebConfig.xml of the run
    phase,      \* where the run is
    mode,       \* "create": first install or reconfigure; "update": upgrade
    todo,       \* what the loop of this phase has still to visit
    flag,       \* DEB_QUESTION_FLAGS: the seen flags in memory
    lastXml,    \* the seen flag in XML_TEMPLATE_BOOLEAN, kept between visits
    deb,        \* DEB_QUESTION_VALUES: the answers the run works with
    changed,    \* the questions DB_QUESTION_CHANGED holds true for
    outcome,    \* how the last run ended
    given,      \* questions marked seen when the run began
    before,     \* the values in the database when the run began
    typed       \* what was typed at a prompt of this run

database == <<val, seen, user>>
memory   == <<flag, lastXml, deb, changed>>
ghosts   == <<given, before, typed>>
control  == <<installed, xml, phase, mode, outcome>>
vars     == <<database, memory, ghosts, control, todo>>

Stored == Value \union {Empty}

\* The value XML_QUESTION_VALUES holds for t: the question element of a
\* derived template has no text.
XmlQuestion(t) == IF t \in Configured THEN xml[t] ELSE Empty

TypeOK ==
    /\ val \in [Templates -> Stored]
    /\ seen \subseteq Templates
    /\ user \subseteq Templates
    /\ installed \in BOOLEAN
    /\ xml \in [Configured \union Derived -> Stored]
    /\ phase \in {"idle", "questions", "derived", "configure"}
    /\ mode \in {"create", "update"}
    /\ todo \subseteq Templates
    /\ flag \in [Templates -> {"true", "false", "blank"}]
    /\ lastXml \in {"true", "false", "blank"}
    /\ deb \in [Templates -> Stored]
    /\ changed \subseteq Templates
    /\ outcome \in {"none", "ok", "failed", "aborted"}
    /\ given \subseteq Templates
    /\ before \in [Templates -> Stored]
    /\ typed \in [Templates -> Stored \union {NotAsked}]

\* A run keeps its arrays to itself: what is outside a run is their initial
\* content.
Blank == [t \in Templates |-> "blank"]
NoAnswer == [t \in Templates |-> Empty]
NoPrompt == [t \in Templates |-> NotAsked]

\* debconf has loaded the templates file.
Init ==
    /\ val = Default /\ seen = {} /\ user = {}
    /\ installed = FALSE
    /\ xml \in XmlVersion
    /\ phase = "idle"
    /\ mode = "create"
    /\ outcome = "none"
    /\ flag = Blank /\ lastXml = "blank" /\ deb = NoAnswer /\ changed = {}
    /\ given = {} /\ before = NoAnswer /\ typed = NoPrompt /\ todo = {}

-----------------------------------------------------------------------------
(* Between runs.                                                           *)

\* A playbook sets one question, its seen flag and its user-entered flag.
Ansible(t, v) ==
    /\ phase = "idle"
    /\ v \in Answers[t]
    /\ val' = [val EXCEPT ![t] = v]
    /\ seen' = seen \union {t}
    /\ user' = IF t \in UserEntered THEN user \union {t} ELSE user \ {t}
    /\ UNCHANGED <<memory, ghosts, control, todo>>

\* "the user has overrided the default behaviour somehow": a person answers a
\* question that d1DebConfig.xml would have answered.
Override(t, v) ==
    /\ phase = "idle"
    /\ t \notin UserEntered
    /\ v \in Answers[t]
    /\ val' = [val EXCEPT ![t] = v]
    /\ user' = user \union {t}
    /\ UNCHANGED <<seen, memory, ghosts, control, todo>>

\* dpkg calls "postinst configure": main() downloads d1DebConfig.xml (or keeps
\* the one it has), reads the flags of the database into memory and chooses
\* between the create and the update path.
Begin(m) ==
    /\ phase = "idle"
    /\ m \in {"create", "update"}
    /\ m = "update" => installed
    /\ phase' = "questions"
    /\ mode' = m
    /\ xml' \in XmlVersion
    /\ flag' = [t \in Templates |-> IF t \in seen THEN "true" ELSE "false"]
    /\ lastXml' = "blank"
    /\ deb' = NoAnswer /\ changed' = {}
    /\ given' = seen
    /\ before' = val /\ typed' = NoPrompt
    /\ todo' = Templates
    /\ UNCHANGED <<database, installed, outcome>>

-----------------------------------------------------------------------------
(* Visiting one question.                                                  *)

Visiting(m, t) == phase = "questions" /\ mode = m /\ t \in todo

\* db_set, db_fset seen true and db_fset of the flags given by the template.
Store(t, v, u) ==
    /\ val' = [val EXCEPT ![t] = v]
    /\ seen' = seen \union {t}
    /\ user' = IF u THEN user \union {t} ELSE user \ {t}

\* The arrays in memory after a visit to t; the visit is over.
Record(t, f, v, c) ==
    /\ flag' = [flag EXCEPT ![t] = f]
    /\ deb' = [deb EXCEPT ![t] = v]
    /\ changed' = IF c THEN changed \union {t} ELSE changed \ {t}
    /\ todo' = todo \ {t}

\* db_input and db_go: debconf shows the question and stores what is typed,
\* or, when it does not show it, keeps the value it has.
Prompt(t, a) ==
    /\ a \in Answers[t] \union {Empty, NotAsked}
    /\ typed' = [typed EXCEPT ![t] = a]

\* Faulty variant of Reply: db_get is not called again after a prompt that was
\* not shown.
ReplyUnread(t, a) == a

Reply(t, a) == IF a = NotAsked THEN val[t] ELSE a

(* process_create_debian_config *)

CreateConfigured(t) ==
    /\ Visiting("create", t) /\ flag[t] = "false" /\ t \in Configured
    /\ Store(t, xml[t], FALSE)
    /\ Record(t, "true", xml[t], FALSE)
    /\ lastXml' = "true"
    /\ UNCHANGED <<control, ghosts>>

\* Faulty variant of CreateUserEntered: no exit 86.
CreateUnchecked(t, a) ==
    /\ Visiting("create", t) /\ flag[t] = "false" /\ t \in UserEntered
    /\ Prompt(t, a)
    /\ Store(t, Reply(t, a), TRUE)
    /\ Record(t, "true", Reply(t, a), FALSE)
    /\ lastXml' = "true"
    /\ UNCHANGED <<control, given, before>>

\* A prompt that is not shown is accepted only if a value is already there.
CreateUserEntered(t, a) ==
    /\ Visiting("create", t) /\ flag[t] = "false" /\ t \in UserEntered
    /\ Prompt(t, a)
    /\ ~(a = NotAsked /\ val[t] = Empty)
    /\ Store(t, Reply(t, a), TRUE)
    /\ Record(t, "true", Reply(t, a), FALSE)
    /\ lastXml' = "true"
    /\ UNCHANGED <<control, given, before>>

\* A derived question is left for later, but its flags stay behind in
\* XML_TEMPLATE_BOOLEAN.
CreateDerived(t) ==
    /\ Visiting("create", t) /\ flag[t] = "false" /\ t \in Derived
    /\ lastXml' = "false"
    /\ todo' = todo \ {t}
    /\ UNCHANGED <<database, control, ghosts, flag, deb, changed>>

\* A question already seen is accepted; its flags in memory become whatever
\* the previous visit left in XML_TEMPLATE_BOOLEAN.
CreateAccept(t) ==
    /\ Visiting("create", t) /\ flag[t] = "true"
    /\ Record(t, lastXml, val[t], t \in changed)
    /\ UNCHANGED <<database, control, ghosts, lastXml>>

(* process_update_debian_config *)

\* The database says a person answered a question d1DebConfig.xml answers.  For
\* an address that file does not know CONTEXT is "CUSTOM", and nobody is asked.
Discrepancy(t) == xml \notin Custom /\ t \notin UserEntered /\ t \in user

\* Faulty variant of UpdateAccept: it records the flags of the question before,
\* as CreateAccept does.
UpdateAcceptLikeCreate(t) ==
    /\ Visiting("update", t) /\ flag[t] = "true"
    /\ Record(t, lastXml, val[t], t \in changed)
    /\ UNCHANGED <<database, control, ghosts, lastXml>>

UpdateAccept(t) ==
    /\ Visiting("update", t) /\ flag[t] = "true"
    /\ Record(t, "true", val[t], t \in changed)
    /\ UNCHANGED <<database, control, ghosts, lastXml>>

\* A discrepancy in name only: the two answers agree.
UpdateAgreed(t) ==
    /\ Visiting("update", t) /\ flag[t] = "false" /\ Discrepancy(t)
    /\ val[t] = XmlQuestion(t)
    /\ user' = user \ {t}
    /\ seen' = IF t \in Derived THEN seen ELSE seen \union {t}
    /\ Record(t, IF t \in Derived THEN "false" ELSE "true", val[t], FALSE)
    /\ UNCHANGED <<val, control, ghosts, lastXml>>

\* The answers differ, so the user is asked; a configured question then goes
\* on to the comparison with d1DebConfig.xml, made with the value it had
\* before the prompt.
UpdateDiscrepancy(t, a) ==
    /\ Visiting("update", t) /\ flag[t] = "false" /\ Discrepancy(t)
    /\ val[t] # XmlQuestion(t)
    /\ Prompt(t, a)
    /\ \/ /\ t \in Configured
          /\ Store(t, xml[t], FALSE)
          /\ Record(t, "true", xml[t], TRUE)
       \/ /\ t \in Derived
          /\ Store(t, Reply(t, a), TRUE)
          /\ Record(t, "true", Reply(t, a), Reply(t, a) # val[t])
    /\ UNCHANGED <<control, given, before, lastXml>>

\* Unlike on the create path, a prompt that is not shown is never an error.
UpdateUserEntered(t, a) ==
    /\ Visiting("update", t) /\ flag[t] = "false" /\ t \in UserEntered
    /\ Prompt(t, a)
    /\ Store(t, Reply(t, a), TRUE)
    /\ Record(t, "true", Reply(t, a), Reply(t, a) # val[t])
    /\ UNCHANGED <<control, given, before, lastXml>>

\* Faulty variant of UpdateConfigured: it compares seen questions as well.
UpdateConfiguredSeen(t) ==
    /\ Visiting("update", t) /\ t \in Configured
    /\ ~Discrepancy(t) /\ val[t] # xml[t]
    /\ Store(t, xml[t], FALSE)
    /\ Record(t, "true", xml[t], TRUE)
    /\ UNCHANGED <<control, ghosts, lastXml>>

UpdateConfigured(t) ==
    /\ Visiting("update", t) /\ flag[t] = "false" /\ t \in Configured
    /\ ~Discrepancy(t) /\ val[t] # xml[t]
    /\ Store(t, xml[t], FALSE)
    /\ Record(t, "true", xml[t], TRUE)
    /\ UNCHANGED <<control, ghosts, lastXml>>

\* Nothing is written when the configured answer is the one in the database.
UpdateUnchanged(t) ==
    /\ Visiting("update", t) /\ flag[t] = "false" /\ t \in Configured
    /\ ~Discrepancy(t) /\ val[t] = xml[t]
    /\ Record(t, "false", val[t], FALSE)
    /\ UNCHANGED <<database, control, ghosts, lastXml>>

UpdateDerived(t) ==
    /\ Visiting("update", t) /\ flag[t] = "false" /\ t \in Derived
    /\ ~Discrepancy(t)
    /\ todo' = todo \ {t}
    /\ UNCHANGED <<database, memory, control, ghosts>>

(* process_derived_debian_config *)

StartDerived ==
    /\ phase = "questions" /\ todo = {}
    /\ phase' = "derived"
    /\ todo' = Derived
    /\ UNCHANGED <<database, memory, ghosts, installed, xml, mode, outcome>>

\* Faulty variant of LooksChanged: the old value is read after db_set.
LooksChangedLate(t) == FALSE

\* The test that sets the changed flag of cn.nodeids and cn.context.label is
\* misspelt: only the old value counts.
LooksChanged(t) == val[t] # Empty /\ (t \in Compared => val[t] # xml[t])

\* Faulty variant of Derive: questions that have an answer by now are derived too.
DeriveAgain(t) ==
    /\ phase = "derived" /\ t \in todo
    /\ Store(t, xml[t], FALSE)
    /\ Record(t, "true", xml[t], LooksChanged(t))
    /\ UNCHANGED <<control, ghosts, lastXml>>

Derive(t) ==
    /\ phase = "derived" /\ t \in todo /\ flag[t] = "false"
    /\ Store(t, xml[t], FALSE)
    /\ Record(t, "true", xml[t], LooksChanged(t))
    /\ UNCHANGED <<control, ghosts, lastXml>>

SkipDerived(t) ==
    /\ phase = "derived" /\ t \in todo /\ flag[t] # "false"
    /\ todo' = todo \ {t}
    /\ UNCHANGED <<database, memory, control, ghosts>>

-----------------------------------------------------------------------------
(* The rest of the run: two of its stages end by wiping a password.        *)

StartConfigure ==
    /\ phase = "derived" /\ todo = {}
    /\ phase' = "configure"
    /\ todo' = Passwords
    /\ UNCHANGED <<database, memory, ghosts, installed, xml, mode, outcome>>

\* The ends of configure_keystore and configure_openldap.
ClearPassword(p) ==
    /\ phase = "configure" /\ p \in todo \intersect Passwords
    /\ val' = [val EXCEPT ![p] = Empty]
    /\ seen' = seen \ {p}
    /\ flag' = [flag EXCEPT ![p] = "false"]
    /\ todo' = todo \ {p}
    /\ UNCHANGED <<user, control, ghosts, lastXml, deb, changed>>

End(result) ==
    /\ phase' = "idle"
    /\ outcome' = result
    /\ flag' = Blank /\ lastXml' = "blank"
    /\ deb' = NoAnswer /\ changed' = {}
    /\ given' = {} /\ before' = NoAnswer /\ typed' = NoPrompt /\ todo' = {}
    /\ UNCHANGED <<xml, mode>>

\* resetDebQuestionSeenFlag, db_stop and exit 0.
Finish ==
    /\ phase = "configure" /\ todo = {}
    /\ seen' = {t \in seen : flag[t] = "true" => t = FirstCN}
    /\ installed' = TRUE
    /\ End("ok")
    /\ UNCHANGED <<val, user>>

\* Faulty variant of ExitWithFailureCode: the passwords stay.
ExitWithPasswords ==
    /\ End("failed")
    /\ UNCHANGED <<database, installed>>

\* exitWithFailureCode wipes both passwords.
ExitWithFailureCode ==
    /\ val' = [t \in Templates |-> IF t \in Passwords THEN Empty ELSE val[t]]
    /\ seen' = seen \ Passwords
    /\ End("failed")
    /\ UNCHANGED <<user, installed>>

\* Exit 86: a question of the create path has no answer.
CreateUnanswered(t) ==
    /\ Visiting("create", t) /\ flag[t] = "false" /\ t \in UserEntered
    /\ val[t] = Empty
    /\ ExitWithFailureCode

StageFails == phase = "configure" /\ ExitWithFailureCode

\* "set -e" ends the script at a command that fails outside a condition, or
\* the script is killed; the database stays as it is.
Abort ==
    /\ phase # "idle"
    /\ End("aborted")
    /\ UNCHANGED <<database, installed>>

-----------------------------------------------------------------------------

Visit(t) ==
    \/ CreateConfigured(t) \/ CreateDerived(t) \/ CreateAccept(t)
    \/ UpdateAccept(t) \/ UpdateAgreed(t) \/ UpdateConfigured(t)
    \/ UpdateUnchanged(t) \/ UpdateDerived(t)
    \/ CreateUnanswered(t)
    \/ \E a \in Answers[t] \union {Empty, NotAsked} :
          \/ CreateUserEntered(t, a)
          \/ UpdateDiscrepancy(t, a)
          \/ UpdateUserEntered(t, a)

Dialogue ==
    \/ \E t \in Templates : Visit(t)
    \/ \E t \in Derived : Derive(t) \/ SkipDerived(t)
    \/ StartDerived

Between ==
    \/ \E t \in Templates, v \in Value : Ansible(t, v) \/ Override(t, v)
    \/ \E m \in {"create", "update"} : Begin(m)

Next ==
    \/ Between
    \/ Dialogue
    \/ StartConfigure
    \/ \E p \in Passwords : ClearPassword(p)
    \/ Finish \/ StageFails \/ Abort

Spec == Init /\ [][Next]_vars

-----------------------------------------------------------------------------
(* Properties.                                                             *)

\* Whatever ansible marked seen reaches the configuration stages as ansible
\* left it, and stays so in the database: postinst lines 326 and 408, "if
\* 'seen' is true, then accept the value as provided".  On the create path
\* derived questions are excepted: the flags recorded for an accepted question
\* are those of the question visited before it (line 383), so that it may be
\* computed again.
ProvidedKept ==
    phase = "configure" =>
        \A t \in given :
            (t \in Derived => mode = "update") =>
                /\ deb[t] = before[t]
                /\ t \notin Passwords => val[t] = before[t]

\* On the update path a question's changed flag, which decides whether the
\* firewall and the certificates are configured again, says exactly whether
\* the answer differs from the one the database held when the run began.
ChangedExact ==
    (phase = "configure" /\ mode = "update") =>
        \A t \in Templates \ (given \union (Derived \ Compared)) :
            (t \in Derived => before[t] # Empty) =>
                (t \in changed <=> deb[t] # before[t])

\* A create run never configures the machine with a question left unanswered
\* because its prompt was not shown (exit 86, lines 352 to 362).
CreateAnswered ==
    (phase = "configure" /\ mode = "create") =>
        \A t \in UserEntered \ given :
            typed[t] = NotAsked => deb[t] # Empty

\* What a person types at a prompt is what the run uses, on both paths and also
\* if the question is visited again as a derived one.  The exception are the
\* prompts of an update about configured questions: line 493 goes on to compare
\* the value from before the prompt and stores the one of d1DebConfig.xml.
AnswerKept ==
    phase = "configure" =>
        \A t \in Templates \ Configured : typed[t] # NotAsked => deb[t] = typed[t]

\* A run that ends by itself, well or with a failure code, leaves no password
\* in the database and none marked seen, whatever path it took.
PasswordsWiped ==
    [][(phase # "idle" /\ phase' = "idle" /\ outcome' # "aborted") =>
          \A p \in Passwords : val'[p] = Empty /\ p \notin seen']_vars

\* A successful update leaves no question marked seen but cn.openldap.firstcn,
\* so that the next run knows ansible is not in control unless it marks
\* questions again (lines 2121 to 2132).
UpdateClearsSeen ==
    [][(phase = "configure" /\ phase' = "idle" /\ outcome' = "ok" /\ mode = "update") =>
          seen' \subseteq {FirstCN}]_vars

=============================================================================
