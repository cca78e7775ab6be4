--------------------------- MODULE OsCoreAnswers ----------------------------
(***************************************************************************)
(* What the configuration stages of dataone-cn-os-core may rely on about   *)
(* the answers they work with: the dialogue of OsCoreDebconf as a single   *)
(* step.  OsCoreDebconf implements this module, and OsCorePostinst adds    *)
(* the machine the stages configure to it.                                 *)
(***************************************************************************)
CONSTANTS
    Configured, Derived, UserEntered,   \* the kinds of questions
    Compared,     \* derived questions whose old and new value are compared
    Passwords,    \* cn.keystore.password and cn.openldap.password
    FirstCN,      \* cn.openldap.firstcn
    Value,        \* nonempty answers
    Empty,        \* the empty string
    Default,      \* Default[t]: what the templates file has for t
    Answers,      \* Answers[t]: the answers that make sense for t
    XmlVersion    \* versions of d1DebConfig.xml, as the answers they give

Templates == Configured \union Derived \union UserEntered
Stored == Value \union {Empty}
NoAnswer == [t \in Templates |-> Empty]

ASSUME Questions ==
    /\ Configured \intersect Derived = {}
    /\ Configured \intersect UserEntered = {}
    /\ Derived \intersect UserEntered = {}
    /\ Compared \subseteq Derived
    /\ Passwords \subseteq UserEntered
    /\ FirstCN \in UserEntered \ Passwords
    /\ Empty \notin Value
    /\ Default \in [Templates -> Stored]
    /\ Answers \in [Templates -> SUBSET Value]
    /\ XmlVersion \subseteq [Configured \union Derived -> Stored]

VARIABLES
    val,        \* debconf: the value of each question
    seen,       \* debconf: the questions whose seen flag is true
    installed,  \* dpkg knows a most recently configured version
    phase,      \* "configure" while the stages run, "idle" otherwise
    mode,       \* the path of the run whose stages run
    deb,        \* the answers the stages work with
    changed,    \* the questions whose answer is new to an update
    outcome     \* how the last run ended

answers == <<val, seen, installed, phase, mode, deb, changed, outcome>>

AnswersTypeOK ==
    /\ val \in [Templates -> Stored]
    /\ seen \subseteq Templates
    /\ installed \in BOOLEAN
    /\ phase \in {"idle", "configure"}
    /\ mode \in {"none", "create", "update"}
    /\ deb \in [Templates -> Stored]
    /\ changed \subseteq Templates
    /\ outcome \in {"none", "ok", "failed", "aborted"}

AnswersInit ==
    /\ val = Default /\ seen = {} /\ installed = FALSE
    /\ phase = "idle" /\ mode = "none" /\ outcome = "none"
    /\ deb = NoAnswer /\ changed = {}

\* Ansible sets a question and marks it seen.
Provide(t, v) ==
    /\ phase = "idle"
    /\ v \in Answers[t]
    /\ val' = [val EXCEPT ![t] = v]
    /\ seen' = seen \union {t}
    /\ UNCHANGED <<installed, phase, mode, deb, changed, outcome>>

\* A person changes a question d1DebConfig.xml answers.
Change(t, v) ==
    /\ phase = "idle"
    /\ t \notin UserEntered
    /\ v \in Answers[t]
    /\ val' = [val EXCEPT ![t] = v]
    /\ UNCHANGED <<seen, installed, phase, mode, deb, changed, outcome>>

\* v is an answer a run of path m over version x may arrive at for t: the one
\* ansible provided (a create run may replace a derived one), the one of
\* d1DebConfig.xml, or the one of the prompt, which leaves the old value when it
\* is not shown.  An update prompts for derived questions a person has changed.
Answer(m, x, t, v) ==
    \/ t \in seen /\ v = val[t]
    \/ t \notin UserEntered /\ (t \in seen => t \in Derived /\ m = "create") /\ v = x[t]
    \/ /\ t \notin seen
       /\ t \in UserEntered \/ (t \in Derived /\ m = "update")
       /\ v \in Answers[t] \union {Empty, val[t]}

\* The flags of these questions may be wrong: derived ones that had no value or
\* whose values are not compared, and on the create path, which does not use
\* them, all derived ones.
Unreliable(m, t) ==
    /\ t \in Derived
    /\ IF m = "create" THEN TRUE ELSE t \notin seen /\ (t \notin Compared \/ val[t] = Empty)

\* Every question is visited: the run has its answers, and all but the
\* configured questions whose answer is not new are seen.
Settle(m) ==
    /\ phase = "idle"
    /\ m = "update" => installed
    /\ phase' = "configure"
    /\ mode' = m
    /\ deb' \in [Templates -> Stored]
    /\ val' = deb'
    /\ \E x \in XmlVersion : \A t \in Templates : Answer(m, x, t, deb'[t])
    /\ LET new == {t \in Templates : deb'[t] # val[t]}
           odd == {t \in Derived : Unreliable(m, t) /\ (t \in Compared => t \in new)}
       IN  \E some \in SUBSET odd :
              changed' = some \union
                  (IF m = "update" THEN {t \in new \ seen : ~Unreliable(m, t)} ELSE {})
    /\ \E same \in SUBSET {t \in Configured : m = "update" /\ deb'[t] = val[t]} :
          seen' = seen \union (Templates \ same)
    /\ UNCHANGED <<installed, outcome>>

\* The dialogue is cut short: some questions are answered, the others are not.
CutShort ==
    /\ phase = "idle"
    /\ outcome' \in {"failed", "aborted"}
    /\ LET cleared == IF outcome' = "failed" THEN Passwords ELSE {} IN
       /\ seen' \in SUBSET Templates
       /\ \A t \in Templates :
             IF t \in cleared THEN t \notin seen' ELSE t \in seen => t \in seen'
       /\ val' \in [Templates -> Stored]
       /\ \A t \in cleared : val'[t] = Empty
       /\ \E m \in {"create", "update"}, x \in XmlVersion :
             /\ m = "update" => installed
             /\ \A t \in Templates \ cleared :
                   val'[t] = val[t] \/ (t \in seen' /\ Answer(m, x, t, val'[t]))
    /\ UNCHANGED <<installed, phase, mode, deb, changed>>

\* The end of a stage that works with a password.
Clear(p) ==
    /\ phase = "configure" /\ p \in Passwords
    /\ val' = [val EXCEPT ![p] = Empty]
    /\ seen' = seen \ {p}
    /\ UNCHANGED <<installed, phase, mode, deb, changed, outcome>>

Over(result) ==
    /\ phase = "configure" /\ phase' = "idle"
    /\ mode' = "none" /\ deb' = NoAnswer /\ changed' = {}
    /\ outcome' = result

\* A run may end well when its passwords are wiped.  An update leaves nothing
\* seen but cn.openldap.firstcn.
Complete ==
    /\ Over("ok")
    /\ \A p \in Passwords : val[p] = Empty /\ p \notin seen
    /\ installed' = TRUE
    /\ seen' \in SUBSET seen
    /\ FirstCN \in seen => FirstCN \in seen'
    /\ mode = "update" => seen' \subseteq {FirstCN}
    /\ UNCHANGED val

\* exitWithFailureCode.
Fail ==
    /\ Over("failed")
    /\ val' = [t \in Templates |-> IF t \in Passwords THEN Empty ELSE val[t]]
    /\ seen' = seen \ Passwords
    /\ UNCHANGED installed

\* "set -e", or the script is killed.
Die ==
    /\ Over("aborted")
    /\ UNCHANGED <<val, seen, installed>>

AnswersNext ==
    \/ \E t \in Templates, v \in Value : Provide(t, v) \/ Change(t, v)
    \/ \E m \in {"create", "update"} : Settle(m)
    \/ CutShort
    \/ \E p \in Passwords : Clear(p)
    \/ Complete \/ Fail \/ Die

AnswersSpec == AnswersInit /\ [][AnswersNext]_answers

=============================================================================
