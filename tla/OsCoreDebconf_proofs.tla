----------------------- MODULE OsCoreDebconf_proofs ------------------------
(***************************************************************************)
(* Proofs about OsCoreDebconf, for any sets of questions, answers and      *)
(* versions of d1DebConfig.xml that satisfy the assumptions of the module. *)
(***************************************************************************)
EXTENDS OsCoreDebconfAnswers, TLAPS

-----------------------------------------------------------------------------
(* Type correctness.                                                       *)

\* The initial state has the types of TypeOK.
LEMMA TypeInit == Init => TypeOK
<1> SUFFICES ASSUME Init PROVE TypeOK
  OBVIOUS
<1>1. xml \in [Configured \union Derived -> Stored] /\ val \in [Templates -> Stored]
  BY Answering DEF Answering, Init, Stored
<1> QED
  BY <1>1 DEF Init, TypeOK, Stored, Blank, NoAnswer, NoPrompt

\* Every step keeps them: no path stores the mark of a prompt that was not shown.
LEMMA TypeStep == TypeOK /\ [Next]_vars => TypeOK'
<1> USE TemplateKinds, Answering
    DEF TemplateKinds, Answering, TypeOK, Stored, Templates
<1> SUFFICES ASSUME TypeOK, [Next]_vars PROVE TypeOK'
  OBVIOUS
<1> USE DEF vars, database, memory, ghosts, control
<1>1. ASSUME NEW t \in Templates, NEW v \in Value, Ansible(t, v) PROVE TypeOK'
  BY <1>1 DEF Ansible
<1>2. ASSUME NEW t \in Templates, NEW v \in Value, Override(t, v) PROVE TypeOK'
  BY <1>2 DEF Override
<1>3. ASSUME NEW m \in {"create", "update"}, Begin(m) PROVE TypeOK'
  BY <1>3 DEF Begin, NoAnswer, NoPrompt
<1>4. ASSUME NEW t \in Templates, CreateConfigured(t) PROVE TypeOK'
  BY <1>4 DEF CreateConfigured, Visiting, Store, Record
<1>5. ASSUME NEW t \in Templates, NEW a \in Answers[t] \union {Empty, NotAsked},
             CreateUserEntered(t, a) PROVE TypeOK'
  BY <1>5 DEF CreateUserEntered, Visiting, Store, Record, Prompt, Reply
<1>6. ASSUME NEW t \in Templates, CreateDerived(t) PROVE TypeOK'
  BY <1>6 DEF CreateDerived, Visiting
<1>7. ASSUME NEW t \in Templates, CreateAccept(t) PROVE TypeOK'
  BY <1>7 DEF CreateAccept, Visiting, Record
<1>8. ASSUME NEW t \in Templates, UpdateAccept(t) PROVE TypeOK'
  BY <1>8 DEF UpdateAccept, Visiting, Record
<1>9. ASSUME NEW t \in Templates, UpdateAgreed(t) PROVE TypeOK'
  BY <1>9 DEF UpdateAgreed, Visiting, Record
<1>10. ASSUME NEW t \in Templates, NEW a \in Answers[t] \union {Empty, NotAsked},
              UpdateDiscrepancy(t, a) PROVE TypeOK'
  BY <1>10 DEF UpdateDiscrepancy, Visiting, Store, Record, Prompt, Reply
<1>11. ASSUME NEW t \in Templates, NEW a \in Answers[t] \union {Empty, NotAsked},
              UpdateUserEntered(t, a) PROVE TypeOK'
  BY <1>11 DEF UpdateUserEntered, Visiting, Store, Record, Prompt, Reply
<1>12. ASSUME NEW t \in Templates, UpdateConfigured(t) PROVE TypeOK'
  BY <1>12 DEF UpdateConfigured, Visiting, Store, Record
<1>13. ASSUME NEW t \in Templates, UpdateUnchanged(t) PROVE TypeOK'
  BY <1>13 DEF UpdateUnchanged, Visiting, Record
<1>14. ASSUME NEW t \in Templates, UpdateDerived(t) PROVE TypeOK'
  BY <1>14 DEF UpdateDerived, Visiting
<1>15. ASSUME NEW t \in Derived, Derive(t) PROVE TypeOK'
  BY <1>15 DEF Derive, Store, Record
<1>16. ASSUME NEW t \in Derived, SkipDerived(t) PROVE TypeOK'
  BY <1>16 DEF SkipDerived
<1>17. ASSUME NEW t \in Templates, CreateUnanswered(t) PROVE TypeOK'
  BY <1>17 DEF CreateUnanswered, ExitWithFailureCode, End, Blank, NoAnswer, NoPrompt
<1>18. CASE StartDerived
  BY <1>18 DEF StartDerived
<1>19. CASE StartConfigure
  BY <1>19 DEF StartConfigure
<1>20. ASSUME NEW p \in Passwords, ClearPassword(p) PROVE TypeOK'
  BY <1>20 DEF ClearPassword
<1>21. CASE Finish
  BY <1>21 DEF Finish, End, Blank, NoAnswer, NoPrompt
<1>22. CASE StageFails
  BY <1>22 DEF StageFails, ExitWithFailureCode, End, Blank, NoAnswer, NoPrompt
<1>23. CASE Abort
  BY <1>23 DEF Abort, End, Blank, NoAnswer, NoPrompt
<1>24. CASE UNCHANGED vars
  BY <1>24
<1> QED
  BY <1>1, <1>2, <1>3, <1>4, <1>5, <1>6, <1>7, <1>8, <1>9, <1>10, <1>11, <1>12,
     <1>13, <1>14, <1>15, <1>16, <1>17, <1>18, <1>19, <1>20, <1>21, <1>22, <1>23,
     <1>24 DEF Next, Between, Dialogue, Visit

\* The debconf database and the arrays of a run hold values of their types in
\* every state, on the create path and on the update path.
THEOREM TypeCorrect == Spec => []TypeOK
  BY TypeInit, TypeStep, PTL DEF Spec

-----------------------------------------------------------------------------
(* The inductive invariant.                                                *)

\* Until the derived questions are visited, a question marked seen keeps its
\* value, is recognised by its flag in memory while its visit is pending, and
\* is answered with that value afterwards.  On the update path the flag in
\* memory stays, which is what protects derived questions from Derive.
GivenInv ==
    /\ phase = "questions" =>
          \A t \in given : /\ val[t] = before[t]
                           /\ t \in todo => flag[t] = "true"
                           /\ t \notin todo => deb[t] = before[t]
    /\ phase = "derived" =>
          \A t \in given : (t \in Derived => mode = "update") =>
                              val[t] = before[t] /\ deb[t] = before[t]
    /\ (phase \in {"questions", "derived"} /\ mode = "update") =>
          \A t \in given : flag[t] = "true"

\* A question that was not marked seen is recognised as such until its visit.
UnseenInv ==
    phase = "questions" =>
        \A t \in todo \ given : flag[t] = "false" /\ val[t] = before[t]

\* Whether the changed flag of t tells the truth.
ChangedTrue(t) == t \in changed <=> deb[t] # before[t]

\* On the update path the changed flag of a question tells the truth from its
\* visit on; a derived question that is not visited yet has its old value.
ChangedInv ==
    mode = "update" =>
        /\ phase = "questions" =>
              \A t \in Templates \ (given \union todo) :
                  t \in Derived /\ flag[t] = "false" => val[t] = before[t]
        /\ phase = "questions" =>
              \A t \in Templates \ (given \union todo) :
                  t \notin Derived \/ flag[t] # "false" => ChangedTrue(t)
        /\ phase = "derived" =>
              \A t \in Templates \ given :
                  t \in todo /\ flag[t] = "false" => val[t] = before[t]
        /\ phase = "derived" =>
              \A t \in Templates \ (given \union (Derived \ Compared)) :
                  /\ t \in Derived => before[t] # Empty
                  /\ t \in todo => flag[t] # "false"
                  => ChangedTrue(t)

\* A visited question of the create path has a value or was typed at a prompt.
AnsweredInv ==
    (mode = "create" /\ phase \in {"questions", "derived"}) =>
        \A t \in UserEntered \ given :
            /\ phase = "questions" => t \notin todo
            /\ typed[t] = NotAsked
            => deb[t] # Empty

\* What was typed at a prompt is the answer in memory; the question was visited
\* and its flag in memory is set, which is what keeps Derive from it.
TypedInv ==
    phase \in {"questions", "derived"} =>
        \A t \in Templates \ Configured :
            typed[t] # NotAsked =>
                /\ deb[t] = typed[t] /\ flag[t] = "true"
                /\ phase = "questions" => t \notin todo

\* A stage that is over has wiped its password.
WipedInv ==
    phase = "configure" =>
        \A p \in Passwords \ todo : val[p] = Empty /\ p \notin seen

\* On the update path the flags in memory know of every seen question.
SeenInv ==
    (phase # "idle" /\ mode = "update") => \A t \in seen : flag[t] = "true"

\* The derived loop visits derived questions only.
TodoInv == phase = "derived" => todo \subseteq Derived

Inv == /\ TypeOK /\ TodoInv /\ GivenInv /\ UnseenInv /\ ChangedInv
       /\ AnsweredInv /\ TypedInv /\ WipedInv /\ SeenInv
       /\ ProvidedKept /\ ChangedExact /\ CreateAnswered /\ AnswerKept

-----------------------------------------------------------------------------
(* Visits.                                                                 *)

\* A visit to t that does not end the run.
Visits(t) ==
    \/ CreateConfigured(t) \/ CreateDerived(t) \/ CreateAccept(t)
    \/ UpdateAccept(t) \/ UpdateAgreed(t) \/ UpdateConfigured(t)
    \/ UpdateUnchanged(t) \/ UpdateDerived(t)
    \/ \E a \in Answers[t] \union {Empty, NotAsked} :
          \/ CreateUserEntered(t, a)
          \/ UpdateDiscrepancy(t, a)
          \/ UpdateUserEntered(t, a)

\* A visit to t writes nothing about any other question.
Frame(t) ==
    /\ phase = "questions" /\ phase' = "questions"
    /\ t \in todo /\ todo' = todo \ {t}
    /\ mode' = mode /\ given' = given /\ before' = before
    /\ \A s \in Templates \ {t} :
          /\ val'[s] = val[s] /\ flag'[s] = flag[s]
          /\ deb'[s] = deb[s] /\ typed'[s] = typed[s]
          /\ s \in changed' <=> s \in changed
          /\ s \in seen' <=> s \in seen

\* Every visit, on either path, keeps to that frame.
LEMMA VisitFrame ==
    ASSUME TypeOK, NEW t \in Templates, Visits(t)
    PROVE  Frame(t)
<1> USE DEF Frame, TypeOK, Visiting, database, memory, ghosts, control
<1>1. CASE CreateConfigured(t)
  BY <1>1 DEF CreateConfigured, Store, Record
<1>2. CASE CreateDerived(t)
  BY <1>2 DEF CreateDerived
<1>3. CASE CreateAccept(t)
  BY <1>3 DEF CreateAccept, Record
<1>4. CASE UpdateAccept(t)
  BY <1>4 DEF UpdateAccept, Record
<1>5. CASE UpdateAgreed(t)
  BY <1>5 DEF UpdateAgreed, Record
<1>6. CASE UpdateConfigured(t)
  BY <1>6 DEF UpdateConfigured, Store, Record
<1>7. CASE UpdateUnchanged(t)
  BY <1>7 DEF UpdateUnchanged, Record
<1>8. CASE UpdateDerived(t)
  BY <1>8 DEF UpdateDerived
<1>9. ASSUME NEW a \in Answers[t] \union {Empty, NotAsked}, CreateUserEntered(t, a)
      PROVE  Frame(t)
  BY <1>9 DEF CreateUserEntered, Store, Record, Prompt
<1>10. ASSUME NEW a \in Answers[t] \union {Empty, NotAsked}, UpdateDiscrepancy(t, a)
       PROVE  Frame(t)
  BY <1>10 DEF UpdateDiscrepancy, Store, Record, Prompt
<1>11. ASSUME NEW a \in Answers[t] \union {Empty, NotAsked}, UpdateUserEntered(t, a)
       PROVE  Frame(t)
  BY <1>11 DEF UpdateUserEntered, Store, Record, Prompt
<1> QED
  BY <1>1, <1>2, <1>3, <1>4, <1>5, <1>6, <1>7, <1>8, <1>9, <1>10, <1>11 DEF Visits

\* What a visit does to the question it visits, as far as the invariant needs:
\* an accepted question keeps its value and works with it; on the update path
\* the changed flag of another one tells the truth, or nothing was written; on
\* the create path a user-entered one has a value or was typed; what was typed
\* at a prompt is the answer.
Effect(t) ==
    /\ t \in given =>
          /\ val'[t] = val[t] /\ deb'[t] = val[t]
          /\ mode = "update" => flag'[t] = "true"
    /\ (t \notin given /\ mode = "update") =>
          IF t \in Derived /\ flag'[t] = "false"
          THEN val'[t] = before[t]
          ELSE t \in changed' <=> deb'[t] # before[t]
    /\ (t \notin given /\ mode = "create" /\ t \in UserEntered) =>
          (typed'[t] = NotAsked => deb'[t] # Empty)
    /\ (t \notin Configured /\ typed'[t] # NotAsked) =>
          deb'[t] = typed'[t] /\ flag'[t] = "true"
    /\ (mode = "update" /\ t \in seen') => flag'[t] = "true"

\* Every visit to a question the invariant describes has that effect.
LEMMA VisitEffect ==
    ASSUME Inv, NEW t \in Templates, Visits(t)
    PROVE  Effect(t)
<1> USE TemplateKinds DEF TemplateKinds, Effect, Visiting, database, memory,
        ghosts, control
<1>1. /\ TypeOK /\ phase = "questions" /\ t \in todo
      /\ t \in given => flag[t] = "true" /\ val[t] = before[t]
      /\ t \notin given => flag[t] = "false" /\ val[t] = before[t]
      /\ mode = "update" => (t \in seen => flag[t] = "true")
      /\ t \notin Configured => typed[t] = NotAsked
  BY VisitFrame DEF Inv, Frame, GivenInv, UnseenInv, TypedInv, SeenInv
<1> USE DEF TypeOK
<1>2. CASE CreateConfigured(t)
  BY <1>1, <1>2 DEF CreateConfigured
<1>3. CASE CreateDerived(t)
  BY <1>1, <1>3 DEF CreateDerived
<1>4. CASE CreateAccept(t)
  BY <1>1, <1>4 DEF CreateAccept, Record
<1>5. CASE UpdateAccept(t)
  BY <1>1, <1>5 DEF UpdateAccept, Record
<1>6. CASE UpdateAgreed(t)
  BY <1>1, <1>6 DEF UpdateAgreed, Record
<1>7. CASE UpdateConfigured(t)
  BY <1>1, <1>7 DEF UpdateConfigured, Store, Record
<1>8. CASE UpdateUnchanged(t)
  BY <1>1, <1>8 DEF UpdateUnchanged, Record
<1>9. CASE UpdateDerived(t)
  BY <1>1, <1>9 DEF UpdateDerived
<1>10. ASSUME NEW a \in Answers[t] \union {Empty, NotAsked}, CreateUserEntered(t, a)
       PROVE  Effect(t)
  BY <1>1, <1>10 DEF CreateUserEntered, Record, Prompt, Reply
<1>11. ASSUME NEW a \in Answers[t] \union {Empty, NotAsked}, UpdateDiscrepancy(t, a)
       PROVE  Effect(t)
  BY <1>1, <1>11 DEF UpdateDiscrepancy, Discrepancy, XmlQuestion, Store, Record, Prompt, Reply
<1>12. ASSUME NEW a \in Answers[t] \union {Empty, NotAsked}, UpdateUserEntered(t, a)
       PROVE  Effect(t)
  BY <1>1, <1>12 DEF UpdateUserEntered, Store, Record, Prompt, Reply
<1> QED
  BY <1>2, <1>3, <1>4, <1>5, <1>6, <1>7, <1>8, <1>9, <1>10, <1>11, <1>12 DEF Visits

\* A visit keeps the invariant: one part at a time, the visited question by its
\* effect and the others by the frame.
LEMMA VisitKeepsInv ==
    ASSUME Inv, TypeOK', NEW t \in Templates, Visits(t)
    PROVE  Inv'
<1>1. Frame(t) /\ Effect(t) /\ TypeOK
  BY VisitFrame, VisitEffect DEF Inv
<1>2. Inv /\ phase' = "questions" /\ phase = "questions"
  BY <1>1 DEF Frame
<1> USE DEF Frame, TypeOK
<1>3. /\ TodoInv' /\ WipedInv' /\ ProvidedKept' /\ ChangedExact' /\ CreateAnswered'
      /\ AnswerKept'
  BY <1>2 DEF TodoInv, WipedInv, ProvidedKept, ChangedExact, CreateAnswered, AnswerKept
<1>4. GivenInv'
  BY <1>1, <1>2 DEF Inv, GivenInv, Effect
<1>5. UnseenInv'
  BY <1>1, <1>2 DEF Inv, UnseenInv
<1>6. ChangedInv'
  BY <1>1, <1>2 DEF Inv, ChangedInv, ChangedTrue, Effect
<1>7. AnsweredInv'
  BY <1>1, <1>2, TemplateKinds DEF Inv, AnsweredInv, Effect, Templates
<1>8. SeenInv'
  BY <1>1, <1>2 DEF Inv, SeenInv, Effect
<1>9. TypedInv'
  BY <1>1, <1>2 DEF Inv, TypedInv, Effect
<1> QED
  BY <1>3, <1>4, <1>5, <1>6, <1>7, <1>8, <1>9 DEF Inv

-----------------------------------------------------------------------------
(* The derived questions and the stages.                                   *)

\* process_derived_debian_config turns what is known of the derived questions
\* into what the stages rely on, and keeps the other parts.
LEMMA DerivedKeepsInv ==
    ASSUME Inv, TypeOK',
           StartDerived \/ StartConfigure
             \/ \E t \in Derived : Derive(t) \/ SkipDerived(t)
    PROVE  Inv'
<1> USE TemplateKinds DEF TemplateKinds, Templates, TypeOK, database, memory,
        ghosts, control
<1>1. CASE StartDerived
  <2> USE <1>1 DEF StartDerived
  <2>1. /\ TodoInv' /\ WipedInv' /\ ProvidedKept' /\ ChangedExact' /\ CreateAnswered'
        /\ AnswerKept'
    BY DEF TodoInv, WipedInv, ProvidedKept, ChangedExact, CreateAnswered, AnswerKept
  <2>2. GivenInv' /\ UnseenInv' /\ TypedInv' /\ SeenInv'
    BY DEF Inv, GivenInv, UnseenInv, TypedInv, SeenInv
  <2>3. ChangedInv'
    BY DEF Inv, ChangedInv, ChangedTrue
  <2>4. AnsweredInv'
    BY DEF Inv, AnsweredInv
  <2> QED
    BY <2>1, <2>2, <2>3, <2>4 DEF Inv
<1>2. CASE StartConfigure
  <2> USE <1>2 DEF StartConfigure
  <2>1. TodoInv' /\ WipedInv' /\ UnseenInv' /\ GivenInv' /\ SeenInv'
    BY DEF Inv, TodoInv, WipedInv, UnseenInv, GivenInv, SeenInv
  <2>2. ChangedInv' /\ AnsweredInv' /\ TypedInv'
    BY DEF ChangedInv, AnsweredInv, TypedInv
  <2>3. ProvidedKept'
    BY DEF Inv, GivenInv, ProvidedKept
  <2>4. ChangedExact'
    BY DEF Inv, ChangedInv, ChangedTrue, ChangedExact
  <2>5. CreateAnswered'
    BY DEF Inv, AnsweredInv, CreateAnswered
  <2>6. AnswerKept'
    BY DEF Inv, TypedInv, AnswerKept
  <2> QED
    BY <2>1, <2>2, <2>3, <2>4, <2>5, <2>6 DEF Inv
<1>3. ASSUME NEW t \in Derived, Derive(t) PROVE Inv'
  <2> USE <1>3 DEF Derive, Store, Record
  <2>1. /\ WipedInv' /\ UnseenInv' /\ ProvidedKept' /\ ChangedExact' /\ CreateAnswered'
        /\ AnswerKept'
    BY DEF WipedInv, UnseenInv, ProvidedKept, ChangedExact, CreateAnswered, AnswerKept
  <2>2. TodoInv' /\ SeenInv'
    BY DEF Inv, TodoInv, SeenInv
  <2>3. GivenInv'
    BY DEF Inv, GivenInv
  <2>4. ChangedInv'
    BY DEF Inv, ChangedInv, ChangedTrue, LooksChanged
  <2>5. AnsweredInv' /\ TypedInv'
    BY DEF Inv, AnsweredInv, TypedInv
  <2> QED
    BY <2>1, <2>2, <2>3, <2>4, <2>5 DEF Inv
<1>4. ASSUME NEW t \in Derived, SkipDerived(t) PROVE Inv'
  <2> USE <1>4 DEF SkipDerived
  <2>1. /\ WipedInv' /\ UnseenInv' /\ ProvidedKept' /\ ChangedExact' /\ CreateAnswered'
        /\ AnswerKept'
    BY DEF WipedInv, UnseenInv, ProvidedKept, ChangedExact, CreateAnswered, AnswerKept
  <2>2. TodoInv' /\ SeenInv' /\ GivenInv' /\ AnsweredInv' /\ TypedInv'
    BY DEF Inv, TodoInv, SeenInv, GivenInv, AnsweredInv, TypedInv
  <2>3. ChangedInv'
    BY DEF Inv, ChangedInv, ChangedTrue
  <2> QED
    BY <2>1, <2>2, <2>3 DEF Inv
<1> QED
  BY <1>1, <1>2, <1>3, <1>4

\* A stage that wipes its password disturbs nothing else of the invariant.
LEMMA ClearKeepsInv ==
    ASSUME Inv, TypeOK', NEW p \in Passwords, ClearPassword(p)
    PROVE  Inv'
<1> USE TemplateKinds DEF TemplateKinds, Templates, TypeOK, ClearPassword, control, ghosts
<1>1. TodoInv' /\ UnseenInv' /\ GivenInv' /\ ChangedInv' /\ AnsweredInv' /\ TypedInv'
  <2>1. ProvidedKept'
    BY DEF Inv, ProvidedKept
  <2> QED
    BY <2>1 DEF TodoInv, UnseenInv, GivenInv, ChangedInv, AnsweredInv, TypedInv
<1>2. WipedInv' /\ SeenInv'
  BY DEF Inv, WipedInv, SeenInv
<1>3. ProvidedKept' /\ ChangedExact' /\ CreateAnswered' /\ AnswerKept'
  BY DEF Inv, ProvidedKept, ChangedExact, CreateAnswered, AnswerKept
<1> QED
  BY <1>1, <1>2, <1>3 DEF Inv

\* Between runs only the types matter.
LEMMA IdleInv ==
    ASSUME TypeOK, phase = "idle"
    PROVE  Inv
BY DEF Inv, TodoInv, GivenInv, UnseenInv, ChangedInv, AnsweredInv, TypedInv,
       WipedInv, SeenInv, ProvidedKept, ChangedExact, CreateAnswered, AnswerKept

\* A run begins with the invariant: the flags in memory are those of the database.
LEMMA BeginInv ==
    ASSUME Inv, TypeOK', NEW m \in {"create", "update"}, Begin(m)
    PROVE  Inv'
<1> USE DEF TypeOK, Begin
<1>1. GivenInv' /\ UnseenInv' /\ SeenInv' /\ ChangedInv' /\ AnsweredInv'
  BY TemplateKinds DEF GivenInv, UnseenInv, SeenInv, ChangedInv, AnsweredInv,
     Templates, database
<1>2. TodoInv' /\ WipedInv' /\ ProvidedKept' /\ ChangedExact' /\ CreateAnswered'
  BY DEF TodoInv, WipedInv, ProvidedKept, ChangedExact, CreateAnswered
<1>3. TypedInv' /\ AnswerKept'
  BY DEF TypedInv, AnswerKept, NoPrompt
<1> QED
  BY <1>1, <1>2, <1>3 DEF Inv

-----------------------------------------------------------------------------
(* The theorems.                                                           *)

\* The invariant holds before the package is first configured.
LEMMA InvInit == Init => Inv
BY TypeInit, IdleInv DEF Init

\* Every step keeps the invariant: one part per kind of step; the steps that end
\* a run need the types only.
LEMMA InvStep == Inv /\ [Next]_vars => Inv'
<1> SUFFICES ASSUME Inv, [Next]_vars PROVE Inv'
  OBVIOUS
<1>1. TypeOK'
  BY TypeStep DEF Inv
<1>2. CASE phase' = "idle"
  BY <1>1, <1>2 DEF Inv, TodoInv, GivenInv, UnseenInv, ChangedInv, AnsweredInv,
     TypedInv, WipedInv, SeenInv, ProvidedKept, ChangedExact, CreateAnswered, AnswerKept
<1>3. CASE phase' # "idle"
  <2>1. CASE UNCHANGED vars
    BY <2>1 DEF vars, database, memory, ghosts, control, Inv, TypeOK, TodoInv,
       GivenInv, UnseenInv, ChangedInv, ChangedTrue, AnsweredInv, TypedInv, WipedInv, SeenInv,
       ProvidedKept, ChangedExact, CreateAnswered, AnswerKept
  <2>2. ASSUME NEW m \in {"create", "update"}, Begin(m) PROVE Inv'
    BY <1>1, <2>2, BeginInv
  <2>3. ASSUME NEW t \in Templates, Visit(t) PROVE Inv'
    <3>1. Visits(t)
      BY <1>3, <2>3 DEF Visit, Visits, CreateUnanswered, ExitWithFailureCode, End
    <3> QED
      BY <1>1, <3>1, VisitKeepsInv
  <2>4. CASE StartDerived \/ StartConfigure
               \/ \E t \in Derived : Derive(t) \/ SkipDerived(t)
    BY <1>1, <2>4, DerivedKeepsInv
  <2>5. ASSUME NEW p \in Passwords, ClearPassword(p) PROVE Inv'
    BY <1>1, <2>5, ClearKeepsInv
  <2>6. ASSUME NEW t \in Templates, NEW v \in Value, Ansible(t, v) \/ Override(t, v)
        PROVE  Inv'
    BY <1>3, <2>6 DEF Ansible, Override, control
  <2>7. ~(Finish \/ StageFails \/ Abort)
    BY <1>3 DEF Finish, StageFails, Abort, ExitWithFailureCode, End
  <2> QED
    BY <2>1, <2>2, <2>3, <2>4, <2>5, <2>6, <2>7 DEF Next, Between, Dialogue
<1> QED
  BY <1>2, <1>3

\* The invariant holds of every state of every behaviour.
LEMMA Invariant == Spec => []Inv
  BY InvInit, InvStep, PTL DEF Spec

\* Whatever the questions and the order in which they are visited, the stages of
\* a run work with the values ansible marked seen (derived questions of the
\* create path excepted), and the database keeps them.
THEOREM Provided == Spec => []ProvidedKept
<1>1. Inv => ProvidedKept
  BY DEF Inv
<1> QED
  BY <1>1, Invariant, PTL

\* On the update path the changed flags are exact.
THEOREM Changed == Spec => []ChangedExact
<1>1. Inv => ChangedExact
  BY DEF Inv
<1> QED
  BY <1>1, Invariant, PTL

\* A create run whose prompts are not shown configures nothing unanswered.
THEOREM Answered == Spec => []CreateAnswered
<1>1. Inv => CreateAnswered
  BY DEF Inv
<1> QED
  BY <1>1, Invariant, PTL

\* What a person types at a prompt is what the stages work with, derived
\* questions that are visited a second time included.
THEOREM Kept == Spec => []AnswerKept
<1>1. Inv => AnswerKept
  BY DEF Inv
<1> QED
  BY <1>1, Invariant, PTL

\* Every run that ends by itself, well or with a failure code, leaves the
\* passwords empty and not seen.
THEOREM Wiped == Spec => PasswordsWiped
<1> DEFINE Act == (phase # "idle" /\ phase' = "idle" /\ outcome' # "aborted") =>
                   \A p \in Passwords : val'[p] = Empty /\ p \notin seen'
<1>1. Inv /\ [Next]_vars => [Act]_vars
  <2> SUFFICES ASSUME Inv, Next, phase # "idle", phase' = "idle", outcome' # "aborted",
                      NEW p \in Passwords
               PROVE  val'[p] = Empty /\ p \notin seen'
    BY DEF vars, control
  <2>1. p \in Templates
    BY TemplateKinds DEF TemplateKinds, Templates
  <2>2. CASE Finish
    BY <2>2 DEF Inv, WipedInv, Finish
  <2>3. CASE ExitWithFailureCode
    BY <2>1, <2>3 DEF ExitWithFailureCode
  <2>4. ~Abort /\ \A m \in {"create", "update"} : ~Begin(m)
    BY DEF Abort, End, Begin
  <2>5. \A t \in Templates, v \in Value : ~Ansible(t, v) /\ ~Override(t, v)
    BY DEF Ansible, Override
  <2>6. \A t \in Templates : ~Visits(t)
    BY VisitFrame DEF Inv, Frame
  <2>7. ~StartDerived /\ ~StartConfigure
    BY DEF StartDerived, StartConfigure
  <2>8. \A t \in Derived : ~Derive(t) /\ ~SkipDerived(t)
    BY DEF Derive, SkipDerived, control
  <2>9. \A q \in Passwords : ~ClearPassword(q)
    BY DEF ClearPassword, control
  <2> QED
    BY <2>2, <2>3, <2>4, <2>5, <2>6, <2>7, <2>8, <2>9
       DEF Next, Between, Dialogue, Visit, Visits, CreateUnanswered, StageFails
<1> QED
  BY <1>1, Invariant, PTL DEF Spec, PasswordsWiped

\* A successful update clears every seen flag but that of cn.openldap.firstcn.
THEOREM Cleared == Spec => UpdateClearsSeen
<1> DEFINE Act == (phase = "configure" /\ phase' = "idle" /\ outcome' = "ok" /\ mode = "update")
                   => seen' \subseteq {FirstCN}
<1>1. Inv /\ [Next]_vars => [Act]_vars
  <2> SUFFICES ASSUME Inv, Next, phase = "configure", phase' = "idle",
                      outcome' = "ok", mode = "update"
               PROVE  seen' \subseteq {FirstCN}
    BY DEF vars, control
  <2>1. Finish
    <3>1. ~Abort /\ ~StageFails
      BY DEF Abort, StageFails, ExitWithFailureCode, End
    <3>2. \A t \in Templates : ~Visit(t)
      BY DEF Visit, CreateConfigured, CreateUserEntered, CreateDerived, CreateAccept,
         UpdateAccept, UpdateAgreed, UpdateDiscrepancy, UpdateUserEntered,
         UpdateConfigured, UpdateUnchanged, UpdateDerived, CreateUnanswered, Visiting
    <3>3. /\ ~StartDerived /\ ~StartConfigure
          /\ \A t \in Derived : ~Derive(t) /\ ~SkipDerived(t)
          /\ \A q \in Passwords : ~ClearPassword(q)
      BY DEF StartDerived, StartConfigure, Derive, SkipDerived, ClearPassword, control
    <3>4. ~Between
      BY DEF Between, Ansible, Override, Begin
    <3> QED
      BY <3>1, <3>2, <3>3, <3>4 DEF Next, Dialogue
  <2> QED
    BY <2>1 DEF Inv, SeenInv, Finish
<1> QED
  BY <1>1, Invariant, PTL DEF Spec, UpdateClearsSeen

-----------------------------------------------------------------------------
(* What the promise rests on.                                              *)

\* v is an answer this run may arrive at for t, as OsCoreAnswers has it.
Arrived(t, v) ==
    \/ t \in given /\ v = before[t]
    \/ t \notin UserEntered /\ (t \in given => t \in Derived /\ mode = "create") /\ v = xml[t]
    \/ /\ t \notin given
       /\ t \in UserEntered \/ (t \in Derived /\ mode = "update")
       /\ v \in Answers[t] \union {Empty, before[t]}

\* The answer of t is in memory and in the database, and t is seen, except for
\* an update's configured question whose answer is not new.
Settled(t) ==
    /\ deb[t] = val[t] /\ Arrived(t, deb[t])
    /\ t \in seen \/ (t \in Configured /\ mode = "update" /\ deb[t] = before[t])

\* Visited questions are settled, but for derived ones that will be derived.
SettledInv ==
    /\ phase = "questions" =>
          \A t \in Templates \ todo : Settled(t) \/ (t \in Derived /\ flag[t] = "false")
    /\ phase = "derived" =>
          \A t \in Templates : Settled(t) \/ (t \in todo /\ flag[t] = "false")

\* A question that will be derived has its old value.
KeptInv ==
    /\ phase = "questions" =>
          \A t \in Derived : flag[t] = "false" => val[t] = before[t]
    /\ phase = "derived" =>
          \A t \in todo : flag[t] = "false" => val[t] = before[t]

\* If the dialogue ends now, each question has its old value, or an answer and
\* its seen flag.
PendingInv ==
    Asking =>
        /\ given \subseteq seen
        /\ \A t \in Templates : val[t] = before[t] \/ (t \in seen /\ Arrived(t, val[t]))

\* What a changed flag says in the middle of the dialogue.
FlagInv ==
    /\ Asking =>
          \A t \in changed :
              /\ t \in Compared => deb[t] # before[t]
              /\ IF mode = "create" THEN t \in Derived ELSE t \notin given
    /\ phase = "questions" /\ mode = "create" => changed = {}

\* The run has one d1DebConfig.xml, and an update follows an installation.
RunInv ==
    /\ xml \in XmlVersion
    /\ phase # "idle" /\ mode = "update" => installed

PromiseInv == SettledInv /\ KeptInv /\ PendingInv /\ FlagInv /\ RunInv

\* What a visit does to the question it visits.
PromiseEffect(t) ==
    /\ \/ t \in Derived /\ flag'[t] = "false"
       \/ /\ deb'[t] = val'[t] /\ Arrived(t, deb'[t])
          /\ t \in seen' \/ (t \in Configured /\ mode = "update" /\ deb'[t] = before[t])
    /\ t \in Derived /\ flag'[t] = "false" => val'[t] = before[t]
    /\ t \in given => t \in seen'
    /\ val'[t] = before[t] \/ (t \in seen' /\ Arrived(t, val'[t]))
    /\ t \in changed' =>
          /\ t \in Compared => deb'[t] # before[t]
          /\ mode = "update" /\ t \notin given

\* Every visit, on either path, has that effect.
LEMMA PromiseEffects ==
    ASSUME Inv, PromiseInv, NEW t \in Templates, Visits(t)
    PROVE  PromiseEffect(t) /\ UNCHANGED <<xml, installed, outcome>>
<1> USE TemplateKinds DEF TemplateKinds, PromiseEffect, Arrived, Visiting, database,
        memory, ghosts, control
<1>1. /\ TypeOK /\ phase = "questions" /\ t \in todo
      /\ t \in given => flag[t] = "true" /\ t \in seen
      /\ t \notin given => flag[t] = "false"
      /\ val[t] = before[t]
      /\ IF mode = "create" THEN t \notin changed ELSE mode = "update"
      /\ t \in changed => t \notin given /\ (t \in Compared => deb[t] # before[t])
      /\ t \in Templates
  BY VisitFrame DEF Inv, PromiseInv, Frame, GivenInv, UnseenInv, PendingInv, FlagInv,
     Asking, TypeOK
<1> USE DEF TypeOK
<1>2. CASE CreateConfigured(t)
  BY <1>1, <1>2 DEF CreateConfigured, Store, Record
<1>3. CASE CreateDerived(t)
  BY <1>1, <1>3 DEF CreateDerived
<1>4. CASE CreateAccept(t)
  BY <1>1, <1>4 DEF CreateAccept, Record
<1>5. CASE UpdateAccept(t)
  BY <1>1, <1>5 DEF UpdateAccept, Record
<1>6. CASE UpdateAgreed(t)
  BY <1>1, <1>6 DEF UpdateAgreed, Record, Discrepancy, XmlQuestion, Templates
<1>7. CASE UpdateConfigured(t)
  BY <1>1, <1>7 DEF UpdateConfigured, Store, Record
<1>8. CASE UpdateUnchanged(t)
  BY <1>1, <1>8 DEF UpdateUnchanged, Record
<1>9. CASE UpdateDerived(t)
  BY <1>1, <1>9 DEF UpdateDerived
<1>10. ASSUME NEW a \in Answers[t] \union {Empty, NotAsked}, CreateUserEntered(t, a)
       PROVE  PromiseEffect(t) /\ UNCHANGED <<xml, installed, outcome>>
  BY <1>1, <1>10 DEF CreateUserEntered, Store, Record, Prompt, Reply
<1>11. ASSUME NEW a \in Answers[t] \union {Empty, NotAsked}, UpdateDiscrepancy(t, a)
       PROVE  PromiseEffect(t) /\ UNCHANGED <<xml, installed, outcome>>
  BY <1>1, <1>11 DEF UpdateDiscrepancy, Store, Record, Prompt, Reply
<1>12. ASSUME NEW a \in Answers[t] \union {Empty, NotAsked}, UpdateUserEntered(t, a)
       PROVE  PromiseEffect(t) /\ UNCHANGED <<xml, installed, outcome>>
  BY <1>1, <1>12 DEF UpdateUserEntered, Store, Record, Prompt, Reply
<1> HIDE TemplateKinds DEF TemplateKinds, PromiseEffect, Arrived, Visiting, database,
         memory, ghosts, control, TypeOK
<1> QED
  BY <1>2, <1>3, <1>4, <1>5, <1>6, <1>7, <1>8, <1>9, <1>10, <1>11, <1>12 DEF Visits

\* A visit keeps the promise.
LEMMA VisitKeepsPromise ==
    ASSUME Inv, TypeOK', PromiseInv, NEW t \in Templates, Visits(t)
    PROVE  PromiseInv'
<1>1. /\ Frame(t) /\ PromiseEffect(t) /\ TypeOK
      /\ UNCHANGED <<xml, installed>>
  BY VisitFrame, PromiseEffects DEF Inv
<1>2. PromiseInv /\ phase' = "questions" /\ phase = "questions" /\ Asking
  BY <1>1 DEF Frame, Asking
<1>3. /\ t \in todo /\ todo' = todo \ {t}
      /\ mode' = mode /\ given' = given /\ before' = before /\ xml' = xml
      /\ Derived \subseteq Templates /\ given \subseteq Templates
      /\ changed \subseteq Templates /\ mode \in {"create", "update"}
  BY <1>1 DEF Frame, TypeOK, Templates
<1>4. \A s, v : Arrived(s, v)' <=> Arrived(s, v')
  BY <1>3 DEF Arrived
<1>5. SettledInv'
  <2> SUFFICES ASSUME NEW s \in Templates, s \notin todo'
               PROVE  Settled(s)' \/ (s \in Derived /\ flag'[s] = "false")
    BY <1>2 DEF SettledInv
  <2>1. CASE s = t
    BY <1>1, <1>3, <2>1 DEF PromiseEffect, Settled, Arrived
  <2>2. CASE s # t
    <3>1. Settled(s) \/ (s \in Derived /\ flag[s] = "false")
      BY <1>2, <1>3, <2>2 DEF PromiseInv, SettledInv
    <3> QED
      BY <1>1, <1>3, <2>2, <3>1 DEF Settled, Arrived, Frame
  <2> QED
    BY <2>1, <2>2
<1>6. KeptInv'
  BY <1>1, <1>2, <1>3 DEF PromiseInv, KeptInv, PromiseEffect, Frame
<1>7. PendingInv'
  <2>1. given' \subseteq seen'
    BY <1>1, <1>2, <1>3 DEF PromiseInv, PendingInv, PromiseEffect, Frame
  <2>2. ASSUME NEW s \in Templates
        PROVE  val'[s] = before'[s] \/ (s \in seen' /\ Arrived(s, val[s])')
    <3>1. CASE s = t
      BY <1>1, <1>3, <3>1 DEF PromiseEffect, Arrived
    <3>2. CASE s # t
      <4>1. val[s] = before[s] \/ (s \in seen /\ Arrived(s, val[s]))
        BY <1>2 DEF PromiseInv, PendingInv
      <4> QED
        BY <1>1, <1>3, <3>2, <4>1 DEF Arrived, Frame
    <3> QED
      BY <3>1, <3>2
  <2> QED
    BY <2>1, <2>2 DEF PendingInv
<1>8. FlagInv'
  <2>1. ASSUME NEW s \in changed'
        PROVE  /\ s \in Compared => deb'[s] # before'[s]
               /\ mode' = "update" /\ s \notin given'
    <3>1. CASE s = t
      BY <1>1, <1>3, <2>1, <3>1 DEF PromiseEffect
    <3>2. CASE s # t
      <4>0. s \in Templates
        BY <2>1 DEF TypeOK, Templates
      <4>1. s \in changed /\ deb'[s] = deb[s]
        BY <1>1, <2>1, <3>2, <4>0 DEF Frame
      <4> QED
        BY <1>2, <1>3, <4>1 DEF PromiseInv, FlagInv
    <3> QED
      BY <3>1, <3>2
  <2> QED
    BY <2>1 DEF FlagInv
<1>9. RunInv'
  BY <1>1, <1>2, <1>3 DEF PromiseInv, RunInv
<1> QED
  BY <1>5, <1>6, <1>7, <1>8, <1>9 DEF PromiseInv

\* So do the derived questions.
LEMMA DerivedKeepsPromise ==
    ASSUME Inv, TypeOK', PromiseInv,
           StartDerived \/ StartConfigure
             \/ \E t \in Derived : Derive(t) \/ SkipDerived(t)
    PROVE  PromiseInv'
<1> USE TemplateKinds DEF TemplateKinds, Templates, database, memory, ghosts, control
<1>0. TypeOK /\ SettledInv /\ KeptInv /\ PendingInv /\ FlagInv /\ RunInv
  BY DEF Inv, PromiseInv
<1>1. CASE StartDerived
  <2> USE <1>0, <1>1 DEF StartDerived
  <2>1. SettledInv'
    BY DEF SettledInv, Settled, Arrived
  <2>2. KeptInv'
    BY DEF KeptInv
  <2>3. PendingInv'
    BY DEF PendingInv, Asking, Arrived
  <2>4. FlagInv' /\ RunInv'
    BY DEF FlagInv, RunInv, Asking
  <2> QED
    BY <2>1, <2>2, <2>3, <2>4 DEF PromiseInv
<1>2. CASE StartConfigure
  BY <1>0, <1>2 DEF StartConfigure, PromiseInv, SettledInv, KeptInv, PendingInv, FlagInv,
     RunInv, Asking
<1>3. ASSUME NEW t \in Derived, Derive(t) PROVE PromiseInv'
  <2>1. /\ phase = "derived" /\ phase' = "derived" /\ t \in todo /\ flag[t] = "false"
        /\ todo' = todo \ {t} /\ UNCHANGED <<installed, xml, mode, given, before>>
        /\ t \in Templates /\ t \notin UserEntered
        /\ val[t] = before[t]
        /\ t \in given => mode = "create"
    BY <1>0, <1>3 DEF Derive, Store, Record, TypeOK, KeptInv, Inv, GivenInv
  <2>2. /\ val' = [val EXCEPT ![t] = xml[t]] /\ deb' = [deb EXCEPT ![t] = xml[t]]
        /\ seen' = seen \union {t} /\ flag' = [flag EXCEPT ![t] = "true"]
        /\ changed' = IF LooksChanged(t) THEN changed \union {t} ELSE changed \ {t}
    BY <1>3 DEF Derive, Store, Record
  <2>3. /\ val'[t] = xml[t] /\ deb'[t] = xml[t] /\ t \in seen'
        /\ \A s \in Templates \ {t} :
              /\ val'[s] = val[s] /\ deb'[s] = deb[s] /\ flag'[s] = flag[s]
              /\ s \in seen => s \in seen'
              /\ s \in changed' <=> s \in changed
    BY <1>0, <2>1, <2>2 DEF TypeOK
  <2>4. Arrived(t, xml[t])
    BY <2>1 DEF Arrived
  <2>5. SettledInv'
    <3> SUFFICES ASSUME NEW s \in Templates
                 PROVE  Settled(s)' \/ (s \in todo' /\ flag'[s] = "false")
      BY <2>1 DEF SettledInv
    <3>1. CASE s = t
      BY <2>1, <2>3, <2>4, <3>1 DEF Settled, Arrived
    <3>2. CASE s # t
      <4>1. Settled(s) \/ (s \in todo /\ flag[s] = "false")
        BY <1>0, <2>1 DEF SettledInv
      <4> QED
        BY <2>1, <2>3, <3>2, <4>1 DEF Settled, Arrived
    <3> QED
      BY <3>1, <3>2
  <2>6. KeptInv'
    <3>1. todo \subseteq Templates
      BY <1>0 DEF TypeOK
    <3> QED
      BY <1>0, <2>1, <2>3, <3>1 DEF KeptInv
  <2>7. PendingInv'
    <3>1. given \subseteq Templates
      BY <1>0 DEF TypeOK
    <3>2. given' \subseteq seen'
      BY <1>0, <2>1, <2>3, <3>1 DEF PendingInv, Asking
    <3>3. ASSUME NEW s \in Templates
          PROVE  val'[s] = before'[s] \/ (s \in seen' /\ Arrived(s, val[s])')
      <4>1. CASE s = t
        BY <2>1, <2>3, <2>4, <4>1 DEF Arrived
      <4>2. CASE s # t
        <5>1. val[s] = before[s] \/ (s \in seen /\ Arrived(s, val[s]))
          BY <1>0, <2>1 DEF PendingInv, Asking
        <5> QED
          BY <2>1, <2>3, <4>2, <5>1 DEF Arrived
      <4> QED
        BY <4>1, <4>2
    <3> QED
      BY <3>2, <3>3 DEF PendingInv
  <2>8. FlagInv'
    <3> SUFFICES ASSUME NEW s \in changed'
                 PROVE  /\ s \in Compared => deb'[s] # before'[s]
                        /\ IF mode' = "create" THEN s \in Derived ELSE s \notin given'
      BY <2>1 DEF FlagInv
    <3>1. CASE s = t
      <4>1. LooksChanged(t)
        BY <2>2, <3>1
      <4> QED
        BY <2>1, <2>3, <3>1, <4>1 DEF LooksChanged
    <3>2. CASE s # t
      <4>1. s \in Templates
        BY DEF TypeOK
      <4> QED
        BY <1>0, <2>1, <2>3, <3>2, <4>1 DEF FlagInv, Asking
    <3> QED
      BY <3>1, <3>2
  <2>9. RunInv'
    BY <1>0, <2>1 DEF RunInv
  <2> QED
    BY <2>5, <2>6, <2>7, <2>8, <2>9 DEF PromiseInv
<1>4. ASSUME NEW t \in Derived, SkipDerived(t) PROVE PromiseInv'
  <2> USE <1>0, <1>4 DEF SkipDerived
  <2>1. SettledInv'
    BY DEF SettledInv, Settled, Arrived
  <2>2. KeptInv'
    BY DEF KeptInv
  <2>3. PendingInv'
    BY DEF PendingInv, Asking, Arrived
  <2>4. FlagInv' /\ RunInv'
    BY DEF FlagInv, RunInv, Asking
  <2> QED
    BY <2>1, <2>2, <2>3, <2>4 DEF PromiseInv
<1> QED
  BY <1>1, <1>2, <1>3, <1>4

\* What the promise rests on holds in every state.
LEMMA Promised == Spec => [](Inv /\ PromiseInv)
<1>1. Init => PromiseInv
  BY DEF Init, PromiseInv, SettledInv, KeptInv, PendingInv, FlagInv, RunInv, Asking
<1>2. Inv /\ PromiseInv /\ [Next]_vars => PromiseInv'
  <2> SUFFICES ASSUME Inv, PromiseInv, [Next]_vars PROVE PromiseInv'
    OBVIOUS
  <2>0. TypeOK /\ TypeOK' /\ RunInv
    BY TypeStep DEF Inv, PromiseInv
  <2>i. ASSUME phase' \in {"idle", "configure"}, RunInv' PROVE PromiseInv'
    BY <2>i DEF PromiseInv, SettledInv, KeptInv, PendingInv, FlagInv, Asking
  <2>1. CASE UNCHANGED vars
    BY <2>1 DEF vars, database, memory, ghosts, control, PromiseInv, SettledInv, KeptInv,
       PendingInv, FlagInv, RunInv, Asking, Settled, Arrived
  <2>2. ASSUME NEW t \in Templates, NEW v \in Value, Ansible(t, v) \/ Override(t, v)
        PROVE  PromiseInv'
    BY <2>0, <2>2, <2>i DEF Ansible, Override, control, RunInv
  <2>3. ASSUME NEW m \in {"create", "update"}, Begin(m) PROVE PromiseInv'
    <3>1. RunInv'
      BY <2>3 DEF Begin, RunInv
    <3>2. SettledInv' /\ FlagInv'
      BY <2>3 DEF Begin, SettledInv, FlagInv
    <3>3. KeptInv' /\ PendingInv'
      BY <2>0, <2>3 DEF Begin, KeptInv, PendingInv, database
    <3> QED
      BY <3>1, <3>2, <3>3 DEF PromiseInv
  <2>4. ASSUME NEW t \in Templates, Visits(t) PROVE PromiseInv'
    BY <2>0, <2>4, VisitKeepsPromise
  <2>5. CASE StartDerived \/ StartConfigure
               \/ \E t \in Derived : Derive(t) \/ SkipDerived(t)
    BY <2>0, <2>5, DerivedKeepsPromise
  <2>6. ASSUME NEW p \in Passwords, ClearPassword(p) PROVE PromiseInv'
    BY <2>0, <2>6, <2>i DEF ClearPassword, control, RunInv
  <2>7. ASSUME phase' = "idle", xml' = xml PROVE PromiseInv'
    BY <2>0, <2>7, <2>i DEF RunInv
  <2>8. Finish \/ ExitWithFailureCode \/ Abort => phase' = "idle" /\ xml' = xml
    BY DEF Finish, ExitWithFailureCode, Abort, End
  <2>9. \A t \in Templates : Visit(t) => Visits(t) \/ ExitWithFailureCode
    BY DEF Visit, Visits, CreateUnanswered
  <2> QED
    BY <2>1, <2>2, <2>3, <2>4, <2>5, <2>6, <2>7, <2>8, <2>9
       DEF Next, Between, Dialogue, StageFails
<1> QED
  BY <1>1, <1>2, InvInit, InvStep, PTL DEF Spec

-----------------------------------------------------------------------------
(* The promise.                                                            *)

\* The constants of OsCoreAnswers are those of this module.
LEMMA Same ==
    /\ A!Templates = Templates /\ A!Stored = Stored /\ A!NoAnswer = NoAnswer
    /\ Asking => \A t, v : A!Answer(mode, xml, t, v) <=> Arrived(t, v)
<1>1. A!Templates = Templates /\ A!Stored = Stored
  BY DEF A!Templates, Templates, A!Stored, Stored
<1>2. A!NoAnswer = NoAnswer
  BY <1>1 DEF A!NoAnswer, NoAnswer
<1> QED
  BY <1>1, <1>2 DEF A!Answer, Arrived

\* The dialogue, seen from the outside, is one step when the stages begin.
LEMMA SettleStep ==
    ASSUME Inv, PromiseInv, StartConfigure
    PROVE  A!Settle(mode)
<1> USE DEF database, memory, ghosts
<1>0. /\ phase = "derived" /\ phase' = "configure" /\ Asking /\ ~Asking'
      /\ UNCHANGED <<val, seen, deb, changed, given, before, installed, xml, mode, outcome>>
  BY DEF StartConfigure, Asking
<1>1. /\ TypeOK /\ RunInv /\ FlagInv /\ PendingInv
      /\ \A t \in Templates : Settled(t)
  BY DEF StartConfigure, Inv, PromiseInv, SettledInv
<1>2. deb \in [Templates -> Stored] /\ val = deb
  BY <1>1 DEF TypeOK, Settled
<1>3. \A t \in Templates : A!Answer(mode, xml, t, deb[t])
  BY <1>0, <1>1, Same DEF Settled
<1>4. \E same \in SUBSET {t \in Configured : mode = "update" /\ deb[t] = before[t]} :
         seen = given \union (Templates \ same)
  <2>1. given \subseteq seen /\ seen \subseteq Templates
    BY <1>0, <1>1 DEF PendingInv, TypeOK
  <2>2. Templates \ seen \subseteq {t \in Configured : mode = "update" /\ deb[t] = before[t]}
    BY <1>1 DEF Settled
  <2>3. seen = given \union (Templates \ (Templates \ seen))
    BY <2>1
  <2> QED
    BY <2>2, <2>3
<1> DEFINE new == {t \in Templates : deb[t] # before[t]}
           Odd(t) == /\ t \in Derived
                     /\ IF mode = "create" THEN TRUE
                        ELSE t \notin given /\ (t \notin Compared \/ before[t] = Empty)
           odd == {t \in Derived : Odd(t) /\ (t \in Compared => t \in new)}
           sure == IF mode = "update" THEN {t \in new \ given : ~Odd(t)} ELSE {}
<1>5. \E some \in SUBSET odd : changed = some \union sure
  <2>1. changed \subseteq Templates /\ mode \in {"create", "update"}
    BY <1>1 DEF TypeOK
  <2>2. \A t \in changed : /\ t \in Compared => deb[t] # before[t]
                           /\ IF mode = "create" THEN t \in Derived ELSE t \notin given
    BY <1>0, <1>1 DEF FlagInv
  <2>3. CASE mode = "create"
    BY <2>1, <2>2, <2>3
  <2>4. CASE mode = "update"
    <3>1. \A t \in Templates \ given : ~Odd(t) => (t \in changed <=> t \in new)
      BY <1>0, <2>4 DEF Inv, ChangedInv, ChangedTrue, StartConfigure
    <3>2. \A t \in changed : Odd(t) => t \in odd
      BY <2>1, <2>2
    <3> DEFINE some == {t \in changed : Odd(t)}
    <3>3. some \in SUBSET odd
      BY <3>2
    <3>4. changed = some \union sure
      BY <2>1, <2>2, <2>4, <3>1
    <3> QED
      BY <3>3, <3>4
  <2> QED
    BY <2>1, <2>3, <2>4
<1>6. \A t : A!Unreliable(mode, t) <=> Odd(t)
  BY <1>0 DEF A!Unreliable
<1> QED
  <2>1. {t \in A!Templates : deb'[t] # before[t]} = new
    BY <1>0, Same
  <2> QED
    BY <1>0, <1>1, <1>2, <1>3, <1>4, <1>5, <1>6, <2>1, Same DEF A!Settle, RunInv

\* A dialogue that ends early is one step as well: the answers that are there
\* have their seen flag.
LEMMA CutShortStep ==
    ASSUME Inv, TypeOK', PromiseInv, Asking,
           Abort \/ \E t \in Templates : CreateUnanswered(t)
    PROVE  A!CutShort
<1> USE DEF database, memory, ghosts, control
<1>0. /\ phase' = "idle" /\ ~Asking' /\ phase # "configure"
      /\ UNCHANGED <<installed, mode>>
  BY DEF Asking, Abort, CreateUnanswered, ExitWithFailureCode, End
<1>1. /\ TypeOK /\ RunInv /\ given \subseteq seen /\ Passwords \subseteq Templates
      /\ \A t \in Templates : \/ val[t] = before[t]
                              \/ t \in seen /\ A!Answer(mode, xml, t, val[t])
  BY Same, TemplateKinds DEF Inv, PromiseInv, PendingInv, Templates
<1>2. /\ xml \in XmlVersion /\ mode \in {"create", "update"}
      /\ mode = "update" => installed
  BY <1>0, <1>1 DEF RunInv, TypeOK, Asking
<1>3. val' \in [Templates -> Stored] /\ seen' \subseteq Templates
  BY DEF TypeOK
<1> DEFINE cleared == IF outcome' = "failed" THEN Passwords ELSE {}
<1>4. /\ outcome' \in {"failed", "aborted"}
      /\ \A t \in cleared : val'[t] = Empty /\ t \notin seen'
      /\ \A t \in Templates \ cleared : val'[t] = val[t] /\ (t \in seen' <=> t \in seen)
  <2>1. CASE Abort
    BY <2>1 DEF Abort, End
  <2>2. CASE ExitWithFailureCode
    BY <1>1, <2>2 DEF ExitWithFailureCode, End
  <2> QED
    BY <2>1, <2>2 DEF CreateUnanswered
<1>5. \A t \in Templates \ cleared :
         /\ t \in given => t \in seen'
         /\ \/ val'[t] = before[t]
            \/ t \in seen' /\ A!Answer(mode, xml, t, val'[t])
  BY <1>1, <1>4
<1> QED
  BY <1>0, <1>2, <1>3, <1>4, <1>5, Same DEF A!CutShort

\* Every step of the scripts is one of OsCoreAnswers, or changes nothing of what
\* the stages see.
LEMMA PromiseStep == Inv /\ PromiseInv /\ [Next]_vars => [A!AnswersNext]_(A!answers)
<1> SUFFICES ASSUME Inv, PromiseInv, [Next]_vars PROVE [A!AnswersNext]_(A!answers)
  OBVIOUS
<1>0. TypeOK /\ TypeOK' /\ Passwords \subseteq Templates
  BY TypeStep, TemplateKinds DEF Inv, Templates
<1> USE DEF Asking, control, memory, ghosts, database
<1>1. ASSUME NEW t \in Templates, NEW v \in Value, Ansible(t, v) PROVE A!AnswersNext
  <2>1. A!Provide(t, v)
    BY <1>1 DEF Ansible, A!Provide
  <2> QED
    BY <2>1, Same DEF A!AnswersNext
<1>2. ASSUME NEW t \in Templates, NEW v \in Value, Override(t, v) PROVE A!AnswersNext
  <2>1. A!Change(t, v)
    BY <1>2 DEF Override, A!Change
  <2> QED
    BY <2>1, Same DEF A!AnswersNext
<1>3. ASSUME NEW m \in {"create", "update"}, Begin(m) PROVE UNCHANGED A!answers
  BY <1>3 DEF Begin, A!answers
<1>4. ASSUME NEW t \in Templates, Visits(t) PROVE UNCHANGED A!answers
  <2>1. Frame(t) /\ UNCHANGED <<xml, installed, outcome>>
    BY <1>0, <1>4, VisitFrame, PromiseEffects
  <2> QED
    BY <2>1 DEF Frame, A!answers
<1>5. ASSUME NEW t \in Derived, Derive(t) \/ SkipDerived(t) PROVE UNCHANGED A!answers
  BY <1>5 DEF Derive, SkipDerived, A!answers
<1>6. CASE StartDerived
  BY <1>6 DEF StartDerived, A!answers
<1>7. CASE StartConfigure
  BY <1>0, <1>7, SettleStep DEF A!AnswersNext, TypeOK
<1>8. ASSUME NEW p \in Passwords, ClearPassword(p) PROVE A!AnswersNext
  <2>1. A!Clear(p)
    BY <1>8 DEF ClearPassword, A!Clear
  <2> QED
    BY <2>1 DEF A!AnswersNext
<1>9. CASE Finish
  <2>1. /\ phase = "configure" /\ todo = {} /\ phase' = "idle" /\ outcome' = "ok"
        /\ installed' = TRUE /\ val' = val
        /\ seen' = {t \in seen : flag[t] = "true" => t = FirstCN}
    BY <1>9 DEF Finish, End
  <2>2. A!Over("ok")
    BY <2>1, Same DEF A!Over
  <2>3. \A p \in Passwords : val[p] = Empty /\ p \notin seen
    BY <2>1 DEF Inv, WipedInv
  <2>4. mode = "update" => seen' \subseteq {FirstCN}
    BY <2>1 DEF Inv, SeenInv
  <2>5. A!Complete
    BY <2>1, <2>2, <2>3, <2>4 DEF A!Complete
  <2> QED
    BY <2>5 DEF A!AnswersNext
<1>10. CASE StageFails
  <2>1. A!Over("failed")
    BY <1>10, Same DEF StageFails, ExitWithFailureCode, End, A!Over
  <2>2. A!Fail
    BY <1>10, <2>1, Same DEF StageFails, ExitWithFailureCode, End, A!Fail
  <2> QED
    BY <2>2 DEF A!AnswersNext
<1>11. ASSUME NEW t \in Templates, CreateUnanswered(t) PROVE A!AnswersNext
  <2>1. Asking
    BY <1>11 DEF CreateUnanswered, Visiting
  <2> QED
    BY <1>0, <1>11, <2>1, CutShortStep DEF A!AnswersNext
<1>12. CASE Abort
  <2>1. CASE Asking
    BY <1>0, <1>12, <2>1, CutShortStep DEF A!AnswersNext
  <2>2. CASE ~Asking
    <3>1. A!Over("aborted")
      BY <1>0, <1>12, <2>2, Same DEF Abort, End, A!Over, TypeOK
    <3>2. A!Die
      BY <1>12, <2>2, <3>1 DEF Abort, End, A!Die
    <3> QED
      BY <3>2 DEF A!AnswersNext
  <2> QED
    BY <2>1, <2>2
<1>13. CASE UNCHANGED vars
  BY <1>13 DEF vars, A!answers
<1> HIDE DEF Asking, control, memory, ghosts, database
<1> QED
  BY <1>1, <1>2, <1>3, <1>4, <1>5, <1>6, <1>7, <1>8, <1>9, <1>10, <1>11, <1>12, <1>13
     DEF Next, Between, Dialogue, Visit, Visits

\* The scripts keep the promise the stages rely on: a run that visits the
\* questions in any order, with any prompts shown, and is cut short anywhere,
\* gives answers as OsCoreAnswers does in a single step.
THEOREM Implements == Spec => Promise
<1>1. Init => A!AnswersInit
  BY Same DEF Init, A!AnswersInit, Asking
<1> QED
  BY <1>1, Promised, PromiseStep, PTL DEF Spec, Promise, A!AnswersSpec

=============================================================================
