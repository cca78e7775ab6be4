----------------------- MODULE OsCoreDebconfAnswers ------------------------
(***************************************************************************)
(* OsCoreDebconf implements OsCoreAnswers.  Until the stages begin, the    *)
(* questions count as they were when the run began, and the arrays as not  *)
(* yet filled.                                                             *)
(***************************************************************************)
EXTENDS OsCoreDebconf

Asking == phase \in {"questions", "derived"}

A == INSTANCE OsCoreAnswers WITH
        val     <- IF Asking THEN before ELSE val,
        seen    <- IF Asking THEN given ELSE seen,
        phase   <- IF Asking THEN "idle" ELSE phase,
        mode    <- IF phase = "configure" THEN mode ELSE "none",
        deb     <- IF phase = "configure" THEN deb ELSE NoAnswer,
        changed <- IF phase = "configure" THEN changed ELSE {}

\* The scripts' dialogue with debconf keeps the promise the stages rely on:
\* whatever the order of the visits, the prompts shown and the point where a
\* run is cut short, its answers come about as one Settle step.
Promise == A!AnswersSpec

=============================================================================
