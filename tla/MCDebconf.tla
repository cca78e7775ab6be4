----------------------------- MODULE MCDebconf -----------------------------
(***************************************************************************)
(* A small instance of OsCoreDebconf: one question of each kind, and two   *)
(* versions of d1DebConfig.xml that know this machine and one that does    *)
(* not, whose answers are all empty.                                       *)
(***************************************************************************)
EXTENDS OsCoreDebconfAnswers

CONSTANTS v1, v2

\* cn.openldap.firstcn has one answer here: its value is never looked at.
MCAnswers == [t \in Templates |-> IF t = FirstCN THEN {v1} ELSE {v1, v2}]

\* The templates file has a default for cn.openldap.firstcn and for some of the
\* configured questions.
MCDefault == [t \in Templates |-> IF t \in Configured \union {FirstCN} THEN v1 ELSE Empty]

MCXmlVersion ==
    {[t \in Configured \union Derived |-> v] : v \in {v1, v2, Empty}}

MCCustom == {[t \in Configured \union Derived |-> Empty]}

=============================================================================
