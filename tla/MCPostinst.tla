----------------------------- MODULE MCPostinst -----------------------------
(***************************************************************************)
(* Small instances of OsCorePostinst.  v1 and v2 are two answers to every  *)
(* question a configuration lists in Varied, and v1 the only one to the    *)
(* others; as a cn.iplist, v1 is this node and a second one, v2 this node  *)
(* and a third.                                                            *)
(***************************************************************************)
EXTENDS OsCorePostinst

CONSTANTS v1, v2, a1, a2, self, Varied, Silent

MCAnswers == [t \in Templates |->
    IF t \in Silent THEN {} ELSE IF t \in Varied THEN {v1, v2} ELSE {v1}]

\* "false" for cn.openldap.synchronized and cn.openldap.firstcn.
MCDefault == [t \in Templates |-> IF t \in {Synchronized, FirstCN} THEN v2 ELSE Empty]

MCXmlVersion ==
    {x \in [Configured \union Derived -> {v1, v2}] :
        \A t \in Configured \union Derived : t \notin Varied => x[t] = v1}

MCHosts == [v \in {v1, v2} |-> IF v = v1 THEN {self, a1} ELSE {self, a2}]

=============================================================================
