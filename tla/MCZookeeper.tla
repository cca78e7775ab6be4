---------------------------- MODULE MCZookeeper ----------------------------
(* Three nodes a, b and c, a fourth d whose address is part of c's (as       *)
(* 10.0.0.1 is of 10.0.0.12), and a list that is too short.  The machine is b *)
(* or d, has both of its addresses in the list, or one that is part of       *)
(* another.                                                                   *)
EXTENDS Zookeeper

CONSTANTS a, b, c, d

MCLists == {<<a, b, c>>, <<b, a, c>>, <<a, d, c>>, <<a, c>>, <<a, c, d, b>>}
MCOwns  == {<<b>>, <<d>>, <<b, d>>}
MCPart  == {<<x, x>> : x \in {a, b, c, d}} \union {<<d, c>>}

=============================================================================
