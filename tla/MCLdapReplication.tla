------------------------ MODULE MCLdapReplication ------------------------
(* Two nodes, one of them the first of the environment.                     *)
EXTENDS LdapReplication

CONSTANTS a, b

Pair == <<a, b>>
FirstNode == {a}
SomeUnstable == {b}

=============================================================================
