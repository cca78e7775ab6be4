----------------------------- MODULE MCPackages -----------------------------
(* Two lists: the one all packages have at first and another.               *)
EXTENDS Packages

=============================================================================
