--------------------------- MODULE MCTogglePorts ---------------------------
(* Up to three nodes: the script's own and the ones it opens or closes ports *)
(* for.  The constants are in the configurations.                            *)
EXTENDS TogglePorts

=============================================================================
