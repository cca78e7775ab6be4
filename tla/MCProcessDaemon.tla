-------------------------- MODULE MCProcessDaemon --------------------------
(* dpkg and another shell, or dpkg and two; daemons enough for an orphan, a  *)
(* second one beside it and the pid a stop waits for.                        *)
EXTENDS ProcessDaemon

=============================================================================
