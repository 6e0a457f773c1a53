------------------------- MODULE MCConflictRecovery -------------------------
(* One pull request whose base moves, with crashes and failing commands.   *)
EXTENDS ConflictRecovery
=============================================================================
