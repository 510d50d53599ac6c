--------------------------- MODULE VmrestCommands ---------------------------
(* The exec.Cmd values that may be in use at a time, and the nil pointer. *)
CONSTANTS Commands, Nil

ASSUME CommandsAssumption == Nil \notin Commands
=============================================================================
