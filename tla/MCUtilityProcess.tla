-------------------------- MODULE MCUtilityProcess --------------------------
(***************************************************************************)
(* UtilityProcess with two connections, one whose request is drained and   *)
(* one that is late, and two commands: the second could only be in use     *)
(* with the first if Runner lost track of that one.  One connection calls  *)
(* vmrest; calls of a second one would only queue behind it in Active.     *)
(***************************************************************************)
EXTENDS UtilityProcess
=============================================================================
