---------------------------- MODULE MCCollection ----------------------------
(***************************************************************************)
(* The processes of Collection can be told apart only by their commands.   *)
(***************************************************************************)
EXTENDS Collection, TLC

\* Processes differ by their commands, which Init chooses freely.
Symmetric == Permutations(Procs)
=============================================================================
