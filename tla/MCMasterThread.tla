---------------------------- MODULE MCMasterThread ----------------------------
(***************************************************************************)
(* Instances of MasterThread for TLC.                                      *)
(***************************************************************************)
EXTENDS MasterThread, TLC

(* The timers differ only in their names. *)
TimerSymmetry == Permutations(Timers)
===============================================================================
