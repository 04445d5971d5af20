-------------------------- MODULE MCSingleInstance --------------------------
(***************************************************************************)
(* A small instance of SingleInstance.                                     *)
(***************************************************************************)
EXTENDS SingleInstance, TLC

CONSTANTS p1, p2, p3

ProcessSymmetry == Permutations(Processes)
=============================================================================
