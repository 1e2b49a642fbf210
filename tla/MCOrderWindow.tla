--------------------------- MODULE MCOrderWindow ---------------------------
(* OrderWindow for TLC: the tasks are interchangeable. *)
EXTENDS OrderWindow, TLC

TaskSymmetry == Permutations(Tasks)
=============================================================================
