----------------------------- MODULE MCEntityMap -----------------------------
(* The main thread and a background one, sharing a few handles.            *)
EXTENDS EntityMap, TLC

HandleSymmetry == Permutations(Handles)
=============================================================================
