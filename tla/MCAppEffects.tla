---------------------------- MODULE MCAppEffects -----------------------------
(* AppEffects for TLC; the configurations give its constants values.         *)
EXTENDS AppEffects, TLC

\* Entities, observers and windows are interchangeable.
Symmetry ==
  Permutations(Entities) \cup Permutations(Observers) \cup Permutations(Windows)
=============================================================================
