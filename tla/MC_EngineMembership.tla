------------------------ MODULE MC_EngineMembership ------------------------
(* EngineMembership for TLC.                                               *)
EXTENDS EngineMembership, TLC

Symmetry == Permutations(Objs) \cup Permutations(Validators)
====
