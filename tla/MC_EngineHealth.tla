-------------------------- MODULE MC_EngineHealth --------------------------
(* Instances of EngineHealth for TLC: the constants are set in the .cfg    *)
(* files.                                                                  *)
EXTENDS EngineHealth
====
