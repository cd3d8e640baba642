---------------------------- MODULE MC_Watchdog ----------------------------
\* Watchdog for TLC: two engines and a container; the engines are alike.
EXTENDS Watchdog, TLC

Symmetry == Permutations(Engines)
=============================================================================
