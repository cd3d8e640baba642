--------------------------- MODULE MC_Replication ---------------------------
(* Two managers, one of which may crash, and a request.                     *)
EXTENDS Replication
=============================================================================
