-------------------------- MODULE MC_ContainerCache --------------------------
(* ContainerCache for TLC.                                                 *)
EXTENDS ContainerCache, TLC

====
