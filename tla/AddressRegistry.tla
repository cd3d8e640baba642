--------------------------- MODULE AddressRegistry ---------------------------
(***************************************************************************)
(* What the cluster promises about the engine addresses of discovery, seen *)
(* from outside: an address is absent, pending or installed.  Only an      *)
(* address that discovery lists enters, it is installed once it has been   *)
(* validated, and it leaves only when discovery no longer lists it.        *)
(***************************************************************************)
CONSTANT Addrs

VARIABLES
  wanted,   \* the addresses in the last answer of discovery
  status    \* where each address is

Discover ==
  /\ wanted' \in SUBSET Addrs
  /\ UNCHANGED status

Add(a) ==
  /\ a \in wanted
  /\ status[a] = "absent"
  /\ status' = [status EXCEPT ![a] = "pending"]
  /\ UNCHANGED wanted

Install(a) ==
  /\ status[a] = "pending"
  /\ status' = [status EXCEPT ![a] = "installed"]
  /\ UNCHANGED wanted

Remove(a) ==
  /\ a \notin wanted
  /\ status[a] # "absent"
  /\ status' = [status EXCEPT ![a] = "absent"]
  /\ UNCHANGED wanted

Init ==
  /\ wanted = {}
  /\ status = [a \in Addrs |-> "absent"]

Next == Discover \/ \E a \in Addrs : Add(a) \/ Install(a) \/ Remove(a)

Spec == Init /\ [][Next]_<<wanted, status>>
====
