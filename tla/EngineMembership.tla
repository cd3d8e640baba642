-------------------------- MODULE EngineMembership --------------------------
(***************************************************************************)
(* The two engine tables of the cluster (cluster/swarm/cluster.go) and the *)
(* goroutines that change them: monitorDiscovery, which follows the        *)
(* discovery backend, one validatePendingEngine per attempt to connect,    *)
(* and monitorPendingEngines, which starts further attempts.  An address   *)
(* that leaves discovery and comes back is a new Engine object, while      *)
(* goroutines of the old one may still be running.                         *)
(***************************************************************************)
EXTENDS Naturals, FiniteSets

CONSTANTS
  Addrs,        \* addresses that discovery may list
  Hosts,        \* daemon IDs that the host of an address may answer with
  Objs,         \* Engine objects; bound: each is allocated once
  Validators,   \* bound: goroutines of validatePendingEngine at one time
  None          \* no object, address or ID

ASSUME NoneAssumption == None \notin Addrs \cup Hosts \cup Objs

VARIABLES
  \* The environment.
  host,             \* host[a]: the daemon ID behind an address
  \* The cluster.
  pendingEngines,   \* address -> object
  engines,          \* Engine.ID -> object
  \* monitorDiscovery.
  currentEntries,
  removed, added,   \* what is left to do of the last Diff
  dstep,            \* where the goroutine is
  at, found,        \* the address in hand, and its engine
  \* Engine objects.
  addr, id,         \* e.Addr; e.ID without the address
  state,            \* e.state; unhealthy is not told from healthy
  nop,              \* e.apiClient is the no-op client
  monitored,        \* e.eventsMonitor is not nil
  stopped,          \* e.stopCh is closed
  loop,             \* the engine's refreshLoop
  \* validatePendingEngine and monitorPendingEngines.
  pc, eng,          \* step and engine of each validator
  pEngines,         \* monitorPendingEngines: engines not yet looked at
  crashed           \* the process has ended with a panic

objVars == <<addr, id, state, nop, monitored, stopped, loop>>
discVars == <<currentEntries, removed, added, dstep, at, found>>
vars == <<host, pendingEngines, engines, discVars, objVars, pc, eng, pEngines,
          crashed>>

IDs == Hosts \X Addrs
ID(e) == <<id[e], addr[e]>>

TypeOK ==
  /\ host \in [Addrs -> Hosts]
  /\ pendingEngines \in [Addrs -> Objs \cup {None}]
  /\ engines \in [IDs -> Objs \cup {None}]
  /\ currentEntries \subseteq Addrs
  /\ removed \subseteq Addrs /\ added \subseteq Addrs
  /\ dstep \in {"loop", "disconnect", "delete", "insert"}
  /\ at \in Addrs \cup {None}
  /\ found \in Objs \cup {None}
  /\ addr \in [Objs -> Addrs \cup {None}]
  /\ id \in [Objs -> Hosts \cup {None}]
  /\ state \in [Objs -> {"pending", "healthy", "disconnected"}]
  /\ nop \in [Objs -> BOOLEAN]
  /\ monitored \in [Objs -> BOOLEAN]
  /\ stopped \in [Objs -> BOOLEAN]
  /\ loop \in [Objs -> {"off", "wait", "specs"}]
  /\ pc \in [Validators -> {"free", "resolve", "info", "specs", "list", "commit"}]
  /\ eng \in [Validators -> Objs \cup {None}]
  /\ pEngines \subseteq Objs
  /\ crashed \in BOOLEAN

Init ==
  /\ host \in [Addrs -> Hosts]
  /\ pendingEngines = [a \in Addrs |-> None]
  /\ engines = [k \in IDs |-> None]
  /\ currentEntries = {} /\ removed = {} /\ added = {}
  /\ dstep = "loop" /\ at = None /\ found = None
  /\ addr = [e \in Objs |-> None]
  /\ id = [e \in Objs |-> None]
  /\ state = [e \in Objs |-> "pending"]
  /\ nop = [e \in Objs |-> TRUE]
  /\ monitored = [e \in Objs |-> FALSE]
  /\ stopped = [e \in Objs |-> FALSE]
  /\ loop = [e \in Objs |-> "off"]
  /\ pc = [v \in Validators |-> "free"]
  /\ eng = [v \in Validators |-> None]
  /\ pEngines = {}
  /\ crashed = FALSE

-----------------------------------------------------------------------------
(* The engines at an address: a pending one hides the others.              *)
getEngineByAddr(a) ==
  IF pendingEngines[a] # None
  THEN {pendingEngines[a]}
  ELSE {e \in Objs : addr[e] = a /\ \E k \in IDs : engines[k] = e}

(* Engine.Disconnect: nothing the second time; closing stopCh again and    *)
(* stopping the events monitor of an engine that never got as far as       *)
(* ConnectWithClient are panics.                                           *)
Disconnect(e) ==
  IF state[e] = "disconnected"
  THEN UNCHANGED <<objVars, crashed>>
  ELSE IF stopped[e] \/ ~monitored[e]
  THEN crashed' = TRUE /\ UNCHANGED objVars
  ELSE /\ stopped' = [stopped EXCEPT ![e] = TRUE]
       /\ nop' = [nop EXCEPT ![e] = TRUE]
       /\ state' = [state EXCEPT ![e] = "disconnected"]
       /\ UNCHANGED <<addr, id, monitored, loop, crashed>>

-----------------------------------------------------------------------------
(* monitorDiscovery.                                                       *)

(* A new list of entries is received: all removals, then all additions.    *)
(* The bound on Objs is kept here, so that every addition finds an object. *)
Fresh == {e \in Objs : addr[e] = None}

Receive ==
  /\ dstep = "loop" /\ removed = {} /\ added = {}
  /\ \E entries \in SUBSET Addrs :
       /\ Cardinality(entries \ currentEntries) <= Cardinality(Fresh)
       /\ currentEntries' = entries
       /\ removed' = currentEntries \ entries
       /\ added' = entries \ currentEntries
  /\ UNCHANGED <<host, pendingEngines, engines, dstep, at, found, objVars, pc,
                 eng, pEngines, crashed>>

(* removeEngine: the lookup under the read lock...                         *)
FindRemoved(a) ==
  /\ dstep = "loop"
  /\ a \in removed
  /\ removed' = removed \ {a}
  /\ IF getEngineByAddr(a) = {}
     THEN UNCHANGED <<dstep, at, found>>
     ELSE /\ dstep' = "disconnect"
          /\ at' = a
          /\ found' \in getEngineByAddr(a)
  /\ UNCHANGED <<host, pendingEngines, engines, currentEntries, added, objVars,
                 pc, eng, pEngines, crashed>>

(* ... Disconnect...                                                       *)
DisconnectRemoved ==
  /\ dstep = "disconnect"
  /\ dstep' = "delete"
  /\ Disconnect(found)
  /\ UNCHANGED <<host, pendingEngines, engines, currentEntries, removed, added,
                 at, found, pc, eng, pEngines>>

(* ... and the deletion under the lock.                                    *)
DeleteRemoved ==
  /\ dstep = "delete"
  /\ dstep' = "loop" /\ at' = None /\ found' = None
  /\ IF pendingEngines[at] # None
     THEN /\ pendingEngines' = [pendingEngines EXCEPT ![at] = None]
          /\ UNCHANGED engines
     ELSE /\ engines' = [k \in IDs |-> IF k = ID(found) THEN None ELSE engines[k]]
          /\ UNCHANGED pendingEngines
  /\ UNCHANGED <<host, currentEntries, removed, added, objVars, pc, eng,
                 pEngines, crashed>>

(* addEngine: the check under the read lock and NewEngine...               *)
CheckAdded(a) ==
  /\ dstep = "loop" /\ removed = {}
  /\ a \in added
  /\ added' = added \ {a}
  /\ IF getEngineByAddr(a) # {}
     THEN UNCHANGED <<dstep, at, found, addr>>
     ELSE \E e \in Fresh :
            /\ addr' = [addr EXCEPT ![e] = a]
            /\ dstep' = "insert" /\ at' = a /\ found' = e
  /\ UNCHANGED <<host, pendingEngines, engines, currentEntries, removed, id,
                 state, nop, monitored, stopped, loop, pc, eng, pEngines, crashed>>

(* ... the insertion under the lock, and the first attempt to connect.     *)
InsertAdded(v) ==
  /\ dstep = "insert"
  /\ pc[v] = "free"
  /\ dstep' = "loop" /\ at' = None /\ found' = None
  /\ pendingEngines' = [pendingEngines EXCEPT ![at] = found]
  /\ pc' = [pc EXCEPT ![v] = "resolve"]
  /\ eng' = [eng EXCEPT ![v] = found]
  /\ UNCHANGED <<host, engines, currentEntries, removed, added, objVars,
                 pEngines, crashed>>

monitorDiscovery ==
  \/ Receive
  \/ \E a \in Addrs : FindRemoved(a) \/ CheckAdded(a)
  \/ DisconnectRemoved
  \/ DeleteRemoved
  \/ \E v \in Validators : InsertAdded(v)

-----------------------------------------------------------------------------
(* validatePendingEngine.                                                  *)

GiveUp(v) ==
  /\ pc' = [pc EXCEPT ![v] = "free"]
  /\ eng' = [eng EXCEPT ![v] = None]

GoTo(v, s) == pc' = [pc EXCEPT ![v] = s] /\ UNCHANGED eng

(* Connect gives up: the address does not resolve, or a request fails (at  *)
(* once when the client is the no-op client).                              *)
ConnectFails(v) ==
  /\ pc[v] \in {"resolve", "info", "list"}
  /\ GiveUp(v)
  /\ UNCHANGED <<host, pendingEngines, engines, discVars, objVars, pEngines,
                 crashed>>

(* ConnectWithClient: the client and the events monitor are installed.     *)
Resolve(v) ==
  /\ pc[v] = "resolve"
  /\ GoTo(v, "info")
  /\ nop' = [nop EXCEPT ![eng[v]] = FALSE]
  /\ monitored' = [monitored EXCEPT ![eng[v]] = TRUE]
  /\ UNCHANGED <<host, pendingEngines, engines, discVars, addr, id, state,
                 stopped, loop, pEngines, crashed>>

(* The requests of updateSpecs are answered.                               *)
Info(v) ==
  /\ pc[v] = "info"
  /\ ~nop[eng[v]]
  /\ GoTo(v, "specs")
  /\ UNCHANGED <<host, pendingEngines, engines, discVars, objVars, pEngines,
                 crashed>>

(* The locked tail of updateSpecs: the first answer gives the engine its   *)
(* ID, another one later sends it back to pending.                         *)
Matches(e) == id[e] \in {None, host[addr[e]]}

updateSpecs(e) ==
  /\ id' = [id EXCEPT ![e] = IF @ = None THEN host[addr[e]] ELSE @]
  /\ state' = [state EXCEPT ![e] = IF Matches(e) THEN @ ELSE "pending"]
  /\ UNCHANGED <<addr, nop, monitored, stopped>>

(* A validator also gives up on an invalid label.                          *)
Specs(v) ==
  /\ pc[v] = "specs"
  /\ updateSpecs(eng[v])
  /\ \/ Matches(eng[v]) /\ GoTo(v, "list")
     \/ GiveUp(v)
  /\ UNCHANGED <<host, pendingEngines, engines, discVars, loop, pEngines,
                 crashed>>

(* Containers and images are listed; the errors of the requests that       *)
(* follow are not looked at.                                               *)
List(v) ==
  /\ pc[v] = "list"
  /\ ~nop[eng[v]]
  /\ GoTo(v, "commit")
  /\ UNCHANGED <<host, pendingEngines, engines, discVars, objVars, pEngines,
                 crashed>>

(* Engine.ValidationComplete: nothing unless pending.                      *)
ValidationComplete(e) ==
  /\ IF state[e] = "pending"
     THEN /\ state' = [state EXCEPT ![e] = "healthy"]
          /\ loop' = [loop EXCEPT ![e] = "wait"]
     ELSE UNCHANGED <<state, loop>>
  /\ UNCHANGED <<addr, id, nop, monitored, stopped, crashed>>

(* Mutants of Commit: the engine stays in pendingEngines; an engine that   *)
(* is no longer pending is left out after the address was taken off; the   *)
(* engine is installed without asking whether the address is pending.      *)
Commit_KeepPending(v) ==
  LET e == eng[v] IN
  /\ pc[v] = "commit"
  /\ GiveUp(v)
  /\ IF pendingEngines[addr[e]] = None \/ engines[ID(e)] # None
     THEN UNCHANGED <<engines, objVars, crashed>>
     ELSE /\ ValidationComplete(e)
          /\ engines' = [engines EXCEPT ![ID(e)] = e]
  /\ UNCHANGED <<host, pendingEngines, discVars, pEngines>>

Commit_DropStale(v) ==
  LET e == eng[v] IN
  /\ pc[v] = "commit"
  /\ GiveUp(v)
  /\ IF pendingEngines[addr[e]] = None
     THEN UNCHANGED <<pendingEngines, engines, objVars, crashed>>
     ELSE /\ pendingEngines' = [pendingEngines EXCEPT ![addr[e]] = None]
          /\ ValidationComplete(e)
          /\ engines' = IF state[e] = "pending"
                        THEN [engines EXCEPT ![ID(e)] = e] ELSE engines
  /\ UNCHANGED <<host, discVars, pEngines>>

Commit_Unchecked(v) ==
  LET e == eng[v] IN
  /\ pc[v] = "commit"
  /\ GiveUp(v)
  /\ IF engines[ID(e)] # None
     THEN UNCHANGED <<pendingEngines, engines, objVars, crashed>>
     ELSE /\ pendingEngines' = [pendingEngines EXCEPT ![addr[e]] = None]
          /\ ValidationComplete(e)
          /\ engines' = [engines EXCEPT ![ID(e)] = e]
  /\ UNCHANGED <<host, discVars, pEngines>>

(* The critical section that ends a validation.  It asks whether the       *)
(* address is pending, not whether the engine is.                          *)
Commit(v) ==
  LET e == eng[v] IN
  /\ pc[v] = "commit"
  /\ GiveUp(v)
  /\ IF pendingEngines[addr[e]] = None
     THEN UNCHANGED <<pendingEngines, engines, objVars, crashed>>
     ELSE IF engines[ID(e)] # None
     THEN IF addr[engines[ID(e)]] # addr[e]
          THEN UNCHANGED <<pendingEngines, engines, objVars, crashed>>
          ELSE /\ Disconnect(e)
               /\ pendingEngines' = [pendingEngines EXCEPT ![addr[e]] = None]
               /\ UNCHANGED engines
     ELSE /\ pendingEngines' = [pendingEngines EXCEPT ![addr[e]] = None]
          /\ ValidationComplete(e)
          /\ engines' = [engines EXCEPT ![ID(e)] = e]
  /\ UNCHANGED <<host, discVars, pEngines>>

validatePendingEngine(v) ==
  ConnectFails(v) \/ Resolve(v) \/ Info(v) \/ Specs(v) \/ List(v) \/ Commit(v)

-----------------------------------------------------------------------------
(* Mutant of ListPending: the wrong table is copied.                       *)
ListPending_Engines ==
  /\ pEngines = {}
  /\ pEngines' = {engines[k] : k \in IDs} \ {None}
  /\ UNCHANGED <<host, pendingEngines, engines, discVars, objVars, pc, eng,
                 crashed>>

(* monitorPendingEngines: a copy of the table is walked without the lock.  *)
ListPending ==
  /\ pEngines = {}
  /\ pEngines' = {pendingEngines[a] : a \in Addrs} \ {None}
  /\ UNCHANGED <<host, pendingEngines, engines, discVars, objVars, pc, eng,
                 crashed>>

(* TimeToValidate says yes: a pending engine whose back-off has passed.    *)
Revalidate(e, v) ==
  /\ e \in pEngines
  /\ state[e] = "pending"
  /\ pc[v] = "free"
  /\ pEngines' = pEngines \ {e}
  /\ pc' = [pc EXCEPT ![v] = "resolve"]
  /\ eng' = [eng EXCEPT ![v] = e]
  /\ UNCHANGED <<host, pendingEngines, engines, discVars, objVars, crashed>>

(* It says no.                                                             *)
NotTime(e) ==
  /\ e \in pEngines
  /\ pEngines' = pEngines \ {e}
  /\ UNCHANGED <<host, pendingEngines, engines, discVars, objVars, pc, eng,
                 crashed>>

monitorPendingEngines ==
  \/ ListPending
  \/ \E e \in Objs : NotTime(e) \/ \E v \in Validators : Revalidate(e, v)

-----------------------------------------------------------------------------
(* refreshLoop of a validated engine: only its updateSpecs matters here.   *)
LoopInfo(e) ==
  /\ loop[e] = "wait"
  /\ ~nop[e]
  /\ loop' = [loop EXCEPT ![e] = "specs"]
  /\ UNCHANGED <<host, pendingEngines, engines, discVars, addr, id, state, nop,
                 monitored, stopped, pc, eng, pEngines, crashed>>

LoopSpecs(e) ==
  /\ loop[e] = "specs"
  /\ updateSpecs(e)
  /\ loop' = [loop EXCEPT ![e] = "wait"]
  /\ UNCHANGED <<host, pendingEngines, engines, discVars, pc, eng, pEngines,
                 crashed>>

LoopStops(e) ==
  /\ loop[e] = "wait"
  /\ stopped[e]
  /\ loop' = [loop EXCEPT ![e] = "off"]
  /\ UNCHANGED <<host, pendingEngines, engines, discVars, addr, id, state, nop,
                 monitored, stopped, pc, eng, pEngines, crashed>>

refreshLoop(e) == LoopInfo(e) \/ LoopSpecs(e) \/ LoopStops(e)

(* The daemon behind an address is replaced by another one.                *)
ReplaceHost(a) ==
  /\ \E h \in Hosts \ {host[a]} : host' = [host EXCEPT ![a] = h]
  /\ UNCHANGED <<pendingEngines, engines, discVars, objVars, pc, eng, pEngines,
                 crashed>>

Next ==
  /\ ~crashed
  /\ \/ monitorDiscovery
     \/ \E v \in Validators : validatePendingEngine(v)
     \/ monitorPendingEngines
     \/ \E e \in Objs : refreshLoop(e)
     \/ \E a \in Addrs : ReplaceHost(a)

Spec == Init /\ [][Next]_vars

(* Goroutines run on.  InsertAdded and Revalidate wait for one of the      *)
(* bounded Validators, where the code starts a goroutine whenever it wants *)
(* one: hence the strong fairness.                                         *)
Fairness ==
  /\ WF_vars(~crashed /\ \/ \E a \in Addrs : FindRemoved(a) \/ CheckAdded(a)
                         \/ DisconnectRemoved
                         \/ DeleteRemoved)
  /\ SF_vars(~crashed /\ \E v \in Validators : InsertAdded(v))
  /\ \A v \in Validators : WF_vars(~crashed /\ validatePendingEngine(v))
  /\ WF_vars(~crashed /\ monitorPendingEngines)
  /\ SF_vars(~crashed /\ \E e \in Objs, v \in Validators : Revalidate(e, v))

FairSpec == Spec /\ Fairness

-----------------------------------------------------------------------------
Registered(a) == \E h \in Hosts : engines[<<h, a>>] # None

(* An address is in one table at most, and at most once in engines: what   *)
(* makes both branches of validatePendingEngine that deal with a duplicate *)
(* ID dead code.                                                           *)
AddrOnce ==
  \A a \in Addrs :
    /\ pendingEngines[a] # None => ~Registered(a)
    /\ \A h1, h2 \in Hosts :
         engines[<<h1, a>>] # None /\ engines[<<h2, a>>] # None => h1 = h2

(* Between two answers of discovery no listed address is missing from the  *)
(* tables, whatever the validators did.                                    *)
ListedIsKnown ==
  dstep = "loop" /\ removed = {} /\ added = {} =>
    \A a \in currentEntries : pendingEngines[a] # None \/ Registered(a)

(* The tables implement the registry of addresses.                         *)
status ==
  [a \in Addrs |-> IF pendingEngines[a] # None THEN "pending"
                   ELSE IF Registered(a) THEN "installed" ELSE "absent"]

Registry == INSTANCE AddressRegistry WITH wanted <- currentEntries

RegistrySpec == Registry!Spec

(* A step in which the environment does an engine no harm: the address     *)
(* resolves, the daemon answers, its labels are valid, back-offs pass.     *)
Benign ==
  /\ \A v \in Validators :
       pc'[v] = "free" /\ pc[v] \notin {"free", "commit"} =>
         pc[v] # "resolve" /\ nop[eng[v]]
  /\ \A e \in pEngines \ pEngines' :
       state[e] = "pending" => \E v \in Validators : eng'[v] = e

(* Once the daemons answer, each with the ID it was known by, an address   *)
(* that discovery goes on listing is in the end in engines, however often  *)
(* its validation failed before, unless the process ended.                 *)
ListedIsInstalled ==
  <>[][Benign]_vars /\ <>[](\A e \in Objs : addr[e] # None => Matches(e)) =>
    \A a \in Addrs :
      a \in currentEntries ~> Registered(a) \/ a \notin currentEntries \/ crashed
=============================================================================
