------------------------------ MODULE Watchdog ------------------------------
(***************************************************************************)
(* The watchdog of the leading manager (cluster/watchdog.go): it creates   *)
(* the containers of a failed engine again on other engines, and when the  *)
(* engine comes back it removes the copies that are there twice.  Every    *)
(* event of an engine starts a goroutine; these take one lock, in any      *)
(* order, while the refresh loops of the engines write the caches.         *)
(*                                                                         *)
(* A container is named by its Swarm ID, which its copies have in common,  *)
(* and a copy by that and its engine.  All have a name and the policy      *)
(* on-node-failure; network endpoints and the start of the new container   *)
(* decide nothing here and are left out.                                   *)
(***************************************************************************)
EXTENDS FiniteSets, Naturals

CONSTANTS Engines, Containers, None

VARIABLES
  reachable,  \* the engines whose daemon can be reached
  healthy,    \* the engines that the manager takes for healthy
  daemon,     \* the containers that exist on an engine, also when it is down
  cache,      \* Engine.containers
  view,       \* what the refresh loop of an engine has read
  pc,         \* the goroutines of Handle
  todo,       \* the containers they have still to look at
  cur,        \* the one they are at
  lock,       \* the goroutine that holds the watchdog's lock
  stale,      \* history: containers that a refresh brought to the cache
              \* late: taken out or removed meanwhile, or of a lost engine;
              \* and containers whose removal was not confirmed
  failed      \* history: containers whose creation failed

engines == <<reachable, healthy>>
jobs == <<pc, todo, cur, lock>>
watchVars == <<engines, daemon, cache, view, jobs, stale, failed>>

Dup(e) == <<"removeDuplicateContainers", e>>
Resched(e) == <<"rescheduleContainers", e>>
Jobs == {Dup(e) : e \in Engines} \cup {Resched(e) : e \in Engines}
NoView == [had |-> {}, listed |-> {}, on |-> FALSE]

ASSUME WatchdogAssumption == None \notin Containers /\ None \notin Jobs

WatchInit ==
  /\ reachable = Engines /\ healthy = Engines
  /\ daemon \in [Engines -> SUBSET Containers]
  /\ \A c \in Containers : Cardinality({e \in Engines : c \in daemon[e]}) = 1
  /\ cache = daemon
  /\ view = [e \in Engines |-> NoView]
  /\ pc = [j \in Jobs |-> "off"]
  /\ todo = [j \in Jobs |-> {}]
  /\ cur = [j \in Jobs |-> None]
  /\ lock = None
  /\ stale = {} /\ failed = {}
-----------------------------------------------------------------------------
(* Engines fail and come back, and the manager notices.                    *)

Lose(e) ==
  /\ e \in reachable
  /\ reachable' = reachable \ {e}
  /\ UNCHANGED <<healthy, daemon, cache, view, jobs, stale, failed>>

Return(e) ==
  /\ e \notin reachable
  /\ reachable' = reachable \cup {e}
  /\ UNCHANGED <<healthy, daemon, cache, view, jobs, stale, failed>>

\* Handle starts a goroutine; bound: one of a kind for an engine at a time
Handle(j) ==
  /\ pc[j] = "off"
  /\ pc' = [pc EXCEPT ![j] = "start"]
  /\ UNCHANGED <<todo, cur, lock>>

\* Mutant: the event is not handled
engine_disconnect_Silent(e) ==
  /\ e \in healthy /\ e \notin reachable
  /\ healthy' = healthy \ {e}
  /\ UNCHANGED <<reachable, daemon, cache, view, jobs, stale, failed>>

engine_disconnect(e) ==
  /\ e \in healthy /\ e \notin reachable
  /\ healthy' = healthy \ {e}
  /\ Handle(Resched(e))
  /\ UNCHANGED <<reachable, daemon, cache, view, stale, failed>>

engine_reconnect(e) ==
  /\ e \notin healthy /\ e \in reachable
  /\ healthy' = healthy \cup {e}
  /\ Handle(Dup(e))
  /\ UNCHANGED <<reachable, daemon, cache, view, stale, failed>>

\* RefreshContainers in refreshLoop notes what is cached and lists what
\* there is
List(e) ==
  /\ e \in reachable /\ e \in healthy /\ ~view[e].on
  /\ view' = [view EXCEPT ![e] = [had |-> cache[e], listed |-> daemon[e],
                                  on |-> TRUE]]
  /\ UNCHANGED <<engines, daemon, cache, jobs, stale, failed>>

\* and writes the cache later: what was cached and not listed is missing,
\* what was listed is there
Apply(e) ==
  /\ view[e].on
  /\ view' = [view EXCEPT ![e] = NoView]
  /\ cache' = [cache EXCEPT ![e] = (@ \ view[e].had) \cup view[e].listed]
  /\ stale' = stale \cup {c \in view[e].listed \ cache[e] :
                            \/ c \in view[e].had
                            \/ c \notin daemon[e]
                            \/ e \notin healthy}
  /\ UNCHANGED <<engines, daemon, jobs, failed>>
-----------------------------------------------------------------------------
Goto(j, to) == pc' = [pc EXCEPT ![j] = to]

\* Mutant: the goroutines do not exclude each other
Lock_Not(j, from, cs) ==
  /\ pc[j] = from
  /\ todo' = [todo EXCEPT ![j] = cs]
  /\ Goto(j, "loop")
  /\ UNCHANGED <<lock, cur>>

Lock(j, from, cs) ==
  /\ pc[j] = from /\ lock = None
  /\ lock' = j
  /\ todo' = [todo EXCEPT ![j] = cs]
  /\ Goto(j, "loop")
  /\ UNCHANGED cur

Unlock(j) ==
  /\ pc[j] = "loop" /\ todo[j] = {}
  /\ lock' = None
  /\ Goto(j, "off")
  /\ UNCHANGED <<todo, cur>>

\* the next container of the loop, to be handled at "act"
Take(j, c) ==
  /\ pc[j] = "loop" /\ c \in todo[j]
  /\ todo' = [todo EXCEPT ![j] = @ \ {c}]

Handled(j) ==
  /\ cur' = [cur EXCEPT ![j] = None]
  /\ Goto(j, "loop")
  /\ UNCHANGED <<todo, lock>>

Elsewhere(c, e) == \E f \in Engines \ {e} : c \in cache[f]

-----------------------------------------------------------------------------
(* removeDuplicateContainers                                               *)

\* the refresh before the lock, which may fail; it is one step, because
\* nobody else removes containers of e
DupRefresh(e) ==
  LET j == Dup(e) IN
  /\ pc[j] = "start"
  /\ \/ /\ e \in reachable
        /\ cache' = [cache EXCEPT ![e] = daemon[e]]
        /\ stale' = stale \cup IF e \in healthy THEN {} ELSE daemon[e] \ cache[e]
     \/ e \notin reachable /\ UNCHANGED <<cache, stale>>
  /\ Goto(j, "lock")
  /\ UNCHANGED <<engines, daemon, view, todo, cur, lock, failed>>

DupLock(e) ==
  /\ Lock(Dup(e), "lock", cache[e])
  /\ UNCHANGED <<engines, daemon, cache, view, stale, failed>>

DupTake(e, c) ==
  LET j == Dup(e) IN
  /\ Take(j, c)
  /\ IF Elsewhere(c, e)
     THEN Goto(j, "act") /\ cur' = [cur EXCEPT ![j] = c]
     ELSE UNCHANGED <<pc, cur>>
  /\ UNCHANGED <<engines, daemon, cache, view, lock, stale, failed>>

\* Engine.RemoveContainer: it succeeds, it fails, or the daemon's answer is
\* lost and the cache keeps what is gone
RemoveContainer(e, c) ==
  \/ UNCHANGED <<daemon, cache, stale>>
  \/ /\ e \in reachable
     /\ daemon' = [daemon EXCEPT ![e] = @ \ {c}]
     /\ \/ cache' = [cache EXCEPT ![e] = @ \ {c}] /\ UNCHANGED stale
        \/ stale' = stale \cup {c} /\ UNCHANGED cache

\* a failure is only logged
DupRemove(e) ==
  LET j == Dup(e) IN
  /\ pc[j] = "act"
  /\ RemoveContainer(e, cur[j])
  /\ Handled(j)
  /\ UNCHANGED <<engines, view, failed>>
-----------------------------------------------------------------------------
(* rescheduleContainers                                                    *)

ReschedLock(e) ==
  /\ Lock(Resched(e), "start", cache[e])
  /\ UNCHANGED <<engines, daemon, cache, view, stale, failed>>

removeContainer(e, c) == cache' = [cache EXCEPT ![e] = @ \ {c}]

\* the container is taken out of the cache, for its name to be free
ReschedTake(e, c) ==
  LET j == Resched(e) IN
  /\ Take(j, c)
  /\ Goto(j, "act") /\ cur' = [cur EXCEPT ![j] = c]
  /\ removeContainer(e, c)
  /\ UNCHANGED <<engines, daemon, view, lock, stale, failed>>

\* CreateContainer on an engine f that is free of the name and healthy
ReschedCreate(e, f) ==
  LET j == Resched(e) c == cur[j] IN
  /\ pc[j] = "act"
  /\ \A g \in Engines : c \notin cache[g]
  /\ f \in healthy /\ f \in reachable /\ c \notin daemon[f]
  /\ daemon' = [daemon EXCEPT ![f] = @ \cup {c}]
  /\ cache' = [cache EXCEPT ![f] = @ \cup {c}]
  /\ Handled(j)
  /\ UNCHANGED <<engines, view, stale, failed>>

AddContainer(e, c) == cache' = [cache EXCEPT ![e] = @ \cup {c}]

\* RANDOMENGINE or CreateContainer fails, perhaps after the daemon of some
\* engine has created the container: "add the container back"
ReschedFails(e) ==
  LET j == Resched(e) c == cur[j] IN
  /\ pc[j] = "act"
  /\ \/ UNCHANGED daemon
     \/ /\ \A g \in Engines : c \notin cache[g]
        /\ \E f \in healthy \cap reachable :
             /\ c \notin daemon[f]
             /\ daemon' = [daemon EXCEPT ![f] = @ \cup {c}]
  /\ AddContainer(e, c)
  /\ failed' = failed \cup {c}
  /\ Handled(j)
  /\ UNCHANGED <<engines, view, stale>>

JobUnlock(j) ==
  /\ Unlock(j)
  /\ UNCHANGED <<engines, daemon, cache, view, stale, failed>>
-----------------------------------------------------------------------------
Dups(e) ==
  \/ DupRefresh(e) \/ DupLock(e) \/ DupRemove(e)
  \/ \E c \in Containers : DupTake(e, c)

Rescheds(e) ==
  \/ ReschedLock(e) \/ ReschedFails(e)
  \/ \E c \in Containers : ReschedTake(e, c)
  \/ \E f \in Engines : ReschedCreate(e, f)

WatchNext ==
  \/ \E e \in Engines :
       \/ Lose(e) \/ Return(e) \/ engine_disconnect(e) \/ engine_reconnect(e)
       \/ List(e) \/ Apply(e) \/ Dups(e) \/ Rescheds(e)
  \/ \E j \in Jobs : JobUnlock(j)

WatchSpec == WatchInit /\ [][WatchNext]_watchVars

-----------------------------------------------------------------------------
\* The variables keep their types.
WatchTypeOK ==
  /\ reachable \subseteq Engines /\ healthy \subseteq Engines
  /\ daemon \in [Engines -> SUBSET Containers]
  /\ cache \in [Engines -> SUBSET Containers]
  /\ view \in [Engines -> [had : SUBSET Containers, listed : SUBSET Containers,
                           on : BOOLEAN]]
  /\ pc \in [Jobs -> {"off", "start", "lock", "loop", "act"}]
  /\ todo \in [Jobs -> SUBSET Containers]
  /\ cur \in [Jobs -> Containers \cup {None}]
  /\ lock \in Jobs \cup {None}
  /\ stale \subseteq Containers /\ failed \subseteq Containers

\* The watchdog never removes the last copy of a container, however many
\* engines come back at once, unless the cache showed another copy that was
\* gone: a refresh that had listed it before its removal has put it back, or
\* its removal was not confirmed.
NotLost ==
  \A c \in Containers \ stale : \E e \in Engines : c \in daemon[e]

\* A container stays known to the manager: in the cache of an engine, or in
\* the hands of the goroutine that reschedules it; also when creating it
\* again fails.
StillKnown ==
  \A c \in Containers \ stale :
    \/ \E e \in Engines : c \in cache[e]
    \/ \E e \in Engines : cur[Resched(e)] = c

\* Whatever the goroutines of the watchdog do to one another, a container is
\* neither lost nor forgotten: both of the above.
NeverLost == NotLost /\ StillKnown

\* Once every goroutine has ended, no refresh is in flight and the manager
\* knows which engines are up, every container exists on an engine that is
\* up, whatever failed, came back and failed again before: unless creating
\* it has failed once (nothing tries again) or a cache was out of date.
Rescheduled ==
  /\ healthy = reachable /\ healthy # {}
  /\ \A j \in Jobs : pc[j] = "off"
  /\ \A e \in Engines : ~view[e].on
  => \A c \in Containers \ (stale \cup failed) :
       \E e \in healthy : c \in daemon[e]
=============================================================================
