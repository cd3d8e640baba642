--------------------------- MODULE ContainerCache ---------------------------
(***************************************************************************)
(* The container cache of one engine (cluster/engine.go): goroutines list  *)
(* and inspect the containers of the daemon and write what they read into  *)
(* e.containers while the daemon, the events and the API go on.  A cached  *)
(* Container is a pointer, so that one goroutine updates in place what     *)
(* another has stored.  The IDs of containers are complete and never used  *)
(* twice.                                                                  *)
(***************************************************************************)
EXTENDS Naturals

CONSTANTS
  Containers,
  Loop,         \* refreshLoop, which runs RefreshContainers(false)
  Refreshers,   \* Loop and the other goroutines that run RefreshContainers
  Monitor,      \* the events monitor, which runs refreshContainer
  Apis,         \* API requests that create, change or remove a container
  MaxVersion,   \* bound: states a container goes through
  Restarting,   \* those of them in which it is restarting
  AutoRemove,   \* containers that the daemon removes when they exit
  None

Updaters == {Monitor} \cup Apis
Procs == Refreshers \cup Updaters
Live == 1 .. MaxVersion
Absent == 0              \* not created yet
Gone == MaxVersion + 1

ASSUME VersionAssumption == MaxVersion \in Nat \ {0} /\ Restarting \subseteq Live
ASSUME ProcAssumption ==
  /\ Loop \in Refreshers
  /\ Monitor \notin Apis
  /\ Refreshers \cap Updaters = {}
  /\ None \notin Procs \cup Containers

VARIABLES
  daemon,    \* the state of a container at the daemon
  events,    \* events under way, with whether they ask for an inspection
  cache,     \* e.containers: the Container stored under an ID, named by the
             \* goroutine that allocated it (each allocates one per ID)
  store,     \* the Containers allocated: what was listed and inspected last
  pc, full,  \* a goroutine and the argument of its call
  missing,   \* currentContainerIDs, then missingContainerIDs
  listed,    \* the answer of ContainerList, less what has been updated
  target,    \* the container that updateContainer is at
  ref,       \* its Container object
  deep,      \* whether it is inspected
  info,      \* the answer of ContainerInspect
  merged     \* the map that RefreshContainers collects

local == <<full, missing, listed, target, ref, deep, info, merged>>
vars == <<daemon, events, cache, store, pc, local>>

Version == 0 .. MaxVersion
Entry == [sum : Version, info : Version]
Pcs == {"idle", "list", "pick", "lookup", "inspect", "apply", "forget"}

TypeOK ==
  /\ daemon \in [Containers -> 0 .. Gone]
  /\ events \subseteq Containers \X BOOLEAN
  /\ cache \in [Containers -> Procs \cup {None}]
  /\ store \in [Procs -> [Containers -> Entry]]
  /\ pc \in [Procs -> Pcs]
  /\ full \in [Procs -> BOOLEAN] /\ deep \in [Procs -> BOOLEAN]
  /\ missing \in [Procs -> SUBSET Containers]
  /\ listed \in [Procs -> [Containers -> Version]]
  /\ target \in [Procs -> Containers \cup {None}]
  /\ ref \in [Procs -> Procs \cup {None}]
  /\ info \in [Procs -> Version]
  /\ merged \in [Procs -> [Containers -> Procs \cup {None}]]

Nothing == [c \in Containers |-> Absent]
NoObjects == [c \in Containers |-> None]

Init ==
  /\ daemon = Nothing
  /\ events = {}
  /\ cache = NoObjects
  /\ store = [p \in Procs |-> [c \in Containers |-> [sum |-> 0, info |-> 0]]]
  /\ pc = [p \in Procs |-> "idle"]
  /\ full = [p \in Procs |-> FALSE] /\ deep = [p \in Procs |-> FALSE]
  /\ missing = [p \in Procs |-> {}]
  /\ listed = [p \in Procs |-> Nothing]
  /\ target = [p \in Procs |-> None]
  /\ ref = [p \in Procs |-> None]
  /\ info = [p \in Procs |-> Absent]
  /\ merged = [p \in Procs |-> NoObjects]

(* A call of a goroutine is over: its locals are dead.                     *)
Reset(p) ==
  /\ pc' = [pc EXCEPT ![p] = "idle"]
  /\ full' = [full EXCEPT ![p] = FALSE] /\ deep' = [deep EXCEPT ![p] = FALSE]
  /\ missing' = [missing EXCEPT ![p] = {}]
  /\ listed' = [listed EXCEPT ![p] = Nothing]
  /\ target' = [target EXCEPT ![p] = None]
  /\ ref' = [ref EXCEPT ![p] = None]
  /\ info' = [info EXCEPT ![p] = Absent]
  /\ merged' = [merged EXCEPT ![p] = NoObjects]

-----------------------------------------------------------------------------
(* The daemon: a container is created, goes through its states and is      *)
(* removed.  The events of a change of state make the handler inspect it,  *)
(* those of a creation and a removal do not.  "Docker doesn't always emit  *)
(* events when it gets out of Restarting state".                           *)
Created(c) == daemon[c] = Absent /\ daemon' = [daemon EXCEPT ![c] = 1]
Changed(c) == daemon[c] \in 1 .. MaxVersion - 1 /\ daemon' = [daemon EXCEPT ![c] = @ + 1]
Removed(c) == daemon[c] \in Live /\ daemon' = [daemon EXCEPT ![c] = Gone]

Daemon(c) ==
  /\ \/ Created(c) /\ events' = events \cup {<<c, FALSE>>}
     \/ Changed(c) /\ events' = events \cup {<<c, TRUE>>}
     \/ Changed(c) /\ daemon[c] \in Restarting /\ UNCHANGED events
     \/ Removed(c) /\ events' = events \cup {<<c, FALSE>>}
  /\ UNCHANGED <<cache, store, pc, local>>

(* The stream of events breaks; StartMonitorEvents opens another one later.*)
LoseEvents ==
  /\ events # {} /\ events' = {}
  /\ UNCHANGED <<daemon, cache, store, pc, local>>

-----------------------------------------------------------------------------
(* The callers of refreshContainer and RefreshContainers.                  *)
refreshContainer(p, c, f) ==
  /\ pc[p] = "idle"
  /\ pc' = [pc EXCEPT ![p] = "list"]
  /\ target' = [target EXCEPT ![p] = c]
  /\ full' = [full EXCEPT ![p] = f]
  /\ UNCHANGED <<missing, listed, ref, deep, info, merged>>

handler(e) ==
  /\ e \in events /\ events' = events \ {e}
  /\ refreshContainer(Monitor, e[1], e[2])
  /\ UNCHANGED <<daemon, cache, store>>

CreateContainer(p, c) ==
  /\ Created(c) /\ events' = events \cup {<<c, FALSE>>}
  /\ refreshContainer(p, c, TRUE)
  /\ UNCHANGED <<cache, store>>

(* StartContainer and RenameContainer.                                     *)
StartContainer(p, c) ==
  /\ cache[c] # None
  /\ Changed(c) /\ events' = events \cup {<<c, TRUE>>}
  /\ refreshContainer(p, c, TRUE)
  /\ UNCHANGED <<cache, store>>

RemoveContainer(p, c) ==
  /\ pc[p] = "idle" /\ cache[c] # None
  /\ Removed(c) /\ events' = events \cup {<<c, FALSE>>}
  /\ pc' = [pc EXCEPT ![p] = "forget"]
  /\ target' = [target EXCEPT ![p] = c]
  /\ UNCHANGED <<cache, store, full, missing, listed, ref, deep, info, merged>>

(* delete(e.containers, ID), of RemoveContainer and of StartContainer.     *)
Forget(p) ==
  /\ pc[p] = "forget"
  /\ cache' = [cache EXCEPT ![target[p]] = None]
  /\ Reset(p)
  /\ UNCHANGED <<daemon, events, store>>

(* RefreshContainers caches the current IDs before it asks the daemon.     *)
RefreshContainers(p) ==
  /\ pc[p] = "idle"
  /\ pc' = [pc EXCEPT ![p] = "list"]
  /\ \E f \in BOOLEAN : /\ p = Loop => ~f
                        /\ full' = [full EXCEPT ![p] = f]
  /\ missing' = [missing EXCEPT ![p] = {c \in Containers : cache[c] # None}]
  /\ UNCHANGED <<daemon, events, cache, store, listed, target, ref, deep, info, merged>>

-----------------------------------------------------------------------------
IsLive(c) == daemon[c] \in Live

ListAll(p) ==
  /\ pc[p] = "list" /\ p \in Refreshers
  /\ listed' = [listed EXCEPT ![p] = [c \in Containers |-> IF IsLive(c) THEN daemon[c] ELSE Absent]]
  /\ missing' = [missing EXCEPT ![p] = {c \in @ : ~IsLive(c)}]
  /\ pc' = [pc EXCEPT ![p] = "pick"]
  /\ UNCHANGED <<daemon, events, cache, store, full, target, ref, deep, info, merged>>

(* refreshContainer lists by ID; "The container doesn't exist on the       *)
(* engine, remove it."                                                     *)
ListOne(p) ==
  /\ pc[p] = "list" /\ p \in Updaters
  /\ IF IsLive(target[p])
     THEN /\ listed' = [listed EXCEPT ![p][target[p]] = daemon[target[p]]]
          /\ pc' = [pc EXCEPT ![p] = "lookup"]
          /\ UNCHANGED <<cache, full, missing, target, ref, deep, info, merged>>
     ELSE /\ cache' = [cache EXCEPT ![target[p]] = None]
          /\ Reset(p)
  /\ UNCHANGED <<daemon, events, store>>

ListFails(p) ==
  /\ pc[p] = "list"
  /\ Reset(p)
  /\ UNCHANGED <<daemon, events, cache, store>>

(* The loop of RefreshContainers over the answer.                          *)
Pick(p, c) ==
  /\ pc[p] = "pick" /\ listed[p][c] # Absent
  /\ target' = [target EXCEPT ![p] = c]
  /\ pc' = [pc EXCEPT ![p] = "lookup"]
  /\ UNCHANGED <<daemon, events, cache, store, full, missing, listed, ref, deep, info, merged>>

Commit_Replace(p) ==
  /\ pc[p] = "pick" /\ listed[p] = Nothing
  /\ cache' = merged[p]
  /\ Reset(p)
  /\ UNCHANGED <<daemon, events, store>>

Commit(p) ==
  /\ pc[p] = "pick" /\ listed[p] = Nothing
  /\ cache' = [c \in Containers |->
                 IF merged[p][c] # None THEN merged[p][c]
                 ELSE IF c \in missing[p] THEN None ELSE cache[c]]
  /\ Reset(p)
  /\ UNCHANGED <<daemon, events, store>>

-----------------------------------------------------------------------------
(* updateContainer.  A new Container, or one that was restarting, is       *)
(* inspected in any case.  The lock is released for the inspection.        *)
MustInspect_New(c) == cache[c] = None

MustInspect_Known(c) == cache[c] # None /\ store[cache[c]][c].info \in Restarting

MustInspect(c) == cache[c] = None \/ store[cache[c]][c].info \in Restarting

Lookup(p) ==
  LET c == target[p] IN
  /\ pc[p] = "lookup"
  /\ ref' = [ref EXCEPT ![p] = IF cache[c] = None THEN p ELSE cache[c]]
  /\ deep' = [deep EXCEPT ![p] = full[p] \/ MustInspect(c)]
  /\ pc' = [pc EXCEPT ![p] = IF full[p] \/ MustInspect(c) THEN "inspect" ELSE "apply"]
  /\ UNCHANGED <<daemon, events, cache, store, full, missing, listed, target, info, merged>>

Inspect(p) ==
  /\ pc[p] = "inspect" /\ IsLive(target[p])
  /\ info' = [info EXCEPT ![p] = daemon[target[p]]]
  /\ pc' = [pc EXCEPT ![p] = "apply"]
  /\ UNCHANGED <<daemon, events, cache, store, full, missing, listed, target, ref, deep, merged>>

(* updateContainer is over for this container.                             *)
NextContainer(p) ==
  /\ listed' = [listed EXCEPT ![p][target[p]] = Absent]
  /\ target' = [target EXCEPT ![p] = None]
  /\ ref' = [ref EXCEPT ![p] = None]
  /\ deep' = [deep EXCEPT ![p] = FALSE]
  /\ info' = [info EXCEPT ![p] = Absent]
  /\ pc' = [pc EXCEPT ![p] = "pick"]
  /\ UNCHANGED <<full, missing>>

(* The inspection fails, for a removed container always ("No such          *)
(* container").  RefreshContainers goes on with the next one;              *)
(* StartContainer deletes a container that is removed when it exits.       *)
InspectFails(p) ==
  /\ pc[p] = "inspect"
  /\ \/ p \in Refreshers /\ NextContainer(p) /\ UNCHANGED merged
     \/ p \in Updaters /\ Reset(p)
     \/ /\ p \in Apis /\ ~IsLive(target[p]) /\ target[p] \in AutoRemove
        /\ pc' = [pc EXCEPT ![p] = "forget"]
        /\ UNCHANGED local
  /\ UNCHANGED <<daemon, events, cache, store>>

(* The object is updated in place and put into the map of the caller.      *)
Apply(p) ==
  LET c == target[p] IN
  /\ pc[p] = "apply"
  /\ store' = [store EXCEPT ![ref[p]][c] =
                 [sum |-> listed[p][c], info |-> IF deep[p] THEN info[p] ELSE @.info]]
  /\ IF p \in Refreshers
     THEN /\ merged' = [merged EXCEPT ![p][c] = ref[p]]
          /\ NextContainer(p)
          /\ UNCHANGED cache
     ELSE /\ cache' = [cache EXCEPT ![c] = ref[p]]
          /\ Reset(p)
  /\ UNCHANGED <<daemon, events>>

-----------------------------------------------------------------------------
Step(p) ==
  \/ Forget(p) \/ ListAll(p) \/ ListOne(p) \/ ListFails(p) \/ Commit(p)
  \/ Lookup(p) \/ Inspect(p) \/ InspectFails(p) \/ Apply(p)
  \/ \E c \in Containers : Pick(p, c)

Next ==
  \/ LoseEvents
  \/ \E c \in Containers : Daemon(c)
  \/ \E e \in events : handler(e)
  \/ \E p \in Apis, c \in Containers :
       CreateContainer(p, c) \/ StartContainer(p, c) \/ RemoveContainer(p, c)
  \/ \E p \in Refreshers : RefreshContainers(p)
  \/ \E p \in Procs : Step(p)

Spec == Init /\ [][Next]_vars

(* refreshLoop never ends and every call returns, because it has a timeout *)
(* or the daemon answers.                                                  *)
FairSpec ==
  /\ Spec
  /\ WF_vars(RefreshContainers(Loop))
  /\ WF_vars(\E e \in events : handler(e))
  /\ \A p \in Procs : WF_vars(Step(p))

-----------------------------------------------------------------------------
(* Every cached container has been inspected: its Config, that UsedMemory, *)
(* UsedCpus and the scheduler dereference, is not nil, however the         *)
(* updates of the goroutines interleave.                                   *)
CachedIsInspected ==
  \A c \in Containers : cache[c] # None => store[cache[c]][c].info # 0

(* "The delta of currentContainerIDs and ContainerList is the accurate     *)
(* list of deleted containers that is not affected by race condition": no  *)
(* goroutine drops a container that the daemon still has.                  *)
LiveStays ==
  [][\A c \in Containers : cache[c] # None /\ cache'[c] = None => daemon[c] = Gone]_vars

(* The daemon is left alone and answers.                                   *)
Calm ==
  <>[][/\ UNCHANGED daemon
       /\ \A p \in Procs : ~ListFails(p)
       /\ \A p \in Procs : InspectFails(p) => ~IsLive(target[p])]_vars

(* When the daemon is left alone and answers, the cache comes to hold      *)
(* exactly its containers, each with the state that ContainerList gives;   *)
(* and none seems to be restarting for ever ("force an inspect to update").*)
CatchesUp ==
  Calm => <>[](\A c \in Containers :
                 IF IsLive(c)
                 THEN /\ cache[c] # None /\ store[cache[c]][c].sum = daemon[c]
                      /\ store[cache[c]][c].info \in Restarting =>
                           store[cache[c]][c].info = daemon[c]
                 ELSE cache[c] = None)
====
