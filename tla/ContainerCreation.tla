------------------------- MODULE ContainerCreation -------------------------
(***************************************************************************)
(* How the cluster creates containers (cluster/swarm/cluster.go): API      *)
(* requests pick a node under the lock of the scheduler, reserve it in     *)
(* pendingContainers, create the container without the lock and give the   *)
(* reservation back, while other requests, renames, removals and the       *)
(* refreshes of the engines' caches go on.                                 *)
(*                                                                         *)
(* A request stands for its Swarm ID, which it keeps when it is retried.   *)
(* Its container binds one host port at most, on every interface.  The     *)
(* rank of the accepted nodes, and what the filters for health, whitelist, *)
(* affinity, dependency and constraint reject, are left open.              *)
(***************************************************************************)
EXTENDS Naturals, FiniteSets

CONSTANTS
  Nodes,
  Requests,
  Containers,   \* IDs that the daemons give to containers
  Names,
  NameOf,       \* the name a request asks for, or None
  Port,         \* the host port that it binds or exposes, or None
  HostMode,     \* requests whose container uses the host's network
  Memory,       \* the memory a request reserves
  Total,        \* Engine.TotalMemory
  Slots,        \* the label containerslots of a node
  Strategy,     \* spread, binpack or random
  CreateRetry,  \* the option swarm.createretry
  Renamers,     \* API requests that rename a container
  None

ASSUME NodeAssumption == Slots \in [Nodes -> Nat] /\ Total \in [Nodes -> Nat]
ASSUME RequestAssumption ==
  /\ NameOf \in [Requests -> Names \cup {None}]
  /\ Memory \in [Requests -> Nat]
  /\ HostMode \subseteq Requests
  /\ IsFiniteSet(Requests)
ASSUME NoneAssumption ==
  None \notin Nodes \cup Requests \cup Containers \cup Names
ASSUME RetryAssumption == CreateRetry \in Nat

VARIABLES
  live,        \* containers that the daemons have
  of,          \* the request that a container was created for
  host,        \* the node of a container
  name,        \* the name of a container at its daemon
  cached,      \* containers in the caches of the engines
  cachedName,  \* the name that the cache has for them
  pending,     \* pendingContainers: the node reserved for a request
  lock,        \* the request that holds the lock of the scheduler
  seen, used,  \* Containers and UsedMemory of the nodes that it has listed
  pc,          \* where a request is
  made,        \* the container it has created
  err,         \* the error of its last attempt
  stage,       \* which call of createContainer the attempt is
  attempts,    \* how many calls there have been
  lost,        \* containers whose request was told that it failed
  rename       \* the renaming requests

world == <<live, of, host, name>>
caches == <<cached, cachedName>>
listing == <<seen, used>>
request == <<made, err, stage, attempts>>
vars == <<world, caches, pending, lock, listing, pc, request, lost, rename>>

Locked == {"pending", "list", "weigh", "select"}
Reserved == {"create", "refresh", "report", "release"}
Pcs == Locked \cup Reserved \cup {"start", "error", "done", "failed"}
Errors == {"none", "os", "image", "other"}
Stages == {"first", "os", "image", "loop"}
Rename == [pc : {"idle", "rename", "refresh", "done"},
           c : Containers \cup {None}, to : Names \cup {None}]

TypeOK ==
  /\ live \subseteq Containers
  /\ of \in [Containers -> Requests \cup {None}]
  /\ host \in [Containers -> Nodes \cup {None}]
  /\ name \in [Containers -> Names \cup {None}]
  /\ cached \subseteq Containers
  /\ cachedName \in [Containers -> Names \cup {None}]
  /\ pending \in [Requests -> Nodes \cup {None}]
  /\ lock \in Requests \cup {None}
  /\ seen \subseteq Containers
  /\ used = [n \in Nodes |-> used[n]]
  /\ pc \in [Requests -> Pcs]
  /\ made \in [Requests -> Containers \cup {None}]
  /\ err \in [Requests -> Errors]
  /\ stage \in [Requests -> Stages]
  /\ attempts \in [Requests -> Nat]
  /\ lost \subseteq Containers
  /\ rename \in [Renamers -> Rename]

Init ==
  /\ live = {} /\ cached = {} /\ seen = {} /\ lost = {}
  /\ of = [c \in Containers |-> None]
  /\ host = [c \in Containers |-> None]
  /\ name = [c \in Containers |-> None]
  /\ cachedName = [c \in Containers |-> None]
  /\ pending = [r \in Requests |-> None]
  /\ lock = None
  /\ used = [n \in Nodes |-> 0]
  /\ pc = [r \in Requests |-> "start"]
  /\ made = [r \in Requests |-> None]
  /\ err = [r \in Requests |-> "none"]
  /\ stage = [r \in Requests |-> "first"]
  /\ attempts = [r \in Requests |-> 1]
  /\ rename = [w \in Renamers |-> [pc |-> "idle", c |-> None, to |-> None]]

-----------------------------------------------------------------------------
\* the sum of what f says of the members of a set, by recursion on the set
Sum(f, S) ==
  LET upTo[T \in SUBSET S] ==
        IF T = {} THEN 0
        ELSE LET x == CHOOSE x \in T : TRUE IN f[x] + upTo[T \ {x}]
  IN upTo[S]

(* checkNameUniqueness looks through the caches first, then through        *)
(* pendingContainers.                                                      *)
InCaches(x) == x # None /\ \E c \in cached : cachedName[c] = x
InPending_Never(x) == FALSE

InPending(x) == x # None /\ \E s \in Requests : pending[s] # None /\ NameOf[s] = x

\* The attempt of r ends with the error e before anything is reserved.
Refuse(r, e) ==
  /\ lock' = None
  /\ pc' = [pc EXCEPT ![r] = "error"]
  /\ err' = [err EXCEPT ![r] = e]
  /\ seen' = {}
  /\ used' = [n \in Nodes |-> 0]

Proceed(r, to) == pc' = [pc EXCEPT ![r] = to] /\ UNCHANGED <<err, listing>>

CheckCaches(r) ==
  /\ pc[r] = "start" /\ lock = None
  /\ IF InCaches(NameOf[r]) THEN Refuse(r, "other")
     ELSE lock' = r /\ Proceed(r, "pending")
  /\ UNCHANGED <<world, caches, pending, made, stage, attempts, lost, rename>>

CheckPending(r) ==
  /\ pc[r] = "pending"
  /\ IF InPending(NameOf[r]) THEN Refuse(r, "other")
     ELSE UNCHANGED lock /\ Proceed(r, "list")
  /\ UNCHANGED <<world, caches, pending, made, stage, attempts, lost, rename>>

\* NewNode reads the containers of an engine and their sum under two locks.
Resident(n, cs) == {c \in cs : host[c] = n}
Reserves(cs) == Sum([c \in cs |-> Memory[of[c]]], cs)

ListContainers(r) ==
  /\ pc[r] = "list"
  /\ seen' = cached
  /\ pc' = [pc EXCEPT ![r] = "weigh"]
  /\ UNCHANGED <<world, caches, pending, lock, used, request, lost, rename>>

UsedMemory(r) ==
  /\ pc[r] = "weigh"
  /\ used' = [n \in Nodes |-> Reserves(Resident(n, cached))]
  /\ pc' = [pc EXCEPT ![r] = "select"]
  /\ UNCHANGED <<world, caches, pending, lock, seen, request, lost, rename>>

(* listNodes adds to a node the reservations whose Swarm ID it has no      *)
(* container of; AddContainer refuses one larger than the node, and nobody *)
(* looks at its error.                                                     *)
Added_Never(n) == {}

Added(n) ==
  {s \in Requests : /\ pending[s] = n
                    /\ ~ \E c \in Resident(n, seen) : of[c] = s
                    /\ Memory[s] =< Total[n]}

SlotsFilter(n) ==
  Cardinality(Resident(n, seen)) + Cardinality(Added(n)) < Slots[n]

(* A reservation has no Info yet: filterBridge looks at its Config         *)
(* instead, filterHost does not.                                           *)
PortFilter_Info(r, n) ==
  Port[r] # None => \A c \in Resident(n, seen) : Port[of[c]] # Port[r]

PortFilter(r, n) ==
  LET On(s) == Port[s] = Port[r] /\ (s \in HostMode <=> r \in HostMode)
  IN  Port[r] # None =>
        /\ ~ \E c \in Resident(n, seen) : On(of[c])
        /\ r \notin HostMode => ~ \E s \in Added(n) : On(s)

weighNodes_Cached(r, n) ==
  Memory[r] > 0 => /\ Memory[r] =< Total[n]
                   /\ ((used[n] + Memory[r]) * 100) \div Total[n] =< 100

weighNodes(r, n) ==
  LET added == Sum(Memory, Added(n))
  IN  /\ Memory[r] =< Total[n]
      /\ Memory[r] > 0 => ((used[n] + added + Memory[r]) * 100) \div Total[n] =< 100

Accepts(r, n) ==
  /\ SlotsFilter(n)
  /\ PortFilter(r, n)
  /\ Strategy # "random" => weighNodes(r, n)

Select(r, n) ==
  /\ pc[r] = "select"
  /\ Accepts(r, n)
  /\ pending' = [pending EXCEPT ![r] = n]
  /\ lock' = None
  /\ pc' = [pc EXCEPT ![r] = "create"]
  /\ seen' = {}
  /\ used' = [m \in Nodes |-> 0]
  /\ UNCHANGED <<world, caches, request, lost, rename>>

\* No node passes the filters, or the engine has left the cluster meanwhile.
SelectFails(r) ==
  /\ pc[r] = "select"
  /\ Refuse(r, "other")
  /\ UNCHANGED <<world, caches, pending, made, stage, attempts, lost, rename>>

-----------------------------------------------------------------------------
(* Engine.CreateContainer.  A daemon has no two containers of one name.    *)
Free(x, n) == x = None \/ ~ \E c \in live : host[c] = n /\ name[c] = x

\* The pull of a missing image, and the second try after it, are a delay.
Create(r, c, answered) ==
  /\ pc[r] = "create"
  /\ of[c] = None
  /\ Free(NameOf[r], pending[r])
  /\ live' = live \cup {c}
  /\ of' = [of EXCEPT ![c] = r]
  /\ host' = [host EXCEPT ![c] = pending[r]]
  /\ name' = [name EXCEPT ![c] = NameOf[r]]
  /\ IF answered
       THEN /\ made' = [made EXCEPT ![r] = c]
            /\ pc' = [pc EXCEPT ![r] = "refresh"]
            /\ UNCHANGED <<err, lost>>
       ELSE /\ lost' = lost \cup {c}
            /\ err' = [err EXCEPT ![r] = "other"]
            /\ pc' = [pc EXCEPT ![r] = "release"]
            /\ UNCHANGED made
  /\ UNCHANGED <<caches, pending, lock, listing, stage, attempts, rename>>

CreateFails(r, e) ==
  /\ pc[r] = "create"
  /\ err' = [err EXCEPT ![r] = e]
  /\ pc' = [pc EXCEPT ![r] = "release"]
  /\ UNCHANGED <<world, caches, pending, lock, listing, made, stage, attempts,
                 lost, rename>>

\* refreshContainer: the listing of c has it or not, or fails.
RefreshOf(c) ==
  \/ /\ c \in live
     /\ cached' = cached \cup {c}
     /\ cachedName' = [cachedName EXCEPT ![c] = name[c]]
  \/ /\ c \notin live
     /\ cached' = cached \ {c}
     /\ cachedName' = [cachedName EXCEPT ![c] = None]
  \/ UNCHANGED caches

Refresh(r) ==
  /\ pc[r] = "refresh"
  /\ RefreshOf(made[r])
  /\ pc' = [pc EXCEPT ![r] = "report"]
  /\ UNCHANGED <<world, pending, lock, listing, request, lost, rename>>

\* A container that is not in the cache now is an error for its request.
Report_Trust(r) ==
  /\ pc[r] = "report"
  /\ pc' = [pc EXCEPT ![r] = "release"]
  /\ UNCHANGED <<world, caches, pending, lock, listing, request, lost, rename>>

Report(r) ==
  /\ pc[r] = "report"
  /\ IF made[r] \in cached THEN UNCHANGED <<made, err, lost>>
     ELSE /\ lost' = lost \cup {made[r]}
          /\ made' = [made EXCEPT ![r] = None]
          /\ err' = [err EXCEPT ![r] = "other"]
  /\ pc' = [pc EXCEPT ![r] = "release"]
  /\ UNCHANGED <<world, caches, pending, lock, listing, stage, attempts, rename>>

\* CreateContainer returns, and its local variables are gone.
Return(r) ==
  /\ err' = [err EXCEPT ![r] = "none"]
  /\ stage' = [stage EXCEPT ![r] = "first"]
  /\ attempts' = [attempts EXCEPT ![r] = 1]

Release_OnSuccess(r) ==
  /\ pc[r] = "release" /\ lock = None
  /\ IF made[r] # None
       THEN /\ pc' = [pc EXCEPT ![r] = "done"]
            /\ pending' = [pending EXCEPT ![r] = None]
            /\ Return(r)
       ELSE /\ pc' = [pc EXCEPT ![r] = "error"]
            /\ UNCHANGED <<pending, err, stage, attempts>>
  /\ UNCHANGED <<world, caches, lock, listing, made, lost, rename>>

Release(r) ==
  /\ pc[r] = "release" /\ lock = None
  /\ pending' = [pending EXCEPT ![r] = None]
  /\ IF made[r] # None
       THEN pc' = [pc EXCEPT ![r] = "done"] /\ Return(r)
       ELSE /\ pc' = [pc EXCEPT ![r] = "error"]
            /\ UNCHANGED <<err, stage, attempts>>
  /\ UNCHANGED <<world, caches, lock, listing, made, lost, rename>>

-----------------------------------------------------------------------------
(* Cluster.CreateContainer after an error: one more attempt if the image   *)
(* is for another OS, one if it is not found but some engine has it, then  *)
(* up to createRetry attempts in all.                                      *)
Again(r, s) ==
  /\ pc' = [pc EXCEPT ![r] = "start"]
  /\ stage' = [stage EXCEPT ![r] = s]
  /\ attempts' = [attempts EXCEPT ![r] = @ + 1]
  /\ err' = [err EXCEPT ![r] = "none"]
  /\ UNCHANGED <<world, caches, pending, lock, listing, made, lost, rename>>

OSMismatch(r) == err[r] = "os" /\ stage[r] = "first"

RetryOS(r) == pc[r] = "error" /\ OSMismatch(r) /\ Again(r, "os")

RetryImage(r) ==
  /\ pc[r] = "error"
  /\ err[r] = "image" /\ stage[r] \in {"first", "os"}
  /\ Again(r, "image")

RetryLoop(r) ==
  /\ pc[r] = "error" /\ ~OSMismatch(r)
  /\ attempts[r] =< CreateRetry
  /\ Again(r, "loop")

GiveUp(r) ==
  /\ pc[r] = "error" /\ ~OSMismatch(r)
  /\ attempts[r] > CreateRetry
  /\ pc' = [pc EXCEPT ![r] = "failed"]
  /\ Return(r)
  /\ UNCHANGED <<world, caches, pending, lock, listing, made, lost, rename>>

-----------------------------------------------------------------------------
(* RenameContainer checks the name without the lock of the scheduler.      *)
RenameCheck(w, c, x) ==
  /\ rename[w].pc = "idle"
  /\ c \in cached
  /\ ~InCaches(x) /\ ~InPending(x)
  /\ rename' = [rename EXCEPT ![w] = [pc |-> "rename", c |-> c, to |-> x]]
  /\ UNCHANGED <<world, caches, pending, lock, listing, pc, request, lost>>

RenameCall(w) ==
  LET c == rename[w].c
      x == rename[w].to
      ok == c \in live /\ Free(x, host[c])
  IN  /\ rename[w].pc = "rename"
      /\ name' = IF ok THEN [name EXCEPT ![c] = x] ELSE name
      /\ rename' = [rename EXCEPT ![w] =
                      [pc |-> IF ok THEN "refresh" ELSE "done", c |-> c, to |-> None]]
      /\ UNCHANGED <<live, of, host, caches, pending, lock, listing, pc, request, lost>>

RenameRefresh(w) ==
  /\ rename[w].pc = "refresh"
  /\ RefreshOf(rename[w].c)
  /\ rename' = [rename EXCEPT ![w] =
                  [pc |-> "done", c |-> rename[w].c, to |-> None]]
  /\ UNCHANGED <<world, pending, lock, listing, pc, request, lost>>

-----------------------------------------------------------------------------
(* The rest of the engines, as ContainerCache has it: a container goes, by *)
(* RemoveContainer or otherwise; a refresh, even a stale one, brings it    *)
(* into the cache; and only one that the daemon has no more is dropped.    *)
Remove(c) ==
  /\ c \in live
  /\ live' = live \ {c}
  /\ UNCHANGED <<of, host, name, caches, pending, lock, listing, pc, request,
                 lost, rename>>

Learn(c) ==
  /\ of[c] # None
  /\ cached' = cached \cup {c}
  /\ cachedName' = [cachedName EXCEPT ![c] = name[c]]
  /\ UNCHANGED <<world, pending, lock, listing, pc, request, lost, rename>>

Drop(c) ==
  /\ c \in cached \ live
  /\ cached' = cached \ {c}
  /\ cachedName' = [cachedName EXCEPT ![c] = None]
  /\ UNCHANGED <<world, pending, lock, listing, pc, request, lost, rename>>

Attempt(r) ==
  \/ CheckCaches(r) \/ CheckPending(r)
  \/ ListContainers(r) \/ UsedMemory(r)
  \/ SelectFails(r) \/ \E n \in Nodes : Select(r, n)
  \/ \E e \in Errors \ {"none"} : CreateFails(r, e)
  \/ \E c \in Containers, answered \in BOOLEAN : Create(r, c, answered)
  \/ Refresh(r) \/ Report(r) \/ Release(r)

Retry(r) == RetryOS(r) \/ RetryImage(r) \/ RetryLoop(r) \/ GiveUp(r)

RenameStep(w) ==
  \/ \E c \in Containers, x \in Names : RenameCheck(w, c, x)
  \/ RenameCall(w)
  \/ RenameRefresh(w)

Next ==
  \/ \E r \in Requests : Attempt(r) \/ Retry(r)
  \/ \E w \in Renamers : RenameStep(w)
  \/ \E c \in Containers : Remove(c) \/ Learn(c) \/ Drop(c)

Spec == Init /\ [][Next]_vars

(* A goroutine goes on, calls to a daemon return, and a mutex of Go hands  *)
(* itself to a goroutine that has waited for a millisecond.                *)
Fairness ==
  \A r \in Requests :
    /\ WF_vars(Attempt(r) \/ Retry(r))
    /\ SF_vars(CheckCaches(r)) /\ SF_vars(Release(r))
FairSpec == Spec /\ Fairness

-----------------------------------------------------------------------------
(* Properties.  They speak of the daemons' containers, less the lost ones: *)
(* what is created behind an error is unknown to the cluster until a       *)
(* refresh finds it.                                                       *)
Mine == live \ lost

(* Every container that a request has, or will have, the success of is     *)
(* reserved or cached at all times, so that the scheduler counts it.       *)
Accounted ==
  \A c \in Mine : pending[of[c]] = host[c] \/ c \in cached

\* The requests that have a place on n.
Placed(n) ==
  {r \in Requests : \/ pending[r] = n
                    \/ \E c \in Mine : host[c] = n /\ of[c] = r}

(* However many requests are under way, no node is given more containers   *)
(* than its label containerslots allows.                                   *)
SlotsRespected == \A n \in Nodes : Cardinality(Placed(n)) =< Slots[n]

PortOnce(n, rs) ==
  \A r, s \in Placed(n) \cap rs : Port[r] = Port[s] /\ Port[r] # None => r = s

(* No node is given two containers that publish the same port: the filter  *)
(* counts those that are only reserved.                                    *)
BridgePortOnce == \A n \in Nodes : PortOnce(n, Requests \ HostMode)

(* The memory that the containers of a node reserve, those that are about  *)
(* to be created included, is at most its total, by the percentage that    *)
(* weighNodes computes, if no attempt is repeated.  (A repeated one may    *)
(* have a lost container of its Swarm ID, which listNodes takes for the    *)
(* reserved one and UsedMemory no longer counts once it is gone.)          *)
MemoryRespected ==
  \A n \in Nodes :
    LET rs == {r \in Requests : \/ pc[r] = "create" /\ pending[r] = n
                                \/ \E c \in Mine : host[c] = n /\ of[c] = r}
        sum == Sum(Memory, rs)
    IN  sum > 0 => (sum * 100) \div Total[n] =< 100

(* No two containers of the cluster, on whichever nodes, have one name,    *)
(* and none has a name that is reserved for another request, except those  *)
(* that are renamed: createContainer checks under the lock, and            *)
(* RenameContainer does not.                                               *)
Renamed(c) == \E w \in Renamers : rename[w].c = c

NameOnce ==
  \A c \in Mine : name[c] # None /\ ~Renamed(c) =>
    /\ \A d \in Mine : name[c] = name[d] /\ ~Renamed(d) => c = d
    /\ \A r \in Requests : pending[r] # None /\ NameOf[r] = name[c] => of[c] = r

(* Every request ends, and leaves no reservation behind, whatever fails on *)
(* the way.                                                                *)
RequestsEnd ==
  \A r \in Requests : <>[](pc[r] \in {"done", "failed"} /\ pending[r] = None)
=============================================================================
