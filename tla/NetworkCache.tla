---------------------------- MODULE NetworkCache ----------------------------
(***************************************************************************)
(* The networks the manager knows of each engine (Engine.networks), and    *)
(* the requests that create and remove networks.                           *)
(*                                                                         *)
(* A network of local scope exists on one engine, one of global scope on   *)
(* all of them.  An engine's list is rewritten by the refresh loop, entry  *)
(* by entry by the events of the daemon, and by the requests that create   *)
(* and remove networks, which also write the lists of the other engines    *)
(* when the scope is global.  Every refresh asks the daemon first and      *)
(* writes what it was told later, under the engine's lock.  A daemon may   *)
(* do what a request asks and the answer be lost: the request then fails,  *)
(* and no list is written.                                                 *)
(***************************************************************************)
CONSTANTS NetEngines, Networks, Nobody

VARIABLES
  scope,     \* "global" or "local", of each network
  at,        \* the engine a network was created on, Nobody while it does not exist
  ever,      \* the networks created so far: an ID is never used again
  cache,     \* cache[e]: the networks of e, by ID
  told,      \* told[e]: what RefreshNetworks was told, Nobody between two refreshes
  events,    \* events[e]: networks the daemon of e has sent events about
  monitor,   \* monitor[e]: what refreshNetwork was told for an event, or Nobody
  creating,  \* creating[n]: the request that creates n
  removing,  \* removing[n]: the request that removes n
  late,      \* history: late[e], entries of cache[e] that a late answer made wrong
  unheard    \* history: unheard[e], entries of cache[e] wrong since an answer was lost

netVars == <<scope, at, ever, cache, told, events, monitor, creating, removing, late, unheard>>

Global == {n \in Networks : scope[n] = "global"}

Exists(e, n) == at[n] # Nobody /\ (n \in Global \/ at[n] = e)
On(e) == {n \in Networks : Exists(e, n)}

\* what NetworkInspect says: the network exists or not
Inspected == [net : Networks, found : BOOLEAN]

NetTypeOK ==
  /\ scope \in [Networks -> {"global", "local"}]
  /\ at \in [Networks -> NetEngines \cup {Nobody}]
  /\ ever \subseteq Networks
  /\ cache \in [NetEngines -> SUBSET Networks]
  /\ told \in [NetEngines -> (SUBSET Networks) \cup {Nobody}]
  /\ events \in [NetEngines -> SUBSET Networks]
  /\ monitor \in [NetEngines -> Inspected \cup {Nobody}]
  /\ creating \in [Networks -> [pc : {"off", "inspect", "apply", "share"},
                                engine : NetEngines \cup {Nobody}, found : BOOLEAN]]
  /\ removing \in [Networks -> [pc : {"off", "call", "others", "forget"},
                                engine : NetEngines \cup {Nobody}, tried : SUBSET NetEngines]]
  /\ late \in [NetEngines -> SUBSET Networks]
  /\ unheard \in [NetEngines -> SUBSET Networks]

Idle == [pc |-> "off", engine |-> Nobody, found |-> FALSE]
Resting == [pc |-> "off", engine |-> Nobody, tried |-> {}]

NetInit ==
  /\ scope \in [Networks -> {"global", "local"}]
  /\ at = [n \in Networks |-> Nobody]
  /\ ever = {}
  /\ cache = [e \in NetEngines |-> {}]
  /\ told = [e \in NetEngines |-> Nobody]
  /\ events = [e \in NetEngines |-> {}]
  /\ monitor = [e \in NetEngines |-> Nobody]
  /\ creating = [n \in Networks |-> Idle]
  /\ removing = [n \in Networks |-> Resting]
  /\ late = [e \in NetEngines |-> {}]
  /\ unheard = [e \in NetEngines |-> {}]
-----------------------------------------------------------------------------
(* Writing an entry of a list, and the history of what is wrong and why    *)

\* n is added to, or deleted from, the lists of the engines es
Entry(lists, es, n, present) ==
  [e \in NetEngines |->
     IF e \notin es THEN lists[e] ELSE IF present THEN lists[e] \cup {n} ELSE lists[e] \ {n}]

\* refreshNetwork: what a daemon has said of n is written to its list
SetEntry(e, n, present) ==
  /\ cache' = Entry(cache, {e}, n, present)
  /\ late' = Entry(late, {e}, n, present # Exists(e, n))
  /\ unheard' = Entry(unheard, {e}, n, FALSE)

\* the engines whose list lacks a network they have, and those that show it
Lacking(n) == {e \in NetEngines : Exists(e, n) /\ n \notin cache[e]}
Showing(n) == {e \in NetEngines : Exists(e, n) /\ n \in cache[e]}

\* the refresh loop: RefreshNetworks
RefreshNetworksList(e) ==
  /\ told[e] = Nobody
  /\ told' = [told EXCEPT ![e] = On(e)]
  /\ UNCHANGED <<scope, at, ever, cache, events, monitor, creating, removing, late, unheard>>

RefreshNetworksApply(e) ==
  /\ told[e] # Nobody
  /\ cache' = [cache EXCEPT ![e] = told[e]]
  /\ late' = [late EXCEPT ![e] = {n \in Networks : (n \in told[e]) # Exists(e, n)}]
  /\ unheard' = [unheard EXCEPT ![e] = {}]
  /\ told' = [told EXCEPT ![e] = Nobody]
  /\ UNCHANGED <<scope, at, ever, events, monitor, creating, removing>>

\* an event about a network: refreshNetwork; if the daemon cannot be asked
\* nothing is written
HandleInspect(e) ==
  /\ monitor[e] = Nobody
  /\ \E n \in events[e] :
       /\ events' = [events EXCEPT ![e] = @ \ {n}]
       /\ \/ monitor' = [monitor EXCEPT ![e] = [net |-> n, found |-> Exists(e, n)]]
          \/ UNCHANGED monitor
  /\ UNCHANGED <<scope, at, ever, cache, told, creating, removing, late, unheard>>

HandleApply(e) ==
  /\ monitor[e] # Nobody
  /\ SetEntry(e, monitor[e].net, monitor[e].found)
  /\ monitor' = [monitor EXCEPT ![e] = Nobody]
  /\ UNCHANGED <<scope, at, ever, told, events, creating, removing>>
-----------------------------------------------------------------------------
(* Cluster.CreateNetwork on the engine e the scheduler has selected: the   *)
(* daemon creates n, refreshNetwork asks for it and writes it, and a global *)
(* network that is now in the list of e is added to the other lists        *)

CreateNetwork(n, e) ==
  /\ n \notin ever
  /\ at' = [at EXCEPT ![n] = e]
  /\ ever' = ever \cup {n}
  /\ events' = [events EXCEPT ![e] = @ \cup {n}]
  /\ \/ /\ creating' = [creating EXCEPT ![n] = [Idle EXCEPT !.pc = "inspect", !.engine = e]]
        /\ UNCHANGED unheard
     \/ /\ unheard' = Entry(unheard, {f \in NetEngines : n \in Global \/ f = e}, n, TRUE)
        /\ UNCHANGED creating
  /\ UNCHANGED <<scope, cache, told, monitor, removing, late>>

\* refreshNetwork, whose error CreateNetwork ignores
CreateInspect(n) ==
  LET e == creating[n].engine IN
  /\ creating[n].pc = "inspect"
  /\ \/ /\ creating' = [creating EXCEPT ![n] = [pc |-> "apply", engine |-> e, found |-> Exists(e, n)]]
        /\ UNCHANGED unheard
     \/ /\ creating' = [creating EXCEPT ![n] = [pc |-> "share", engine |-> e, found |-> FALSE]]
        /\ unheard' = Entry(unheard, {e} \cap Lacking(n), n, TRUE)
  /\ UNCHANGED <<scope, at, ever, cache, told, events, monitor, removing, late>>

CreateApply(n) ==
  /\ creating[n].pc = "apply"
  /\ SetEntry(creating[n].engine, n, creating[n].found)
  /\ creating' = [creating EXCEPT ![n] = [pc |-> "share", engine |-> @.engine, found |-> FALSE]]
  /\ UNCHANGED <<scope, at, ever, told, events, monitor, removing>>

\* the others get the entry of e, and are wrong for the reason e is; when e
\* has no entry they hear nothing
CreateShare(n) ==
  LET e == creating[n].engine
      others == NetEngines \ {e} IN
  /\ creating[n].pc = "share"
  /\ \/ /\ n \in cache[e] /\ n \in Global
        /\ cache' = Entry(cache, others, n, TRUE)
        /\ late' = Entry(late, others, n, n \in late[e])
        /\ unheard' = Entry(unheard, others, n, n \in unheard[e])
     \/ /\ n \notin cache[e] \/ n \notin Global
        /\ unheard' = Entry(unheard, others \cap Lacking(n), n, TRUE)
        /\ UNCHANGED <<cache, late>>
  /\ creating' = [creating EXCEPT ![n] = Idle]
  /\ UNCHANGED <<scope, at, ever, told, events, monitor, removing>>
-----------------------------------------------------------------------------
(* Cluster.RemoveNetwork on an entry that deleteNetworks has looked up     *)

StartRemove(n) ==
  /\ removing[n].pc = "off"
  /\ \E e \in NetEngines :
       /\ n \in cache[e]
       /\ removing' = [removing EXCEPT ![n] = [pc |-> "call", engine |-> e, tried |-> {}]]
  /\ UNCHANGED <<scope, at, ever, cache, told, events, monitor, creating, late, unheard>>

\* NetworkRemove at the daemon of e removes the network
RemoveThrough(n, e) ==
  /\ Exists(e, n)
  /\ at' = [at EXCEPT ![n] = Nobody]
  /\ events' = [events EXCEPT ![e] = @ \cup {n}]

\* it does, and the answer says so
Removed(n, e) ==
  /\ RemoveThrough(n, e)
  /\ removing' = [removing EXCEPT ![n].pc = "forget"]
  /\ UNCHANGED unheard

\* the call fails: the daemon has not removed the network, or has and the
\* answer is lost
NotRemoved(n, e) ==
  \/ UNCHANGED <<at, events, unheard>>
  \/ RemoveThrough(n, e) /\ unheard' = Entry(unheard, Showing(n), n, TRUE)

\* the engine of the entry; an error is the answer, and only if the engine
\* cannot be reached is a global network removed through another one
RemoveCall(n) ==
  LET e == removing[n].engine IN
  /\ removing[n].pc = "call"
  /\ \/ Removed(n, e)
     \/ /\ NotRemoved(n, e)
        /\ \/ removing' = [removing EXCEPT ![n] = Resting]
           \/ n \in Global /\ removing' = [removing EXCEPT ![n].pc = "others"]
  /\ UNCHANGED <<scope, ever, cache, told, monitor, creating, late>>

RemoveElsewhere(n) ==
  /\ removing[n].pc = "others"
  /\ \/ \E e \in NetEngines \ removing[n].tried :
          \/ Removed(n, e)
          \/ NotRemoved(n, e) /\ removing' = [removing EXCEPT ![n].tried = @ \cup {e}]
     \/ /\ removing[n].tried = NetEngines
        /\ removing' = [removing EXCEPT ![n] = Resting]
        /\ UNCHANGED <<at, events, unheard>>
  /\ UNCHANGED <<scope, ever, cache, told, monitor, creating, late>>

\* Mutant: a global network is forgotten by the engine that removed it only
RemoveForget_One(n) ==
  LET es == {removing[n].engine} IN
  /\ removing[n].pc = "forget"
  /\ cache' = Entry(cache, es, n, FALSE)
  /\ late' = Entry(late, es, n, FALSE)
  /\ unheard' = Entry(unheard, es, n, FALSE)
  /\ removing' = [removing EXCEPT ![n] = Resting]
  /\ UNCHANGED <<scope, at, ever, told, events, monitor, creating>>

\* DeleteNetwork on the engine of the entry, or on all of them
RemoveForget(n) ==
  LET es == IF n \in Global THEN NetEngines ELSE {removing[n].engine} IN
  /\ removing[n].pc = "forget"
  /\ cache' = Entry(cache, es, n, FALSE)
  /\ late' = Entry(late, es, n, FALSE)
  /\ unheard' = Entry(unheard, es, n, FALSE)
  /\ removing' = [removing EXCEPT ![n] = Resting]
  /\ UNCHANGED <<scope, at, ever, told, events, monitor, creating>>

NetNext ==
  \/ \E e \in NetEngines : RefreshNetworksList(e) \/ RefreshNetworksApply(e)
                        \/ HandleInspect(e) \/ HandleApply(e)
  \/ \E n \in Networks : \E e \in NetEngines : CreateNetwork(n, e)
  \/ \E n \in Networks : CreateInspect(n) \/ CreateApply(n) \/ CreateShare(n)
                         \/ StartRemove(n) \/ RemoveCall(n) \/ RemoveElsewhere(n) \/ RemoveForget(n)

NetSpec == NetInit /\ [][NetNext]_netVars
-----------------------------------------------------------------------------
(* Properties                                                              *)

\* a request is under way that has yet to write this very entry
Underway(e, n) ==
  \/ creating[n].pc \in {"inspect", "apply"}
  \/ creating[n].pc = "share" /\ e # creating[n].engine
  \/ removing[n].pc = "forget" /\ (n \in Global \/ e = removing[n].engine)

\* An engine's list is wrong about a network only for one of three reasons:
\* the answer of the daemon that was written last was already out of date;
\* a daemon's answer to a request was lost, or with it the creator's entry
\* from which CreateNetwork tells the other engines; or a request is about
\* to write the entry.  CreateNetwork and RemoveNetwork, when they are
\* answered, leave all lists right whichever engine carries them out, and
\* no request spoils an entry for another reason.
ListsRight ==
  \A e \in NetEngines, n \in Networks :
    \/ (n \in cache[e]) = Exists(e, n)
    \/ n \in late[e] \/ n \in unheard[e]
    \/ Underway(e, n)
=============================================================================
