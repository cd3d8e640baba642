-------------------------- MODULE NetworkEndpoints --------------------------
(***************************************************************************)
(* Which containers the manager shows on the networks of one engine.       *)
(*                                                                         *)
(* The list of networks a daemon sends names no containers, so             *)
(* RefreshNetworks empties all networks and UpdateNetworkContainers fills  *)
(* them again from the containers in the cache: from all of them in the    *)
(* refresh loop, from one of them after a client has connected or          *)
(* disconnected it.  An event about a network makes the engine inspect it, *)
(* and an inspection does name the containers.                             *)
(***************************************************************************)
EXTENDS Integers

CONSTANTS
  Containers, Nets,
  MaxRequests,  \* bound: what clients connect, disconnect, create and remove
  NoAnswer

ASSUME RequestsBound == MaxRequests \in Nat

VARIABLES
  exists,    \* networks of the daemon
  attached,  \* pairs <<container, network>>, at the daemon
  seen,      \* the same in the cached containers (NetworkSettings)
  nets,      \* Engine.networks
  ends,      \* pairs that are shown: the Containers of each of nets
  loop,      \* the refresh loop: its next step, and the list it was sent
  request,   \* a request to connect or disconnect: likewise, and its container
  queue,     \* networks with events
  inspected, \* what refreshNetwork was sent for an event, or NoAnswer
  requests   \* number of requests so far

endVars == <<exists, attached, seen, nets, ends, loop, request, queue, inspected, requests>>

Of(c) == {p \in Containers \X Nets : p[1] = c}
To(n) == {p \in Containers \X Nets : p[2] = n}

EndTypeOK ==
  /\ exists \subseteq Nets /\ nets \subseteq Nets /\ queue \subseteq Nets
  /\ attached \subseteq Containers \X exists
  /\ seen \subseteq Containers \X Nets
  /\ ends \subseteq Containers \X nets
  /\ loop \in [pc : {"containers", "list", "apply", "update"}, list : SUBSET Nets]
  /\ request \in [pc : {"off", "list", "apply", "container", "update"},
                  list : SUBSET Nets, con : Containers \cup {NoAnswer}]
  /\ inspected \in [net : Nets, found : BOOLEAN, ends : SUBSET (Containers \X Nets)] \cup {NoAnswer}
  /\ requests \in 0 .. MaxRequests

Off == [pc |-> "off", list |-> {}, con |-> NoAnswer]

EndInit ==
  /\ exists = Nets /\ nets = Nets
  /\ attached = {} /\ seen = {} /\ ends = {}
  /\ loop = [pc |-> "containers", list |-> {}]
  /\ request = Off
  /\ queue = {} /\ inspected = NoAnswer
  /\ requests = 0
-----------------------------------------------------------------------------
(* Writing the networks                                                    *)

\* RefreshNetworks: the networks that were listed, without containers
SetNetworks(list) == nets' = list /\ ends' = {}

\* UpdateNetworkContainers: the pairs are added one by one, in the order of
\* maps; the first network that is not listed ends it
UpdateNetworkContainers(pairs) ==
  IF pairs \subseteq Containers \X nets
    THEN ends' = ends \cup pairs
    ELSE \E done \in SUBSET (pairs \cap (Containers \X nets)) : ends' = ends \cup done

\* the refresh loop
LoopContainers ==
  /\ loop.pc = "containers"
  /\ seen' = attached
  /\ loop' = [loop EXCEPT !.pc = "list"]
  /\ UNCHANGED <<exists, attached, nets, ends, request, queue, inspected, requests>>

LoopList ==
  /\ loop.pc = "list"
  /\ loop' = [pc |-> "apply", list |-> exists]
  /\ UNCHANGED <<exists, attached, seen, nets, ends, request, queue, inspected, requests>>

LoopApply ==
  /\ loop.pc = "apply"
  /\ SetNetworks(loop.list)
  /\ loop' = [pc |-> "update", list |-> {}]
  /\ UNCHANGED <<exists, attached, seen, request, queue, inspected, requests>>

\* Mutant: like the requests, one container only
LoopUpdate_One ==
  /\ loop.pc = "update"
  /\ \E c \in Containers : UpdateNetworkContainers(seen \cap Of(c))
  /\ loop' = [loop EXCEPT !.pc = "containers"]
  /\ UNCHANGED <<exists, attached, seen, nets, request, queue, inspected, requests>>

LoopUpdate ==
  /\ loop.pc = "update"
  /\ UpdateNetworkContainers(seen)
  /\ loop' = [loop EXCEPT !.pc = "containers"]
  /\ UNCHANGED <<exists, attached, seen, nets, request, queue, inspected, requests>>
-----------------------------------------------------------------------------
(* Requests that connect and disconnect a container: proxyNetworkConnect   *)
(* and its callback, networkDisconnect and Engine.NetworkDisconnect        *)

Ask == requests < MaxRequests /\ requests' = requests + 1

\* the callback runs whatever the daemon has answered
Connect(c, n) ==
  /\ Ask /\ request.pc = "off" /\ n \in nets
  /\ IF n \in exists /\ <<c, n>> \notin attached
     THEN attached' = attached \cup {<<c, n>>} /\ queue' = queue \cup {n}
     ELSE UNCHANGED <<attached, queue>>
  /\ request' = [Off EXCEPT !.pc = "list", !.con = c]
  /\ UNCHANGED <<exists, seen, nets, ends, loop, inspected>>

\* through the engine; or, when it is not reached, by force through a random
\* one, whose lists are refreshed instead
Disconnect(c, n) ==
  /\ Ask /\ request.pc = "off"
  /\ n \in nets /\ <<c, n>> \in attached
  /\ attached' = attached \ {<<c, n>>}
  /\ \/ queue' = queue \cup {n} /\ request' = [Off EXCEPT !.pc = "list", !.con = c]
     \/ UNCHANGED <<queue, request>>
  /\ UNCHANGED <<exists, seen, nets, ends, loop, inspected>>

RequestList ==
  /\ request.pc = "list"
  /\ request' = [request EXCEPT !.pc = "apply", !.list = exists]
  /\ UNCHANGED <<exists, attached, seen, nets, ends, loop, queue, inspected, requests>>

RequestApply ==
  /\ request.pc = "apply"
  /\ SetNetworks(request.list)
  /\ request' = [request EXCEPT !.pc = "container", !.list = {}]
  /\ UNCHANGED <<exists, attached, seen, loop, queue, inspected, requests>>

\* UpdateNetworkContainers(c, true): refreshContainer, then the endpoints of c
RequestContainer ==
  /\ request.pc = "container"
  /\ seen' = (seen \ Of(request.con)) \cup (attached \cap Of(request.con))
  /\ request' = [request EXCEPT !.pc = "update"]
  /\ UNCHANGED <<exists, attached, nets, ends, loop, queue, inspected, requests>>

RequestUpdate ==
  /\ request.pc = "update"
  /\ UpdateNetworkContainers(seen \cap Of(request.con))
  /\ request' = Off
  /\ UNCHANGED <<exists, attached, seen, nets, loop, queue, inspected, requests>>

\* another client of the daemon creates a network or, if nothing is connected
\* to it, removes it
CreateOrRemove(n) ==
  /\ Ask
  /\ \/ n \in exists /\ attached \cap To(n) = {} /\ exists' = exists \ {n}
     \/ n \notin exists /\ exists' = exists \cup {n}
  /\ queue' = queue \cup {n}
  /\ UNCHANGED <<attached, seen, nets, ends, loop, request, inspected>>
-----------------------------------------------------------------------------
(* Events: Engine.handler calls refreshNetwork                             *)

Inspect(n) ==
  /\ n \in queue /\ inspected = NoAnswer
  /\ queue' = queue \ {n}
  /\ inspected' = [net |-> n, found |-> n \in exists, ends |-> attached \cap To(n)]
  /\ UNCHANGED <<exists, attached, seen, nets, ends, loop, request, requests>>

refreshNetwork ==
  /\ inspected # NoAnswer
  /\ nets' = IF inspected.found THEN nets \cup {inspected.net} ELSE nets \ {inspected.net}
  /\ ends' = (ends \ To(inspected.net)) \cup inspected.ends
  /\ inspected' = NoAnswer
  /\ UNCHANGED <<exists, attached, seen, loop, request, queue, requests>>

LoopStep == LoopContainers \/ LoopList \/ LoopApply \/ LoopUpdate
RequestStep == RequestList \/ RequestApply \/ RequestContainer \/ RequestUpdate
EventStep == refreshNetwork \/ \E n \in Nets : Inspect(n)

EndNext ==
  \/ LoopStep \/ RequestStep \/ EventStep
  \/ \E n \in Nets : CreateOrRemove(n) \/ \E c \in Containers : Connect(c, n) \/ Disconnect(c, n)

\* the goroutines of the loop, of a request and of the event monitor run, and
\* the daemon answers
EndSpec ==
  /\ EndInit /\ [][EndNext]_endVars
  /\ WF_endVars(LoopStep) /\ WF_endVars(RequestStep) /\ WF_endVars(EventStep)
-----------------------------------------------------------------------------
(* Properties                                                              *)

\* After every change the networks are shown again, sooner or later, with
\* exactly the containers that are connected to them: what RefreshNetworks
\* of a request has emptied, or an answer that came late has spoilt, a pass
\* of the refresh loop repairs.
EndpointsReturn == []<>(ends = attached /\ nets = exists)
=============================================================================
