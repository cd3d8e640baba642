---------------------------- MODULE MC_Requests ----------------------------
(***************************************************************************)
(* The requests of clients that do not race for the resources of a node:   *)
(* where a container is placed (Placement), what becomes of a request that *)
(* goes to many engines (FanOut), who is on the networks of an engine      *)
(* (NetworkEndpoints), and how events come in from a daemon and go out to  *)
(* clients (EventsMonitor, APIEvents).  These parts share no state, so     *)
(* that one of them moves in a behaviour and the others rest: interleaving *)
(* them would add nothing.                                                 *)
(***************************************************************************)
EXTENDS Placement, FanOut, NetworkEndpoints, EventsMonitor, APIEvents, TLC

VARIABLE part   \* the part that moves

allVars == <<part, placeVars, fanVars, endVars, monVars, evVars>>
-----------------------------------------------------------------------------
(* Placement: two nodes in four states, requests with expressions of every *)
(* kind                                                                    *)

MCNodeLabel ==
  "n1" :> [ostype |-> "linux", zone |-> "a"] @@ "n2" :> [ostype |-> "windows", zone |-> ""]

State(failures, images, containers, cpus, memory) ==
  [failures |-> failures, images |-> images, containers |-> containers,
   cpus |-> cpus, memory |-> memory]
Web == [name |-> "web", labels |-> "tier" :> "db"]
Old == [name |-> "old", labels |-> <<>>]

MCNodeStates ==
  {State(0, {"img"}, {Old}, 1, 3), State(1, {}, {Web, Old}, 0, 0),
   State(0, {}, {Web}, 2, 0), State(FailureRetry, {"img"}, {Web}, 0, 0)}

X(key, operator, vals, isSoft) ==
  [key |-> key, op |-> operator, vals |-> vals, soft |-> isSoft, valid |-> TRUE]
Invalid == [key |-> "?", op |-> "==", vals |-> {}, soft |-> FALSE, valid |-> FALSE]

NoList(form) == [form |-> form, exprs |-> <<>>]
Request(env, labels, network, cpus, memory, deps) ==
  [env |-> env, image |-> "img", network |-> network, bare |-> FALSE, deps |-> deps,
   cpus |-> cpus, memory |-> memory,
   labels |-> [k \in Kinds |-> IF k \in DOMAIN labels THEN labels[k] ELSE NoList("absent")]]
Env(of, value) == [kind |-> of, value |-> value]
Var == Env("variable", "")

MCRequests ==
  {Request(<<Var>>, <<>>, net, size[1], size[2], {}) :
     net \in {None, "n2"}, size \in {<<0, 0>>, <<1, 1>>}}
  \cup
  {Request(<<Env("affinities", a), Var, Env("constraints", b)>>,
           "policies" :> Marshal(<<"on-node-failure">>), None, 1, 2, {}) :
     a \in {X("image", "==", {"img"}, FALSE), X("container", "!=", {"web"}, FALSE),
            X("tier", "==", {"db"}, TRUE)},
     b \in {X("zone", "!=", {"a"}, TRUE), X("node", "==", {"n1"}, FALSE),
            X("ostype", "!=", {}, FALSE)}}
  \cup
  {Request(<<Env("whitelists", X("node", "!=", {"n1"}, FALSE)), Env("policies", "off")>>,
           "affinities" :> NoList("garbage"), "n2", 0, 0, {"web"}),
   Request(<<Env("constraints", X("node", "==", {"n2"}, TRUE)), Var>>, <<>>, "n2", 1, 1, {}),
   Request(<<Env("policies", "off")>>, "policies" :> Marshal(<<"off">>), None, 0, 0, {}),
   Request(<<Env("constraints", Invalid)>>,
           "constraints" :> Marshal(<<X("zone", "==", {"a"}, TRUE)>>), None, 0, 0, {"web"})}
\* FanOut: two images of one engine match
MCMaxMatches == "e1" :> 2 @@ "e2" :> 1
-----------------------------------------------------------------------------
MCInit ==
  /\ part \in {"place", "fan", "ends", "monitor", "events"}
  /\ PlaceInit
  /\ part # "place" =>
       /\ node = [n \in Nodes |-> CHOOSE s \in NodeStates : TRUE]
       /\ strategy = "spread" /\ config = CHOOSE r \in Requests : TRUE
  /\ FanInit
  /\ part # "fan" => \A e \in Engines : ~has[e] /\ ~lists[e]
  /\ EndInit
  /\ MonInit
  /\ EvInit

EndPart(A) == part = "ends" /\ A /\ UNCHANGED <<part, placeVars, fanVars, monVars, evVars>>

MCNext ==
  \/ part = "place" /\ PlaceNext /\ UNCHANGED <<part, fanVars, endVars, monVars, evVars>>
  \/ part = "fan" /\ FanNext /\ UNCHANGED <<part, placeVars, endVars, monVars, evVars>>
  \/ EndPart(EndNext)
  \/ part = "monitor" /\ MonNext /\ UNCHANGED <<part, placeVars, fanVars, endVars, evVars>>
  \/ part = "events" /\ EvNext /\ UNCHANGED <<part, placeVars, fanVars, endVars, monVars>>

\* FanFairness, MonFairness and EvFairness ask nothing of a part that rests, for
\* nothing has arrived; that of NetworkEndpoints is of its part alone
MCSpec ==
  /\ MCInit /\ [][MCNext]_allVars
  /\ FanFairness /\ MonFairness /\ EvFairness
  /\ WF_allVars(EndPart(LoopStep)) /\ WF_allVars(EndPart(RequestStep))
  /\ WF_allVars(EndPart(EventStep))
-----------------------------------------------------------------------------
\* The variables of every part keep their types.
TypesOK ==
  PlaceTypeOK /\ FanTypeOK /\ EndTypeOK /\ MonTypeOK /\ EvTypeOK
=============================================================================
