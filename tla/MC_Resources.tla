---------------------------- MODULE MC_Resources ----------------------------
(***************************************************************************)
(* What the manager keeps of the resources of the engines: the nodes of    *)
(* sessions and builds (BuildSyncer), the lists of networks (NetworkCache) *)
(* and the lists names are looked up in (Lookups).  These parts share no   *)
(* state, so that one of them moves in a behaviour and the others rest:    *)
(* interleaving them would add nothing.                                    *)
(***************************************************************************)
EXTENDS BuildSyncer, NetworkCache, Lookups, TLC

VARIABLE part   \* the part that moves

allVars == <<part, vars, netVars, lookVars>>

\* Lookups: names with and without a slash, that of an engine in one of them,
\* an alias; fractions of which one is the beginning of another
MCNames == {<<"web">>, <<"/", "web">>, <<"db", "/", "web">>}
MCConNames == {<<"/", "web">>, <<"/", "db">>, <<"/", "db", "/", "web">>}
MCTimes == {<<0, 5, 0>>, <<0, 5, 2>>, <<1, 0, 0>>}

MCInit ==
  /\ part \in {"build", "net", "look"}
  /\ Init
  /\ NetInit
  /\ part # "net" => \A n \in Networks : scope[n] = "local"
  /\ LookInit
  /\ part # "look" => kind = "listing"
  /\ kind = "listing" => \A h \in Hosts : hostName[h] = "web"
  /\ part # "look" => \A x \in there : x.class = "refused" /\ x.created = <<0, 5, 0>>

MCNext ==
  \/ part = "build" /\ Next /\ UNCHANGED <<part, netVars, lookVars>>
  \/ part = "net" /\ NetNext /\ UNCHANGED <<part, vars, lookVars>>
  \/ part = "look" /\ LookNext /\ UNCHANGED <<part, vars, netVars>>

\* the fairness of BuildSyncer asks nothing while it rests, for nothing has
\* arrived
MCSpec == MCInit /\ [][MCNext]_allVars /\ Fairness
=============================================================================
