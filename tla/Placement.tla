----------------------------- MODULE Placement -----------------------------
(***************************************************************************)
(* How a request to create a container finds its node: the configuration   *)
(* built from labels and environment (cluster/config.go), the filters for  *)
(* health, dependencies, affinities, constraints and whitelists            *)
(* (scheduler/filter), the strategies (scheduler/strategy) and the         *)
(* attempts of Cluster.CreateContainer, which add expressions of their own *)
(* and take some back.  Ports, slots, names and reservations of concurrent *)
(* requests are in ContainerCreation; this module follows one request.     *)
(*                                                                         *)
(* An expression is a record: its key, operator and softness, the strings  *)
(* its glob or regular expression matches (none if it does not compile),   *)
(* and whether parseExprs accepts it.                                      *)
(***************************************************************************)
EXTENDS Integers, FiniteSets, Sequences

CONSTANTS
  Nodes,         \* the nodes, named by their engine's name
  NodeLabel,     \* NodeLabel[n][key], "" where the node has no such label
  NodeStates,    \* the states a node may be in
  Requests,      \* what clients send
  OSTypes,       \* operating systems
  TotalCpus, TotalMemory,    \* of every node
  FailureRetry,  \* failures after which an engine is unhealthy
  CreateRetry,   \* the option swarm.createretry
  None, Nowhere

ASSUME FailureRetryAssumption == FailureRetry \in Nat \ {0}
ASSUME CreateRetryAssumption == CreateRetry \in Nat

Kinds == {"affinities", "constraints", "whitelists", "policies"}

\* as in SequencesExt, whose many other definitions the provers would carry
\* through every step
Elements(s) == {s[i] : i \in DOMAIN s}
StartsWith(s, t) == Len(s) <= Len(t) /\ SubSeq(s, 1, Len(s)) = SubSeq(t, 1, Len(s))

IsSeq(s) == Len(s) \in Nat /\ s = [i \in 1..Len(s) |-> s[i]]

\* the fields of a ContainerConfig that matter here; bare is set once its
\* network has been resolved
IsConfig(c) ==
  /\ c = [env |-> c.env, labels |-> c.labels, image |-> c.image, network |-> c.network,
          bare |-> c.bare, deps |-> c.deps, cpus |-> c.cpus, memory |-> c.memory]
  /\ c.labels = [k \in Kinds |->
                   [form |-> c.labels[k].form, exprs |-> c.labels[k].exprs]]
  /\ IsSeq(c.env) /\ \A k \in Kinds : IsSeq(c.labels[k].exprs)

ASSUME RequestsAssumption ==
  \A c \in Requests : IsConfig(c) /\ c.cpus \in Int /\ c.memory \in Int
ASSUME NodesAssumption ==
  /\ IsFiniteSet(Nodes) /\ TotalCpus \in Nat \ {0} /\ TotalMemory \in Nat \ {0}
  /\ \A s \in NodeStates : /\ s.failures \in Nat /\ s.cpus \in Nat /\ s.memory \in Nat
                           /\ IsFiniteSet(s.containers)
ASSUME PlaceAssumption == None \notin Nodes /\ Nowhere \notin Nodes \cup {None}

VARIABLES
  node,       \* the nodes: failures, images, containers, used cpus and memory
  strategy,   \* the flag --strategy
  config,     \* the ContainerConfig of the request
  user,       \* history: config as the client meant it
  attempt,    \* the attempt of CreateContainer that is next or under way
  retries,    \* its counter
  chosen,     \* the node of the attempt, None before, Nowhere if there is none
  soft,       \* history: the node was chosen with soft expressions
  stored      \* the configuration read back from the daemon

placeVars == <<node, strategy, config, user, attempt, retries, chosen, soft, stored>>
-----------------------------------------------------------------------------
(* Configurations.  A label is a JSON list of expressions, or it is absent *)
(* or no such list.                                                        *)

Marshal(exprs) == [form |-> "list", exprs |-> exprs]
extractExprs(label) == IF label.form = "list" THEN label.exprs ELSE <<>>

\* the loops that append what they keep: the entries of s at some indices
Pick(s, indices) ==
  LET upTo[i \in 0..Len(s)] ==
        IF i = 0 THEN <<>>
        ELSE IF i \in indices THEN Append(upTo[i - 1], s[i]) ELSE upTo[i - 1]
  IN upTo[Len(s)]

\* what parseEnv finds: the entries of a kind, without their prefix
OfKind(env, kind) ==
  LET these == Pick(env, {i \in DOMAIN env : env[i].kind = kind})
  IN [i \in DOMAIN these |-> these[i].value]

\* the labels of the configuration c with what its environment says
MovedToLabels(c) ==
  [k \in Kinds |->
     LET all == extractExprs(c.labels[k]) \o OfKind(c.env, k)
     IN IF all = <<>> THEN c.labels[k] ELSE Marshal(all)]

\* Mutant: what has moved to the labels is still in the environment
BuildContainerConfig_KeepEnv(c) == [c EXCEPT !.labels = MovedToLabels(c)]

BuildContainerConfig(c) ==
  LET moved == [c EXCEPT !.labels = MovedToLabels(c)]
  IN [moved EXCEPT !.env = Pick(c.env, {i \in DOMAIN c.env : c.env[i].kind \notin Kinds})]

Exprs(c, kind) == extractExprs(c.labels[kind])
SetExprs(c, kind, exprs) ==
  [c EXCEPT !.labels = [@ EXCEPT ![kind] = Marshal(exprs)]]

AddConstraint(c, x) == SetExprs(c, "constraints", Append(Exprs(c, "constraints"), x))
AddAffinity(c, x) == SetExprs(c, "affinities", Append(Exprs(c, "affinities"), x))
RemoveAffinity(c, x) ==
  LET affinities == Exprs(c, "affinities")
  IN SetExprs(c, "affinities",
              Pick(affinities, {i \in DOMAIN affinities : affinities[i] # x}))

HaveNodeConstraint(c) ==
  \E x \in Elements(Exprs(c, "constraints")) : x.key = "node" /\ x.op = "==" /\ ~x.soft

Validate(c) ==
  LET policies == Exprs(c, "policies")
  IN Len(policies) = 0 \/ (Len(policies) = 1 /\ policies[1] \in {"off", "on-node-failure"})

Equal(key, vals, isSoft) ==
  [key |-> key, op |-> "==", vals |-> vals, soft |-> isSoft, valid |-> TRUE]
-----------------------------------------------------------------------------
(* Filters.  An error and an empty list mean the same to their caller.     *)

\* one invalid expression makes all of them invalid
parseExprs(exprs) == \A x \in Elements(exprs) : x.valid

Match(x, whats) == (x.op = "==") <=> (x.vals \cap whats # {})

AffinityMatch(n, x) ==
  LET containers == node[n].containers IN
  Match(x, CASE x.key = "container" -> {c.name : c \in containers}
             [] x.key = "image" -> node[n].images
             [] OTHER -> {IF x.key \in DOMAIN c.labels THEN c.labels[x.key] ELSE ""
                            : c \in containers})

ConstraintMatch(n, x) ==
  Match(x, IF x.key = "node" THEN {n} ELSE {NodeLabel[n][x.key]})

\* whatever the key and the operator
WhitelistMatch(n, x) == n \in x.vals

\* the loop over the expressions, each of which leaves the nodes it matches
ExprFilter(c, kindOf, ns, isSoft) ==
  LET exprs == Exprs(c, kindOf)
      Matches(n, x) == CASE kindOf = "affinities" -> AffinityMatch(n, x)
                         [] kindOf = "constraints" -> ConstraintMatch(n, x)
                         [] kindOf = "whitelists" -> WhitelistMatch(n, x)
  IN IF ~parseExprs(exprs) THEN {}
     ELSE {n \in ns : \A x \in Elements(exprs) : (x.soft /\ ~isSoft) \/ Matches(n, x)}

HealthIndicator(n) ==
  IF node[n].failures >= FailureRetry THEN 0
  ELSE 100 - (node[n].failures * 100) \div FailureRetry

HealthFilter(ns) == {n \in ns : HealthIndicator(n) > 0}

DependencyFilter(c, ns) ==
  {n \in ns : c.deps \subseteq {d.name : d \in node[n].containers}}

AffinityFilter(c, ns, isSoft) ==
  ExprFilter(c, "affinities", ns, isSoft)

\* Mutant: a filter that would leave no node is skipped
ConstraintFilter_Skip(c, ns, isSoft) ==
  LET left == ExprFilter(c, "constraints", ns, isSoft)
  IN IF left = {} THEN ns ELSE left

ConstraintFilter(c, ns, isSoft) ==
  ExprFilter(c, "constraints", ns, isSoft)

WhitelistFilter(c, ns, isSoft) ==
  ExprFilter(c, "whitelists", ns, isSoft)

ApplyFilters(c, isSoft) ==
  LET independent == DependencyFilter(c, HealthFilter(Nodes))
      affine == AffinityFilter(c, independent, isSoft)
  IN WhitelistFilter(c, ConstraintFilter(c, affine, isSoft), isSoft)
-----------------------------------------------------------------------------
(* Strategies.  Only the first node of the sorted list is used; among      *)
(* equals it may be any.                                                   *)

Score(wanted, used, total) ==
  IF wanted > 0 THEN ((used + wanted) * 100) \div total ELSE 100

Fits(c, n) ==
  /\ c.memory <= TotalMemory /\ c.cpus <= TotalCpus
  /\ Score(c.cpus, node[n].cpus, TotalCpus) <= 100
  /\ Score(c.memory, node[n].memory, TotalMemory) <= 100

\* Mutant: the factor is too small for the health to decide
Weight_Factor1(c, n, sign) ==
  Score(c.cpus, node[n].cpus, TotalCpus)
  + Score(c.memory, node[n].memory, TotalMemory) + sign * HealthIndicator(n)

Weight(c, n, sign) ==
  Score(c.cpus, node[n].cpus, TotalCpus)
  + Score(c.memory, node[n].memory, TotalMemory)
  + sign * 10 * HealthIndicator(n)

\* weighNodes, and the order of weightedNodeList
Before(c, m, n, sign) ==
  \/ Weight(c, m, sign) < Weight(c, n, sign)
  \/ /\ Weight(c, m, sign) = Weight(c, n, sign)
     /\ Cardinality(node[m].containers) < Cardinality(node[n].containers)

Spread(c, ns) ==
  LET fit == {n \in ns : Fits(c, n)}
  IN {n \in fit : \A m \in fit : ~Before(c, m, n, -1)}

Binpack(c, ns) ==
  LET fit == {n \in ns : Fits(c, n)}
  IN {n \in fit : \A m \in fit : ~Before(c, n, m, 1)}

First(c, ns) ==
  CASE strategy = "spread" -> Spread(c, ns)
    [] strategy = "binpack" -> Binpack(c, ns)
    [] strategy = "random" -> ns
-----------------------------------------------------------------------------
(* The attempts of CreateContainer.                                        *)

PlaceInit ==
  /\ node \in [Nodes -> NodeStates]
  /\ strategy \in {"spread", "binpack", "random"}
  /\ config \in Requests /\ user = config
  /\ attempt = "request" /\ retries = 0
  /\ chosen = None /\ soft = FALSE /\ stored = None

\* engines fail and recover, images and containers come and go; between two
\* attempts, for nobody looks at them while an attempt is under way
NodeChanges(n) ==
  /\ chosen = None /\ attempt \notin {"request", "end"}
  /\ \E s \in NodeStates : node' = [node EXCEPT ![n] = s]
  /\ UNCHANGED <<strategy, config, user, attempt, retries, chosen, soft, stored>>

\* the configuration part of postContainersCreate
postContainersCreate ==
  /\ attempt = "request"
  /\ config' = BuildContainerConfig(config)
  /\ user' = config'
  /\ attempt' = IF Validate(config') THEN "ostype" ELSE "end"
  /\ UNCHANGED <<node, strategy, retries, chosen, soft, stored>>

GetImagePlatforms == SUBSET OSTypes

\* an engine asks the registry for the image's platforms, or fails; an
\* empty answer sets nothing either
setOSTypeConstraint ==
  /\ attempt = "ostype"
  /\ attempt' = "first"
  /\ \/ UNCHANGED config
     \/ /\ \A x \in Elements(Exprs(config, "constraints")) : x.key # "ostype"
        /\ \E platforms \in GetImagePlatforms \ {{}} :
             config' = AddConstraint(config, Equal("ostype", platforms, FALSE))
  /\ UNCHANGED <<node, strategy, user, retries, chosen, soft, stored>>

ImageAffinity(c) == Equal("image", {c.image}, FALSE)

\* a network that is local to an engine draws the container there; from the
\* second attempt on its bare name is looked up, and may be found again
WithNetwork(c) ==
  IF c.network = None THEN {c}
  ELSE LET found == IF HaveNodeConstraint(c) THEN c
                    ELSE AddConstraint(c, Equal("node", {c.network}, TRUE))
       IN {[found EXCEPT !.bare = TRUE]} \cup (IF c.bare THEN {c} ELSE {})

SelectNodesForContainer(c) ==
  LET withSoft == First(c, ApplyFilters(c, TRUE))
  IN IF withSoft # {} THEN [nodes |-> withSoft, soft |-> TRUE]
     ELSE [nodes |-> First(c, ApplyFilters(c, FALSE)), soft |-> FALSE]

\* createContainer up to its call of the engine
createContainer ==
  /\ attempt \in {"first", "os", "image", "loop"} /\ chosen = None
  /\ \E c \in WithNetwork(config) :
       LET withImage == IF attempt = "image" THEN AddAffinity(c, ImageAffinity(c)) ELSE c
           selected == SelectNodesForContainer(withImage)
       IN /\ config' = IF attempt = "image"
                       THEN RemoveAffinity(withImage, ImageAffinity(c)) ELSE c
          /\ chosen' \in IF selected.nodes = {} THEN {Nowhere} ELSE selected.nodes
          /\ soft' = selected.soft
  /\ UNCHANGED <<node, strategy, user, attempt, retries, stored>>

\* the engine creates it, and its refresh reads the configuration back
Created ==
  /\ chosen \in Nodes
  /\ stored' = BuildContainerConfig(config)
  /\ attempt' = "end" /\ chosen' = None
  /\ UNCHANGED <<node, strategy, config, user, retries, soft>>

\* the error of an attempt: of the selection, or of the engine, which may
\* say that the image is not found or is for another operating system
Errors == {"other", "not found"} \cup OSTypes

\* Mutant: again and again
RetryImage_Again(e) ==
  /\ e = "not found"
  /\ ~HaveNodeConstraint(config)
  /\ \E n \in Nodes : config.image \in node[n].images

RetryImage(e) ==
  /\ attempt \in {"first", "os"} /\ e = "not found"
  /\ ~HaveNodeConstraint(config)
  /\ \E n \in Nodes : config.image \in node[n].images

\* how CreateContainer goes on after an error
Failed ==
  /\ chosen # None /\ chosen' = None
  /\ \E e \in IF chosen = Nowhere THEN {"other"} ELSE Errors :
       IF attempt = "first" /\ e \in OSTypes
       THEN /\ config' = AddConstraint(config, Equal("ostype", {e}, FALSE))
            /\ attempt' = "os"
            /\ UNCHANGED retries
       ELSE /\ UNCHANGED config
            /\ retries' = IF attempt = "first" THEN retries ELSE retries + 1
            /\ attempt' = IF RetryImage(e) THEN "image"
                          ELSE IF retries' < CreateRetry THEN "loop" ELSE "end"
  /\ UNCHANGED <<node, strategy, user, soft, stored>>

PlaceNext ==
  \/ \E n \in Nodes : NodeChanges(n)
  \/ postContainersCreate \/ setOSTypeConstraint
  \/ createContainer \/ Created \/ Failed

PlaceSpec == PlaceInit /\ [][PlaceNext]_placeVars
-----------------------------------------------------------------------------
PlaceTypeOK ==
  /\ node \in [Nodes -> NodeStates]
  /\ attempt \in {"request", "ostype", "first", "os", "image", "loop", "end"}
  /\ retries \in 0..(CreateRetry + 2)
  /\ chosen \in Nodes \cup {None, Nowhere}
  /\ soft \in BOOLEAN
  /\ \A c \in {config, user} : DOMAIN c.labels = Kinds

Hard(exprs) == {x \in Elements(exprs) : ~x.soft}

\* the configuration that the selection of this attempt has seen
Seen == IF attempt = "image" THEN AddAffinity(config, ImageAffinity(config)) ELSE config

\* n is healthy, has what c depends on and satisfies the expressions xs
Meets(n, c, Of(_)) ==
  /\ HealthIndicator(n) > 0
  /\ c.deps \subseteq {d.name : d \in node[n].containers}
  /\ \A x \in Of(Exprs(c, "affinities")) : x.valid /\ AffinityMatch(n, x)
  /\ \A x \in Of(Exprs(c, "constraints")) : x.valid /\ ConstraintMatch(n, x)
  /\ \A x \in Of(Exprs(c, "whitelists")) : x.valid /\ WhitelistMatch(n, x)
  /\ strategy = "random" \/ Fits(c, n)

\* In every attempt of a request the chosen node is healthy, large enough
\* (but for the strategy random) and satisfies every hard expression the
\* client gave, whatever CreateContainer has added and taken back before.
\* The exception is an affinity to the image itself: RemoveAffinity takes
\* the client's entry away with its own.
HardMet ==
  chosen \in Nodes =>
    Meets(chosen, user, LAMBDA xs : Hard(xs) \ {ImageAffinity(user)})

\* Soft expressions are a preference: when a node satisfies all of them the
\* chosen one does, and only when none satisfies the hard ones is there no
\* node.
SoftPreferred ==
  LET best == {n \in Nodes : Meets(n, Seen, Elements)} IN
  /\ chosen \in Nodes /\ best # {} => chosen \in best
  /\ chosen = Nowhere /\ (\A k \in Kinds \ {"policies"} :
                             \A x \in Elements(Exprs(Seen, k)) : x.valid)
       => \A n \in Nodes : ~Meets(n, Seen, Hard)

\* "to make health degree [0, 100] overpower cpu + memory": spread and
\* binpack never prefer a node that has failed lately to one that has failed
\* less, however they are loaded.
HealthOverpowers ==
  chosen \in Nodes /\ strategy # "random" =>
    \A n \in Nodes :
      Meets(n, Seen, LAMBDA xs : IF soft THEN Elements(xs) ELSE Hard(xs)) =>
        HealthIndicator(n) <= HealthIndicator(chosen)

\* The scheduler chooses well among the nodes it may choose: the expressions
\* that are a preference first, then the health of the node.
BestChosen == SoftPreferred /\ HealthOverpowers

\* what CreateContainer adds to the constraints of the client u: one on the
\* operating system, or a soft one on the engine of the network, if the client
\* names no node itself
Added(x, u) ==
  \/ \E vals \in SUBSET OSTypes : x = Equal("ostype", vals, FALSE)
  \/ /\ u.network # None /\ ~HaveNodeConstraint(u)
     /\ x = Equal("node", {u.network}, TRUE)

LabelsKept ==
  stored # None =>
    LET mine == Exprs(user, "constraints")
        kept == Exprs(stored, "constraints")
    IN /\ Exprs(stored, "policies") = Exprs(user, "policies")
       /\ Exprs(stored, "whitelists") = Exprs(user, "whitelists")
       /\ Exprs(stored, "affinities")
            \in {Exprs(user, "affinities"),
                 Exprs(RemoveAffinity(user, ImageAffinity(user)), "affinities")}
       /\ StartsWith(mine, kept)
       /\ \A i \in (Len(mine) + 1)..Len(kept) : Added(kept[i], user)

FewAdded ==
  stored # None =>
    Len(Exprs(stored, "constraints")) <= Len(Exprs(user, "constraints")) + 2 + (retries + 2)

\* The expressions and the reschedule policy survive in the labels of the
\* container.  What a manager reads back, this one or the next leader, begins
\* with the constraints of the client, and only what CreateContainer has added
\* follows; the other kinds are as the client gave them, but for an affinity
\* to the image.  The soft constraint on the network's engine does not count
\* as one on the node, so that each of the attempts, at most retries + 2, may
\* add it again; the operating system comes at most twice.
ConfigSurvives == LabelsKept /\ FewAdded
=============================================================================
