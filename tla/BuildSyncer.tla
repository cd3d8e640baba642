----------------------------- MODULE BuildSyncer -----------------------------
(***************************************************************************)
(* buildSyncer (cluster/swarm/build.go): how the requests that belong to a *)
(* build find the node it runs on.  A POST /session waits for the node of  *)
(* its session, an upload request or a cancel for that of its build; both  *)
(* may come before the build.  Calls that return at once leave the state   *)
(* as it is (a node that is known, a second wait for a session, a build ID *)
(* that is in use) and are no actions.                                     *)
(***************************************************************************)
EXTENDS Naturals, FiniteSets

CONSTANTS
  Sessions, Builds,   \* IDs that clients send
  Nodes,
  Waiters,            \* goroutines of Session, BuildCancel and upload requests
  None                \* no entry

ASSUME NoneAssumption == None \notin Nodes \cup Sessions \cup Builds
ASSUME WaiterAssumption == IsFiniteSet(Waiters)

VARIABLES
  nodeByBuildID, nodeBySessionID,
  queueSession,   \* the channel of a session: "none", "open" or "closed"
  wokenBy,        \* the build that closed it
  queueBuild,     \* the waitRefCounter of a build; count 0: no entry
  waiting,        \* what a waiter waits for, None when it does not
  phase,          \* a build: "idle", "running", "ended" (its cleanup timer
                  \* is set) or "lost" (startBuild panicked)
  session, node   \* the session of a build and the node it was sent to

vars == <<nodeByBuildID, nodeBySessionID, queueSession, wokenBy, queueBuild,
          waiting, phase, session, node>>

Wait == {<<"session", s>> : s \in Sessions} \cup {<<"build", b>> : b \in Builds}

ASSUME WaitAssumption == None \notin Wait

WaitersFor(x) == {w \in Waiters : waiting[w] = x}

TypeOK ==
  /\ nodeByBuildID \in [Builds -> Nodes \cup {None}]
  /\ nodeBySessionID \in [Sessions -> Nodes \cup {None}]
  /\ queueSession \in [Sessions -> {"none", "open", "closed"}]
  /\ wokenBy \in [Sessions -> Builds \cup {None}]
  /\ queueBuild \in [Builds -> [count : Nat, closed : BOOLEAN]]
  /\ waiting \in [Waiters -> Wait \cup {None}]
  /\ phase \in [Builds -> {"idle", "running", "ended", "lost"}]
  /\ session \in [Builds -> Sessions \cup {None}]
  /\ node \in [Builds -> Nodes \cup {None}]

NoQueue == [count |-> 0, closed |-> FALSE]

Init ==
  /\ nodeByBuildID = [b \in Builds |-> None]
  /\ nodeBySessionID = [s \in Sessions |-> None]
  /\ queueSession = [s \in Sessions |-> "none"]
  /\ wokenBy = [s \in Sessions |-> None]
  /\ queueBuild = [b \in Builds |-> NoQueue]
  /\ waiting = [w \in Waiters |-> None]
  /\ phase = [b \in Builds |-> "idle"]
  /\ session = [b \in Builds |-> None]
  /\ node = [b \in Builds |-> None]

-----------------------------------------------------------------------------
(* waitSessionNode: one waiter per session.                                *)
waitSessionNode(w, s) ==
  /\ waiting[w] = None
  /\ nodeBySessionID[s] = None
  /\ queueSession[s] = "none"
  /\ queueSession' = [queueSession EXCEPT ![s] = "open"]
  /\ waiting' = [waiting EXCEPT ![w] = <<"session", s>>]
  /\ UNCHANGED <<nodeByBuildID, nodeBySessionID, wokenBy, queueBuild, phase,
                 session, node>>

(* The end of a wait, by its timeout or by the channel being closed, with  *)
(* the deferred cleanup of the queue.                                      *)
LeaveSession(w, s) ==
  /\ waiting[w] = <<"session", s>>
  /\ queueSession' = [queueSession EXCEPT ![s] = "none"]
  /\ wokenBy' = [wokenBy EXCEPT ![s] = None]
  /\ waiting' = [waiting EXCEPT ![w] = None]
  /\ UNCHANGED <<nodeByBuildID, nodeBySessionID, queueBuild, phase, session, node>>

(* waitBuildNode: any number of waiters share a channel.  An entry is in   *)
(* the map as long as somebody waits, so that the entry's ID stands for it.*)
waitBuildNode(w, b) ==
  /\ waiting[w] = None
  /\ nodeByBuildID[b] = None
  /\ queueBuild' = [queueBuild EXCEPT ![b].count = @ + 1]
  /\ waiting' = [waiting EXCEPT ![w] = <<"build", b>>]
  /\ UNCHANGED <<nodeByBuildID, nodeBySessionID, queueSession, wokenBy, phase,
                 session, node>>

Release_Always(q) == NoQueue

Release(q) ==
  IF q.count = 1 THEN NoQueue ELSE [count |-> q.count - 1, closed |-> q.closed]

LeaveBuild(w, b) ==
  /\ waiting[w] = <<"build", b>>
  /\ queueBuild' = [queueBuild EXCEPT ![b] = Release(queueBuild[b])]
  /\ waiting' = [waiting EXCEPT ![w] = None]
  /\ UNCHANGED <<nodeByBuildID, nodeBySessionID, queueSession, wokenBy, phase,
                 session, node>>

-----------------------------------------------------------------------------
(* startBuild with the node that the scheduler chose.  A node known under  *)
(* the build's ID as a session takes its place; otherwise the session gets *)
(* the node, in place of any it had.  Closing the channel of a session     *)
(* that another build closed is a panic, which net/http keeps to the       *)
(* request: the entries stay and no cleanup is ever set up.                *)
SignalBuild_Never(b) == UNCHANGED queueBuild

SignalBuild(b) ==
  queueBuild' = [queueBuild EXCEPT ![b].closed = queueBuild[b].count > 0]

SignalSession(s, b) ==
  IF queueSession[s] = "open"
  THEN /\ queueSession' = [queueSession EXCEPT ![s] = "closed"]
       /\ wokenBy' = [wokenBy EXCEPT ![s] = b]
  ELSE UNCHANGED <<queueSession, wokenBy>>

startBuild(s, b, n) ==
  LET known == b \in Sessions /\ nodeBySessionID[b] # None
      m == IF known THEN nodeBySessionID[b] ELSE n
  IN
  /\ nodeByBuildID[b] = None
  /\ nodeBySessionID' = IF known THEN nodeBySessionID
                        ELSE [nodeBySessionID EXCEPT ![s] = n]
  /\ nodeByBuildID' = [nodeByBuildID EXCEPT ![b] = m]
  /\ SignalBuild(b)
  /\ SignalSession(s, b)
  /\ phase' = [phase EXCEPT ![b] = IF queueSession[s] = "closed" THEN "lost"
                                                                 ELSE "running"]
  /\ session' = [session EXCEPT ![b] = s]
  /\ node' = [node EXCEPT ![b] = m]
  /\ UNCHANGED waiting

(* BuildImage returns: the deferred cleanup sets the timer.                *)
EndBuild(b) ==
  /\ phase[b] = "running"
  /\ phase' = [phase EXCEPT ![b] = "ended"]
  /\ UNCHANGED <<nodeByBuildID, nodeBySessionID, queueSession, wokenBy,
                 queueBuild, waiting, session, node>>

(* The timer fires, cleanupDelay (an hour) later: the waits that the start *)
(* of the build ended, of five seconds at most, are over.                  *)
WaitsOver(b) ==
  /\ queueBuild[b].count = 0
  /\ wokenBy[session[b]] # b

Forget_BuildOnly(b) ==
  /\ nodeByBuildID' = [nodeByBuildID EXCEPT ![b] = None]
  /\ UNCHANGED nodeBySessionID

Forget(b) ==
  /\ nodeBySessionID' = [nodeBySessionID EXCEPT ![session[b]] = None]
  /\ nodeByBuildID' = [nodeByBuildID EXCEPT ![b] = None]

Cleanup_FromStart(b) ==
  /\ phase[b] = "running"
  /\ WaitsOver(b)
  /\ Forget(b)
  /\ UNCHANGED <<queueSession, wokenBy, queueBuild, waiting, phase, session, node>>

Cleanup(b) ==
  /\ phase[b] = "ended"
  /\ WaitsOver(b)
  /\ Forget(b)
  /\ phase' = [phase EXCEPT ![b] = "idle"]
  /\ session' = [session EXCEPT ![b] = None]
  /\ node' = [node EXCEPT ![b] = None]
  /\ UNCHANGED <<queueSession, wokenBy, queueBuild, waiting>>

Leave(w) ==
  \/ \E s \in Sessions : LeaveSession(w, s)
  \/ \E b \in Builds : LeaveBuild(w, b)

Next ==
  \/ \E w \in Waiters : \/ \E s \in Sessions : waitSessionNode(w, s)
                        \/ \E b \in Builds : waitBuildNode(w, b)
                        \/ Leave(w)
  \/ \E s \in Sessions, b \in Builds, n \in Nodes : startBuild(s, b, n)
  \/ \E b \in Builds : EndBuild(b) \/ Cleanup(b)

Spec == Init /\ [][Next]_vars

(* Every wait has a timeout, every build ends, every timer fires.          *)
Fairness ==
  /\ \A w \in Waiters : WF_vars(Leave(w))
  /\ \A b \in Builds : WF_vars(EndBuild(b)) /\ WF_vars(Cleanup(b))

FairSpec == Spec /\ Fairness
-----------------------------------------------------------------------------
(* No wake-up is lost and none is spurious: while somebody waits for a     *)
(* build, its channel is closed exactly when its node is known, although   *)
(* waitBuildNode sleeps without the lock and startBuild sees only the      *)
(* channel of those that came before it.                                   *)
BuildSignal ==
  \A b \in Builds :
    queueBuild[b].count > 0 => (queueBuild[b].closed <=> nodeByBuildID[b] # None)

(* A session that waits on an open channel has no node yet: waitSessionNode*)
(* never sleeps through a startBuild.                                      *)
SessionSignal ==
  \A s \in Sessions : queueSession[s] = "open" => nodeBySessionID[s] = None

(* No wake-up is lost: both of the above.                                  *)
SignalsArrive == BuildSignal /\ SessionSignal

(* The reference count of a waitRefCounter is the number of goroutines     *)
(* that wait, so that the one that deletes the entry is the last one, and  *)
(* a session has at most one.                                              *)
WaitersCounted ==
  /\ \A b \in Builds : queueBuild[b].count = Cardinality(WaitersFor(<<"build", b>>))
  /\ \A s \in Sessions :
       Cardinality(WaitersFor(<<"session", s>>)) = IF queueSession[s] = "none" THEN 0 ELSE 1

(* A build that runs is found under its ID, on the node it runs on, for as *)
(* long as it runs: the cleanup of an earlier build with the same ID does  *)
(* not take it away.                                                       *)
RunningBuildFound ==
  \A b \in Builds : phase[b] = "running" =>
    node[b] # None /\ nodeByBuildID[b] = node[b]

(* When no more builds come, the syncer forgets all sessions and builds,   *)
(* except those that a panic of startBuild left behind.                    *)
EverythingForgotten ==
  <>[][\A b \in Builds : phase[b] = "idle" => phase'[b] = "idle"]_vars =>
    <>[](\/ \E b \in Builds : phase[b] = "lost"
         \/ /\ \A b \in Builds : nodeByBuildID[b] = None
            /\ \A s \in Sessions : nodeBySessionID[s] = None)
=============================================================================
