---------------------------- MODULE Replication ----------------------------
(***************************************************************************)
(* Several managers of one cluster (swarm manage --replication).  Each one *)
(* campaigns for a lock in the key-value store and follows who holds it.   *)
(* The leader answers requests and has a watchdog registered; a replica    *)
(* forwards requests to the primary it has heard of, and lets them wait    *)
(* while it has heard of none.                                             *)
(*                                                                         *)
(* Goroutines of a manager: main (setup), candidate.campaign (campaign)    *)
(* and the loop of run (runLoop), which meet on the unbuffered channels    *)
(* electedCh and errCh; follower.follow and the loop of follow, which meet *)
(* on leaderCh; one per request.                                           *)
(***************************************************************************)
EXTENDS Integers

CONSTANTS Managers,     \* the managers, named by their advertised address
          Requests,     \* HTTP requests, but /_ping, /info and /debug, which a
                        \* replica answers itself
          MaxCrashes,   \* bound on crashes of managers
          None          \* the empty address, nobody

VARIABLES
  store,      \* the manager whose lock the store holds
  setup,      \* "down", "starting" (before line 165 of manage.go), "done"
  campaign,   \* where candidate.campaign is; "lost" and "won" are its sends
  runLoop,    \* "idle" in select; "elected", "lost": before SetHandler
  watchdog,   \* the local variable of run refers to a registered watchdog
  orphans,    \* number of registered watchdogs that nobody refers to
  handler,    \* dispatcher.handler
  seen,       \* follower.leader
  primary,    \* Replica.primary
  req,        \* the requests: where they are and at which manager
  cancelled,  \* requests whose context is cancelled
  crashes

election == <<store, campaign, runLoop, watchdog, orphans>>
follower == <<seen, primary>>
serving == <<req, cancelled>>
vars == <<election, follower, serving, setup, handler, crashes>>

Idle == [pc |-> "idle", at |-> None]
Done == [pc |-> "done", at |-> None]
At(m, pc) == [pc |-> pc, at |-> m]

Init ==
  /\ store = None
  /\ setup = [m \in Managers |-> "down"]
  /\ campaign = [m \in Managers |-> "off"]
  /\ runLoop = [m \in Managers |-> "idle"]
  /\ watchdog = [m \in Managers |-> FALSE]
  /\ orphans = [m \in Managers |-> 0]
  /\ handler = [m \in Managers |-> "none"]
  /\ seen = [m \in Managers |-> None]
  /\ primary = [m \in Managers |-> None]
  /\ req = [r \in Requests |-> Idle]
  /\ cancelled = {}
  /\ crashes = 0
-----------------------------------------------------------------------------
(* Start and end of a manager.                                             *)

\* setupReplication up to line 164: both loops run, the handler is not set
setupReplication(m) ==
  /\ setup[m] = "down"
  /\ setup' = [setup EXCEPT ![m] = "starting"]
  /\ campaign' = [campaign EXCEPT ![m] = "lost"]
  /\ UNCHANGED <<store, runLoop, watchdog, orphans, handler, follower,
                 serving, crashes>>

\* its last line, which races with run; then the server listens
SetHandlerLast(m) ==
  /\ setup[m] = "starting"
  /\ setup' = [setup EXCEPT ![m] = "done"]
  /\ handler' = [handler EXCEPT ![m] = "primary"]
  /\ UNCHANGED <<election, follower, serving, crashes>>

\* the process ends; what it held in memory and its connections are gone,
\* its lock stays in the store until it expires
Crash(m) ==
  /\ setup[m] # "down" /\ crashes < MaxCrashes
  /\ crashes' = crashes + 1
  /\ setup' = [setup EXCEPT ![m] = "down"]
  /\ campaign' = [campaign EXCEPT ![m] = "off"]
  /\ runLoop' = [runLoop EXCEPT ![m] = "idle"]
  /\ watchdog' = [watchdog EXCEPT ![m] = FALSE]
  /\ orphans' = [orphans EXCEPT ![m] = 0]
  /\ handler' = [handler EXCEPT ![m] = "none"]
  /\ seen' = [seen EXCEPT ![m] = None]
  /\ primary' = [primary EXCEPT ![m] = None]
  /\ req' = [r \in Requests |-> IF req[r].at = m THEN Done ELSE req[r]]
  /\ UNCHANGED <<store, cancelled>>
-----------------------------------------------------------------------------
(* The campaign: Candidate.campaign and the loop of run.                   *)

\* the store's session of the holder ends, noticed by the holder or not
Expire ==
  /\ store # None
  /\ store' = None
  /\ UNCHANGED <<campaign, runLoop, watchdog, orphans, follower, serving,
                 setup, handler, crashes>>

Move(m, from, to) ==
  /\ campaign[m] = from
  /\ campaign' = [campaign EXCEPT ![m] = to]

Lock(m) ==
  /\ Move(m, "locking", "won")
  /\ store = None
  /\ store' = m
  /\ UNCHANGED <<runLoop, watchdog, orphans, follower, serving, setup,
                 handler, crashes>>

LoseLock(m) ==
  /\ Move(m, "leading", "lost")
  /\ store # m
  /\ UNCHANGED <<store, runLoop, watchdog, orphans, follower, serving, setup,
                 handler, crashes>>

\* NewWatchdog always registers: the handler is a new pointer
NewWatchdog(m) ==
  /\ watchdog' = [watchdog EXCEPT ![m] = TRUE]
  /\ orphans' = IF watchdog[m] THEN [orphans EXCEPT ![m] = @ + 1] ELSE orphans

runElected(m) ==
  /\ runLoop[m] = "idle"
  /\ Move(m, "won", "leading")
  /\ NewWatchdog(m)
  /\ runLoop' = [runLoop EXCEPT ![m] = "elected"]
  /\ UNCHANGED <<store, follower, serving, setup, handler, crashes>>

\* Mutant: the watchdog stays registered
UnregisterEventHandler_Not(m) == UNCHANGED <<watchdog, orphans>>

\* of the run's own watchdog, or of a nil one, which changes nothing
UnregisterEventHandler(m) ==
  /\ watchdog' = [watchdog EXCEPT ![m] = FALSE]
  /\ UNCHANGED orphans

runLost(m) ==
  /\ runLoop[m] = "idle"
  /\ Move(m, "lost", "locking")
  /\ UnregisterEventHandler(m)
  /\ runLoop' = [runLoop EXCEPT ![m] = "lost"]
  /\ UNCHANGED <<store, follower, serving, setup, handler, crashes>>

\* the lock cannot be had: campaign sends the error and ends; run returns
\* without unregistering and is called again after a pause
runError(m) ==
  /\ runLoop[m] = "idle"
  /\ Move(m, "locking", "lost")
  /\ watchdog' = [watchdog EXCEPT ![m] = FALSE]
  /\ orphans' = IF watchdog[m] THEN [orphans EXCEPT ![m] = @ + 1] ELSE orphans
  /\ UNCHANGED <<store, runLoop, follower, serving, setup, handler, crashes>>

\* Mutant: the winner keeps forwarding
runSetHandler_Replica(m) ==
  /\ runLoop[m] # "idle"
  /\ handler' = [handler EXCEPT ![m] = "replica"]
  /\ runLoop' = [runLoop EXCEPT ![m] = "idle"]
  /\ UNCHANGED <<store, campaign, watchdog, orphans, follower, serving,
                 setup, crashes>>

runSetHandler(m) ==
  /\ runLoop[m] # "idle"
  /\ handler' = [handler EXCEPT
                   ![m] = IF runLoop[m] = "elected" THEN "primary"
                                                    ELSE "replica"]
  /\ runLoop' = [runLoop EXCEPT ![m] = "idle"]
  /\ UNCHANGED <<store, campaign, watchdog, orphans, follower, serving,
                 setup, crashes>>
-----------------------------------------------------------------------------
(* The follower and the replica's primary.                                 *)

\* the watch ends with an error; follow is called again after a pause
FollowerFails(m) ==
  /\ seen[m] # None
  /\ seen' = [seen EXCEPT ![m] = None]
  /\ UNCHANGED <<election, primary, serving, setup, handler, crashes>>

\* Mutant: nobody is woken
Broadcast_Not(m) == UNCHANGED req

\* everyone in Wait acquires the lock again and repeats the test
Broadcast(m) ==
  req' = [r \in Requests |-> IF req[r] = At(m, "waiting")
                             THEN At(m, "deciding") ELSE req[r]]

SetPrimary(m, p) ==
  /\ primary' = [primary EXCEPT ![m] = p]
  /\ Broadcast(m)

\* Follower.follow sends a value that differs from its last one, and the
\* loop of follow takes it; a late watch stands for a late receiver too
follow(m) ==
  /\ setup[m] # "down"
  /\ store # seen[m]
  /\ seen' = [seen EXCEPT ![m] = store]
  /\ IF store = None THEN UNCHANGED <<primary, req>>
                     ELSE SetPrimary(m, store)
  /\ UNCHANGED <<election, cancelled, setup, handler, crashes>>
-----------------------------------------------------------------------------
(* Requests.                                                               *)

Send(r, m) ==
  /\ req[r] = Idle
  /\ req' = [req EXCEPT ![r] = At(m, "arrived")]
  /\ UNCHANGED <<election, follower, cancelled, setup, handler,
                 crashes>>

Cancel(r) ==
  /\ req[r].pc \in {"arrived", "deciding", "waiting"}
  /\ r \notin cancelled
  /\ cancelled' = cancelled \cup {r}
  /\ UNCHANGED <<election, follower, req, setup, handler, crashes>>

Goto(r, m, pc) == req' = [req EXCEPT ![r] = At(m, pc)]
Finish(r) == req' = [req EXCEPT ![r] = Done]

\* Mutant: a request to a manager that does not listen is kept
Dispatch_Unanswered(r, m) ==
  /\ req[r] = At(m, "arrived") /\ setup[m] = "done"
  /\ IF handler[m] = "primary" THEN Finish(r) ELSE Goto(r, m, "deciding")
  /\ UNCHANGED <<election, follower, cancelled, setup, handler, crashes>>

\* dispatcher.ServeHTTP; nobody listens before setup is done
Dispatch(r, m) ==
  /\ req[r] = At(m, "arrived")
  /\ \/ /\ setup[m] # "done"
        /\ Finish(r)
     \/ /\ setup[m] = "done"
        /\ handler[m] = "primary"
        /\ Finish(r)
     \/ /\ setup[m] = "done"
        /\ handler[m] = "replica"
        /\ Goto(r, m, "deciding")
  /\ UNCHANGED <<election, follower, cancelled, setup, handler, crashes>>

\* getPrimary, whose test and whose Wait are one step for SetPrimary, and
\* what ServeHTTP does with its answer; after an error it goes on with the
\* empty address, which fails as well
getPrimary(r, m) ==
  /\ req[r] = At(m, "deciding")
  /\ \/ primary[m] = m /\ Finish(r)
     \/ primary[m] \notin {m, None} /\ Goto(r, primary[m], "arrived")
     \/ primary[m] = None /\ r \in cancelled /\ Finish(r)
     \/ primary[m] = None /\ r \notin cancelled /\ Goto(r, m, "waiting")
  /\ UNCHANGED <<election, follower, cancelled, setup, handler, crashes>>
-----------------------------------------------------------------------------
Election(m) ==
  Lock(m) \/ LoseLock(m) \/ runElected(m) \/ runLost(m) \/ runSetHandler(m)

Serving(r, m) == Dispatch(r, m) \/ getPrimary(r, m)

Next ==
  \/ Expire
  \/ \E m \in Managers :
       \/ setupReplication(m) \/ SetHandlerLast(m) \/ Crash(m)
       \/ Election(m) \/ runError(m)
       \/ FollowerFails(m) \/ follow(m)
  \/ \E r \in Requests :
       \/ Cancel(r)
       \/ \E m \in Managers : Send(r, m) \/ Serving(r, m)

Spec == Init /\ [][Next]_vars

\* The goroutines of a manager and of a request go on; that a session
\* expires, the store fails, a manager crashes or is started again, and that
\* a client sends or gives up, is not promised.
FairSpec ==
  /\ Spec
  /\ \A m \in Managers :
       /\ WF_vars(SetHandlerLast(m)) /\ WF_vars(Election(m))
       /\ WF_vars(follow(m))
  /\ \A r \in Requests : WF_vars(\E m \in Managers : Serving(r, m))
-----------------------------------------------------------------------------
TypeOK ==
  /\ store \in Managers \cup {None}
  /\ setup \in [Managers -> {"down", "starting", "done"}]
  /\ campaign \in [Managers -> {"off", "lost", "locking", "won", "leading"}]
  /\ runLoop \in [Managers -> {"idle", "elected", "lost"}]
  /\ watchdog \in [Managers -> BOOLEAN]
  /\ orphans \in [Managers -> Nat]
  /\ handler \in [Managers -> {"none", "primary", "replica"}]
  /\ seen \in [Managers -> Managers \cup {None}]
  /\ primary \in [Managers -> Managers \cup {None}]
  /\ req \in [Requests -> [pc : {"idle", "arrived", "deciding", "waiting",
                                 "done"},
                           at : Managers \cup {None}]]
  /\ cancelled \in SUBSET Requests
  /\ crashes \in Nat

\* A manager never has two watchdogs registered, which would reschedule
\* every container twice, and has none once its loop has heard that it lost
\* the lead, also when the election fails and run is called again with its
\* variable watchdog empty.  This rests on the order in which campaign sends:
\* an error only after a loss.
OneWatchdog ==
  \A m \in Managers :
    /\ orphans[m] = 0
    /\ campaign[m] = "leading" => watchdog[m]
    /\ watchdog[m] => campaign[m] \in {"leading", "lost"}

\* A request that waits for a primary waits at a manager that knows none:
\* SetPrimary cannot run between a request's test of primary and its Wait,
\* and wakes everyone.
NoLostWakeup ==
  \A r \in Requests, m \in Managers :
    req[r] = At(m, "waiting") => primary[m] = None

\* A manager that leads and has handled the news answers requests itself:
\* neither a late loss nor the handler set at the end of setupReplication
\* makes it forward them.
LeaderServes ==
  \A m \in Managers :
    campaign[m] = "leading" /\ runLoop[m] = "idle" => handler[m] = "primary"

Leads(m) == store = m /\ campaign[m] \in {"won", "leading"}

\* When the lead stays with one manager and the watches of the others do not
\* fail for ever, every request is answered: it is not forwarded in circles
\* between managers with old news, and none waits for ever.
RequestsAnswered ==
  /\ \E m \in Managers : <>[]Leads(m)
  /\ <>[][\A m \in Managers : ~FollowerFails(m)]_vars
  => \A r \in Requests : (req[r].pc = "arrived") ~> (req[r].pc = "done")
=============================================================================
