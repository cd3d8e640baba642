---------------------------- MODULE EngineHealth ----------------------------
(***************************************************************************)
(* The health of one Engine object (cluster/engine.go): its state, its     *)
(* failure count, the refresh loop and the one-slot channel that wakes it, *)
(* under any number of goroutines that talk to the engine at once.         *)
(*                                                                         *)
(* A goroutine is at a call site (site[p]); while it runs                  *)
(* CheckConnectionErr on the answer, chk[p] says how far it has come; it   *)
(* is "hung" when no answer will ever come.                                *)
(***************************************************************************)
EXTENDS Integers, FiniteSets

CONSTANTS
  Callers,        \* goroutines of API requests, engine events, watchdog
  Connectors,     \* goroutines of validatePendingEngine
  Requests,       \* what callers do: "call" a request, "info" updateSpecs
  Loop,           \* the goroutine of refreshLoop
  FailureRetry,   \* opts.FailureRetry, > 0 in cli/manage.go
  MaxFailures     \* bound: failureCount is not told apart above it

ASSUME ProcAssumption ==
  /\ Loop \notin Callers \cup Connectors
  /\ Callers \cap Connectors = {}
ASSUME FiniteAssumption == IsFiniteSet(Callers) /\ IsFiniteSet(Connectors)
ASSUME RequestAssumption == Requests \subseteq {"call", "info"}
ASSUME RetryAssumption == FailureRetry \in Nat \ {0}
ASSUME BoundAssumption == MaxFailures \in Nat /\ MaxFailures >= FailureRetry

VARIABLES
  up,             \* whether the engine can be reached and answers (environment)
  state,          \* e.state
  failureCount,   \* e.failureCount
  resumeCh,       \* number of values in refreshDelayer.resumeCh, capacity 1
  stopped,        \* e.stopCh is closed
  nop,            \* e.apiClient is the no-op client
  known,          \* e.ID is set
  site,           \* where each goroutine is
  chk,            \* progress in CheckConnectionErr, "none" outside it
  unmatched       \* engine_disconnect events of incFailureCount minus
                  \* engine_reconnect events, both as emitted so far

vars ==
  <<up, state, failureCount, resumeCh, stopped, nop, known, site, chk,
    unmatched>>

Procs == Callers \cup Connectors \cup {Loop}
States == {"pending", "unhealthy", "healthy", "disconnected"}

(* "call" is a single request; "info" and "version" are the two requests   *)
(* of updateSpecs and "specs" its locked tail; "list" is the first request *)
(* of RefreshContainers and "more" any further one of the same iteration.  *)
CallSites == {"call", "info", "version", "list", "more"}
Sites == CallSites \cup 
         {"specs", "connect", "validate", "wait", "off", "idle", "done"}
Checks == {"none", "hung", "ok", "err", "resume", "emit", "reset"}

TypeOK ==
  /\ up \in BOOLEAN
  /\ state \in States
  /\ failureCount \in 0..MaxFailures
  /\ resumeCh \in 0..1
  /\ stopped \in BOOLEAN
  /\ nop \in BOOLEAN
  /\ known \in BOOLEAN
  /\ site \in [Procs -> Sites]
  /\ chk \in [Procs -> Checks]
  /\ unmatched \in Int

Init ==
  /\ up \in BOOLEAN
  /\ state = "pending"
  /\ failureCount = 0
  /\ resumeCh = 0
  /\ stopped = FALSE
  /\ nop = TRUE
  /\ known = FALSE
  /\ site = [p \in Procs |-> IF p = Loop THEN "off" ELSE "idle"]
  /\ chk = [p \in Procs |-> "none"]
  /\ unmatched = 0

-----------------------------------------------------------------------------
(* Where a goroutine goes next.  Before Connect and after Disconnect the   *)
(* API client is the no-op client: it fails at once with an error that     *)
(* CheckConnectionErr ignores, so every call left to make falls through.   *)

Rest(p) == IF p = Loop THEN "wait" ELSE "idle"

Begin(p, s) == IF nop THEN Rest(p) ELSE s

Refreshed(p) == IF p \in Connectors THEN "validate" ELSE Rest(p)

(* updateSpecs also gives up on an answer without CPUs or memory.          *)
AfterSuccess(p) ==
  CASE site[p] = "info"    -> {Begin(p, "version"), Rest(p)}
    [] site[p] = "version" -> {"specs"}
    [] site[p] = "list"    -> {Begin(p, "more"), Refreshed(p)}
    [] site[p] = "more"    -> {Begin(p, "more"), Refreshed(p)}
    [] OTHER               -> {Rest(p)}

(* An error ends updateSpecs and RefreshContainers.  Later requests are    *)
(* made whatever the earlier ones returned, but Connect gives up when the  *)
(* images cannot be listed.                                                *)
AfterError(p) ==
  IF site[p] = "more" THEN {Begin(p, "more"), Refreshed(p), Rest(p)}
                      ELSE {Rest(p)}

-----------------------------------------------------------------------------
(* The answer of a request arrives.                                        *)
Answer(p) ==
  /\ site[p] \in CallSites
  /\ chk[p] = "none"
  /\ chk' = [chk EXCEPT ![p] = IF up THEN "ok" ELSE "err"]
  /\ UNCHANGED
       <<up, state, failureCount, resumeCh, stopped, nop, known, site, unmatched>>

(* The engine goes silent with the request in its hands.  The HTTP client  *)
(* limits the time to connect only; of the requests, the listing of the    *)
(* containers alone has a limit, which ends it with a connection error.    *)
Hang(p) ==
  /\ site[p] \in CallSites \ {"list"}
  /\ chk[p] = "none"
  /\ ~up
  /\ chk' = [chk EXCEPT ![p] = "hung"]
  /\ UNCHANGED
       <<up, state, failureCount, resumeCh, stopped, nop, known, site, unmatched>>

(* An error that is no connection error: CheckConnectionErr does nothing.  *)
AnswerOther(p) ==
  /\ site[p] \in CallSites
  /\ chk[p] = "none"
  /\ up
  /\ \E s \in AfterError(p) : site' = [site EXCEPT ![p] = s]
  /\ UNCHANGED
       <<up, state, failureCount, resumeCh, stopped, nop, known, chk, unmatched>>

(* Mutants of incFailureCount: the limit is passed before the engine is    *)
(* flagged; the count saturates below the limit.                           *)
incFailureCount_LateFlag(p) ==
  LET count == IF failureCount < MaxFailures THEN failureCount + 1
                                             ELSE MaxFailures
      flag == state = "healthy" /\ count > FailureRetry
  IN
  /\ chk[p] = "err"
  /\ failureCount' = count
  /\ state' = IF flag THEN "unhealthy" ELSE state
  /\ unmatched' = IF flag THEN unmatched + 1 ELSE unmatched
  /\ chk' = [chk EXCEPT ![p] = "none"]
  /\ \E s \in AfterError(p) : site' = [site EXCEPT ![p] = s]
  /\ UNCHANGED <<up, resumeCh, stopped, nop, known>>

(* A connection error: count it and, at the limit, flag a healthy engine.  *)
incFailureCount(p) ==
  LET count == IF failureCount < MaxFailures THEN failureCount + 1
                                             ELSE MaxFailures
      flag == state = "healthy" /\ count >= FailureRetry
  IN
  /\ chk[p] = "err"
  /\ failureCount' = count
  /\ state' = IF flag THEN "unhealthy" ELSE state
  /\ unmatched' = IF flag THEN unmatched + 1 ELSE unmatched
  /\ chk' = [chk EXCEPT ![p] = "none"]
  /\ \E s \in AfterError(p) : site' = [site EXCEPT ![p] = s]
  /\ UNCHANGED <<up, resumeCh, stopped, nop, known>>

(* Mutant of MarkHealthy: the reconnect event is emitted whether or not    *)
(* the state changed.                                                      *)
MarkHealthy_AlwaysEmit(p) ==
  /\ chk[p] = "ok"
  /\ state' = IF state = "unhealthy" THEN "healthy" ELSE state
  /\ chk' = [chk EXCEPT ![p] = IF state = "unhealthy" THEN "resume"
                                                      ELSE "emit"]
  /\ UNCHANGED
       <<up, failureCount, resumeCh, stopped, nop, known, site, unmatched>>

(* The locked block of CheckConnectionErr(nil).                            *)
MarkHealthy(p) ==
  /\ chk[p] = "ok"
  /\ state' = IF state = "unhealthy" THEN "healthy" ELSE state
  /\ chk' = [chk EXCEPT ![p] = IF state = "unhealthy" THEN "resume"
                                                      ELSE "reset"]
  /\ UNCHANGED
       <<up, failureCount, resumeCh, stopped, nop, known, site, unmatched>>

(* resumeCh <- true: blocks while the slot is taken.                       *)
SendResume(p) ==
  /\ chk[p] = "resume"
  /\ resumeCh < 1
  /\ resumeCh' = resumeCh + 1
  /\ chk' = [chk EXCEPT ![p] = "emit"]
  /\ UNCHANGED
       <<up, state, failureCount, stopped, nop, known, site, unmatched>>

EmitReconnect(p) ==
  /\ chk[p] = "emit"
  /\ unmatched' = unmatched - 1
  /\ chk' = [chk EXCEPT ![p] = "reset"]
  /\ UNCHANGED <<up, state, failureCount, resumeCh, stopped, nop, known, site>>

resetFailureCount(p) ==
  /\ chk[p] = "reset"
  /\ failureCount' = 0
  /\ chk' = [chk EXCEPT ![p] = "none"]
  /\ \E s \in AfterSuccess(p) : site' = [site EXCEPT ![p] = s]
  /\ UNCHANGED <<up, state, resumeCh, stopped, nop, known, unmatched>>

(* The locked tail of updateSpecs: an engine that answers with another ID  *)
(* than before goes to pending, whatever its state, and the error ends the *)
(* caller's work.  So does an invalid label; otherwise refreshLoop and     *)
(* Connect go on to the containers and a reload event is done.             *)
updateSpecs(p) ==
  /\ site[p] = "specs"
  /\ known' = TRUE
  /\ \/ /\ known
        /\ state' = "pending"
        /\ site' = [site EXCEPT ![p] = Rest(p)]
     \/ /\ \E s \in {Begin(p, "list"), Rest(p)} : site' = [site EXCEPT ![p] = s]
        /\ UNCHANGED state
  /\ UNCHANGED <<up, failureCount, resumeCh, stopped, nop, chk, unmatched>>

-----------------------------------------------------------------------------
(* Work starts.                                                            *)
StartCall(p) ==
  /\ p \in Callers
  /\ site[p] = "idle"
  /\ ~nop
  /\ \E s \in Requests : site' = [site EXCEPT ![p] = s]
  /\ UNCHANGED
       <<up, state, failureCount, resumeCh, stopped, nop, known, chk, unmatched>>

(* validatePendingEngine is started for a pending engine...                *)
StartConnect(p) ==
  /\ p \in Connectors
  /\ site[p] = "idle"
  /\ state = "pending"
  /\ site' = [site EXCEPT ![p] = "connect"]
  /\ UNCHANGED
       <<up, state, failureCount, resumeCh, stopped, nop, known, chk, unmatched>>

(* ... and installs a real client, however late it runs, unless the        *)
(* address does not resolve.                                               *)
ConnectWithClient(p) ==
  /\ site[p] = "connect"
  /\ \/ nop' = FALSE /\ site' = [site EXCEPT ![p] = "info"]
     \/ UNCHANGED nop /\ site' = [site EXCEPT ![p] = "idle"]
  /\ UNCHANGED
       <<up, state, failureCount, resumeCh, stopped, known, chk, unmatched>>

(* The end of validatePendingEngine when its address is pending.  That an  *)
(* engine is validated again after its removal, which takes a remove, a    *)
(* re-add and an old validator (EngineMembership), is left out here.       *)
ValidationComplete(p) ==
  /\ site[p] = "validate"
  /\ site[Loop] = "off"
  /\ IF state = "pending"
     THEN /\ state' = "healthy"
          /\ failureCount' = 0
          /\ site' = [site EXCEPT ![p] = "idle", ![Loop] = "wait"]
     ELSE /\ site' = [site EXCEPT ![p] = "idle"]
          /\ UNCHANGED <<state, failureCount>>
  /\ UNCHANGED <<up, resumeCh, stopped, nop, known, chk, unmatched>>

(* The same for an engine that is no longer there.                         *)
NotPending(p) ==
  /\ site[p] = "validate"
  /\ site' = [site EXCEPT ![p] = "idle"]
  /\ UNCHANGED
       <<up, state, failureCount, resumeCh, stopped, nop, known, chk, unmatched>>

(* Mutant of StartIteration: an engine that is not healthy is left alone.  *)
StartIteration_SkipUnhealthy ==
  /\ site[Loop] = "wait"
  /\ state = "healthy"
  /\ \/ resumeCh > 0 /\ resumeCh' = resumeCh - 1
     \/ resumeCh = 0 /\ ~stopped /\ UNCHANGED resumeCh
  /\ \E s \in {"info", "list"} : site' = [site EXCEPT ![Loop] = Begin(Loop, s)]
  /\ UNCHANGED
       <<up, state, failureCount, stopped, nop, known, chk, unmatched>>

(* refreshLoop leaves its select with a value of resumeCh or, when there   *)
(* is none and it is not stopped, with the timer (never ready at once: the *)
(* interval is positive), and starts an iteration.  The specs come first   *)
(* for an engine that is not healthy and, every few minutes, for any.      *)
StartIteration ==
  /\ site[Loop] = "wait"
  /\ \/ resumeCh > 0 /\ resumeCh' = resumeCh - 1
     \/ resumeCh = 0 /\ ~stopped /\ UNCHANGED resumeCh
  /\ \/ site' = [site EXCEPT ![Loop] = Begin(Loop, "info")]
     \/ /\ state = "healthy"
        /\ site' = [site EXCEPT ![Loop] = Begin(Loop, "list")]
  /\ UNCHANGED <<up, state, failureCount, stopped, nop, known, chk, unmatched>>

StopLoop ==
  /\ site[Loop] = "wait"
  /\ stopped
  /\ site' = [site EXCEPT ![Loop] = "done"]
  /\ UNCHANGED
       <<up, state, failureCount, resumeCh, stopped, nop, known, chk, unmatched>>

(* Closing stopCh a second time would end the process (EngineMembership).  *)
(* The event emitted here is not one of incFailureCount.                   *)
Disconnect ==
  /\ state # "disconnected"
  /\ ~stopped
  /\ stopped' = TRUE
  /\ nop' = TRUE
  /\ state' = "disconnected"
  /\ UNCHANGED <<up, failureCount, resumeCh, known, site, chk, unmatched>>

Toggle ==
  /\ up' = ~up
  /\ UNCHANGED
       <<state, failureCount, resumeCh, stopped, nop, known, site, chk, unmatched>>

CheckConnectionErr(p) ==
  \/ incFailureCount(p)
  \/ MarkHealthy(p)
  \/ SendResume(p)
  \/ EmitReconnect(p)
  \/ resetFailureCount(p)

Step(p) == Answer(p) \/ AnswerOther(p) \/ CheckConnectionErr(p) \/ updateSpecs(p)

validatePendingEngine(p) ==
  \/ StartConnect(p)
  \/ ConnectWithClient(p)
  \/ ValidationComplete(p)
  \/ NotPending(p)

refreshLoop == StartIteration \/ StopLoop

Next ==
  \/ \E p \in Procs : Step(p) \/ Hang(p) \/ StartCall(p) \/ validatePendingEngine(p)
  \/ refreshLoop
  \/ Disconnect
  \/ Toggle

Spec == Init /\ [][Next]_vars

(* Every goroutine that has work runs on; a request that does not hang     *)
(* ends with an answer or an error; blocked senders of a channel are       *)
(* served in turn; an engine that stays up does not answer every request   *)
(* of the loop with an error.                                              *)
Fairness ==
  /\ \A p \in Procs : /\ WF_vars(Step(p))
                      /\ SF_vars(SendResume(p))
  /\ WF_vars(refreshLoop)
  /\ SF_vars(Answer(Loop))

FairSpec == Spec /\ Fairness

-----------------------------------------------------------------------------
(* HealthIndicator: 0 unless the engine is healthy and below the limit.    *)
HealthIndicator ==
  IF state # "healthy" \/ failureCount >= FailureRetry
  THEN 0
  ELSE 100 - ((failureCount * 100) \div FailureRetry)

Reconnecting(p) == chk[p] \in {"resume", "emit", "reset"}

(* An engine that counts as healthy has fewer failures than FailureRetry,  *)
(* unless a goroutine that heard from it is still on its way to            *)
(* resetFailureCount: CheckConnectionErr sets the state and resets the     *)
(* count in two critical sections, with a channel send in between.         *)
HealthyBelowLimit ==
  state = "healthy" /\ failureCount >= FailureRetry =>
    \E p \in Procs : Reconnecting(p)

(* Events come in pairs: over a connected engine that was never sent back  *)
(* to pending, each engine_disconnect of incFailureCount is answered by    *)
(* exactly one engine_reconnect, the ones not yet answered being those of  *)
(* the goroutines between MarkHealthy and EmitReconnect and that of the    *)
(* present unhealthy spell.                                                *)
ReconnectsMatchDisconnects ==
  state \in {"healthy", "unhealthy"} =>
    unmatched = Cardinality({p \in Procs : chk[p] \in {"resume", "emit"}})
                + (IF state = "unhealthy" THEN 1 ELSE 0)

(* What the comment in CheckConnectionErr says the lock is for: the        *)
(* refresh loop, the only receiver of resumeCh, never waits for itself.    *)
LoopStuck == chk[Loop] = "resume" /\ resumeCh = 1
NeverBlocksOnResumeCh == ~LoopStuck

LoopHung == chk[Loop] = "hung"

(* The state of a connected engine follows its daemon: one that stays      *)
(* reachable is in the end never unhealthy, one that stays unreachable is  *)
(* in the end never healthy.  Two things only can keep the refresh loop    *)
(* from noticing: it is stuck on resumeCh, or it waits for the answer of   *)
(* an engine that has gone silent.                                         *)
StateFollowsEngine ==
  /\ <>[]up => <>[](state # "unhealthy" \/ stopped \/ LoopStuck \/ LoopHung)
  /\ <>[]~up => <>[](state # "healthy" \/ stopped \/ LoopStuck \/ LoopHung)
====
