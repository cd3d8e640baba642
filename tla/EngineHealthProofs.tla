------------------------- MODULE EngineHealthProofs -------------------------
(***************************************************************************)
(* Proofs about EngineHealth, for any number of goroutines and any         *)
(* FailureRetry, and about the Watchdog that acts on the events of the     *)
(* engines' health, for any number of engines and containers.              *)
(***************************************************************************)
EXTENDS EngineHealth, Watchdog, FiniteSetTheorems, TLAPS

USE DEF Checks

(* HealthIndicator is a percentage, as cluster/engine.go documents it, and *)
(* it is positive exactly for a healthy engine below the failure limit.    *)
THEOREM IndicatorRange ==
  ASSUME TypeOK
  PROVE  /\ HealthIndicator \in 0..100
         /\ HealthIndicator > 0 <=>
              state = "healthy" /\ failureCount < FailureRetry
<1>. DEFINE q == (failureCount * 100) \div FailureRetry
<1>1. failureCount \in Nat /\ FailureRetry \in Nat /\ FailureRetry > 0
  BY RetryAssumption, BoundAssumption DEF TypeOK
<1>2. CASE state = "healthy" /\ failureCount < FailureRetry
  <2>1. q \in Nat /\ q * FailureRetry <= failureCount * 100
    BY <1>1, Z3, Zenon
  <2>2. q < 100
    BY <1>1, <1>2, <2>1, Z3, Zenon
  <2>. QED  BY <1>1, <1>2, <2>1, <2>2 DEF HealthIndicator
<1>3. CASE ~(state = "healthy" /\ failureCount < FailureRetry)
  BY <1>1, <1>3 DEF HealthIndicator
<1>. QED  BY <1>2, <1>3, Zenon

-----------------------------------------------------------------------------
(* Type correctness.                                                       *)
LEMMA SiteTypes ==
  ASSUME TypeOK, NEW p \in Procs
  PROVE  /\ Rest(p) \in Sites
         /\ \A s \in Sites : Begin(p, s) \in Sites
         /\ AfterSuccess(p) \subseteq Sites
         /\ AfterError(p) \subseteq Sites
<1>1. Rest(p) \in Sites /\ Refreshed(p) \in Sites
  BY Zenon DEF Rest, Refreshed, Sites
<1>2. \A s \in Sites : Begin(p, s) \in Sites
  BY <1>1, Zenon DEF Begin
<1>3. {"version", "specs", "more"} \subseteq Sites
  BY Zenon DEF Sites, CallSites
<1>4. AfterSuccess(p) \subseteq Sites
  BY <1>1, <1>2, <1>3, Zenon DEF AfterSuccess
<1>. QED  BY <1>1, <1>2, <1>3, <1>4, Zenon DEF AfterError

LEMMA TypeStep == TypeOK /\ [Next]_vars => TypeOK'
<1>. SUFFICES ASSUME TypeOK, [Next]_vars PROVE TypeOK'
  BY Zenon
<1>. USE BoundAssumption, RetryAssumption DEF TypeOK
<1>1. ASSUME NEW p \in Procs, Answer(p) \/ Hang(p) PROVE TypeOK'
  BY <1>1, Zenon DEF Answer, Hang
<1>2. ASSUME NEW p \in Procs, AnswerOther(p) PROVE TypeOK'
  BY <1>2, SiteTypes, Zenon DEF AnswerOther
<1>3. ASSUME NEW p \in Procs, incFailureCount(p) PROVE TypeOK'
  <2>1. failureCount' \in 0..MaxFailures /\ state' \in States
    BY <1>3 DEF incFailureCount, States
  <2>2. site' \in [Procs -> Sites]
    BY <1>3, SiteTypes, Zenon DEF incFailureCount
  <2>. QED  BY <1>3, <2>1, <2>2 DEF incFailureCount
<1>4. ASSUME NEW p \in Procs, MarkHealthy(p) PROVE TypeOK'
  BY <1>4, Zenon DEF MarkHealthy, States
<1>5. ASSUME NEW p \in Procs, SendResume(p) PROVE TypeOK'
  BY <1>5 DEF SendResume
<1>6. ASSUME NEW p \in Procs, EmitReconnect(p) PROVE TypeOK'
  BY <1>6 DEF EmitReconnect
<1>7. ASSUME NEW p \in Procs, resetFailureCount(p) PROVE TypeOK'
  BY <1>7, SiteTypes DEF resetFailureCount
<1>8. ASSUME NEW p \in Procs, updateSpecs(p) PROVE TypeOK'
  <2>1. "list" \in Sites BY Zenon DEF Sites, CallSites
  <2>. QED  BY <1>8, <2>1, SiteTypes DEF updateSpecs, States
<1>9. ASSUME NEW p \in Procs, StartCall(p) PROVE TypeOK'
  BY <1>9, RequestAssumption, Zenon DEF StartCall, Sites, CallSites
<1>10. ASSUME NEW p \in Procs, validatePendingEngine(p) PROVE TypeOK'
  <2>. USE DEF Sites, CallSites, States
  <2>1. CASE StartConnect(p)
    BY <2>1, Zenon DEF StartConnect
  <2>2. CASE ConnectWithClient(p)
    BY <2>2, Zenon DEF ConnectWithClient
  <2>3. CASE ValidationComplete(p)
    <3>1. state' \in States /\ failureCount' \in 0..MaxFailures
      BY <2>3 DEF ValidationComplete
    <3>2. site' \in [Procs -> Sites]
      BY <2>3, Zenon DEF ValidationComplete
    <3>. QED  BY <2>3, <3>1, <3>2, Zenon DEF ValidationComplete
  <2>4. CASE NotPending(p)
    BY <2>4, Zenon DEF NotPending
  <2>. QED  BY <1>10, <2>1, <2>2, <2>3, <2>4, Zenon DEF validatePendingEngine
<1>11. CASE StartIteration
  <2>1. Loop \in Procs /\ {"info", "list"} \subseteq Sites
    BY Zenon DEF Procs, Sites, CallSites
  <2>. QED  BY <1>11, <2>1, SiteTypes DEF StartIteration
<1>12. CASE StopLoop
  BY <1>12, Zenon DEF StopLoop, Sites
<1>13. CASE Disconnect
  BY <1>13, Zenon DEF Disconnect, States
<1>14. CASE Toggle
  BY <1>14, Zenon DEF Toggle
<1>15. CASE UNCHANGED vars
  BY <1>15, Zenon DEF vars
<1>. QED
  BY <1>1, <1>2, <1>3, <1>4, <1>5, <1>6, <1>7, <1>8, <1>9, <1>10, <1>11,
     <1>12, <1>13, <1>14, <1>15
     DEF Next, Step, CheckConnectionErr, refreshLoop

LEMMA TypeInit == Init => TypeOK
<1>. SUFFICES ASSUME Init PROVE TypeOK
  BY Zenon
<1>1. site \in [Procs -> Sites] /\ chk \in [Procs -> Checks]
  BY Zenon DEF Init, Sites
<1>2. 0 \in 0..MaxFailures /\ 0 \in 0..1 /\ 0 \in Int
  BY BoundAssumption
<1>3. {stopped, nop, known, up} \subseteq BOOLEAN
  BY Zenon DEF Init
<1>. QED  BY <1>1, <1>2, <1>3, Zenon DEF Init, TypeOK, States

(* Every variable of the engine keeps its type, the count its bound and    *)
(* resumeCh its capacity, whatever the goroutines of CheckConnectionErr,   *)
(* refreshLoop, validatePendingEngine and Disconnect do.                   *)
THEOREM TypeCorrect == Spec => []TypeOK
<1>. QED  BY TypeInit, TypeStep, PTL DEF Spec

-----------------------------------------------------------------------------
(* The steps that can disturb HealthyBelowLimit are those of               *)
(* CheckConnectionErr: all others leave the count alone or set it to 0, and*)
(* take no goroutine away from those on their way to resetFailureCount.    *)
LEMMA HealthyStep ==
  TypeOK /\ HealthyBelowLimit /\ [Next]_vars => HealthyBelowLimit'
<1>. SUFFICES ASSUME TypeOK, HealthyBelowLimit, [Next]_vars,
                     (state = "healthy")', (failureCount >= FailureRetry)'
              PROVE  \E q \in Procs : Reconnecting(q)'
  BY Zenon DEF HealthyBelowLimit
<1>. USE RetryAssumption, BoundAssumption
         DEF TypeOK, HealthyBelowLimit, Reconnecting
<1>1. ASSUME NEW p \in Procs, Answer(p) \/ Hang(p)
      PROVE  \E q \in Procs : Reconnecting(q)'
  <2>1. PICK q \in Procs : Reconnecting(q)
    BY <1>1, Zenon DEF Answer, Hang
  <2>2. q # p /\ chk'[q] = chk[q]
    BY <1>1, <2>1, Zenon DEF Answer, Hang
  <2>. QED  BY <2>1, <2>2, Zenon
<1>2. ASSUME NEW p \in Procs, incFailureCount(p) PROVE FALSE
  BY <1>2, Zenon DEF incFailureCount
<1>3. ASSUME NEW p \in Procs, MarkHealthy(p) \/ SendResume(p) \/ EmitReconnect(p)
      PROVE  Reconnecting(p)'
  BY <1>3, Zenon DEF MarkHealthy, SendResume, EmitReconnect
<1>4. ASSUME NEW p \in Procs, resetFailureCount(p) PROVE FALSE
  BY <1>4 DEF resetFailureCount
<1>5. ASSUME NEW p \in Procs, updateSpecs(p) PROVE \E q \in Procs : Reconnecting(q)'
  BY <1>5, Zenon DEF updateSpecs
<1>6. ASSUME NEW p \in Procs, AnswerOther(p) \/ StartCall(p) \/ validatePendingEngine(p)
      PROVE  \E q \in Procs : Reconnecting(q)'
  BY <1>6 DEF AnswerOther, StartCall, validatePendingEngine, StartConnect,
     ConnectWithClient, ValidationComplete, NotPending
<1>7. CASE refreshLoop \/ Disconnect \/ Toggle \/ UNCHANGED vars
  BY <1>7, Zenon DEF refreshLoop, StartIteration, StopLoop, Disconnect, Toggle, vars
<1>. QED
  BY <1>1, <1>2, <1>3, <1>4, <1>5, <1>6, <1>7
     DEF Next, Step, CheckConnectionErr

(* An engine that counts as healthy has fewer failures than FailureRetry   *)
(* unless some goroutine is between the two critical sections of           *)
(* CheckConnectionErr.                                                     *)
THEOREM HealthySafe == Spec => []HealthyBelowLimit
<1>1. Init => HealthyBelowLimit
  BY Zenon DEF Init, HealthyBelowLimit
<1>. QED  BY <1>1, TypeCorrect, HealthyStep, PTL DEF Spec

-----------------------------------------------------------------------------
(* The goroutines between MarkHealthy and EmitReconnect.                   *)
Answering == {p \in Procs : chk[p] \in {"resume", "emit"}}

(* Before ValidationComplete nobody has flagged the engine, so no event of *)
(* incFailureCount is open: what the step from pending to healthy needs.   *)
Unvalidated ==
  site[Loop] = "off" =>
    /\ state \in {"pending", "disconnected"}
    /\ unmatched = 0
    /\ Answering = {}

EventInv == TypeOK /\ Unvalidated /\ ReconnectsMatchDisconnects

LEMMA ProcsFinite == IsFiniteSet(Procs) /\ Loop \in Procs
<1>1. IsFiniteSet(Callers \cup Connectors)
  BY FiniteAssumption, FS_Union, Zenon
<1>2. IsFiniteSet(Callers \cup Connectors \cup {Loop})
  BY <1>1, FS_Singleton, FS_Union, Zenon
<1>. QED  BY <1>2, Zenon DEF Procs

LEMMA AnsweringFinite == IsFiniteSet(Answering) /\ Cardinality(Answering) \in Nat
<1>1. Answering \subseteq Procs
  BY Zenon DEF Answering
<1>. QED  BY <1>1, ProcsFinite, FS_Subset, FS_CardinalityType, Zenon

(* A step that leaves events, the goroutines that owe one and the loop's   *)
(* being off alone, and lets the engine at most leave service.             *)
LEMMA CalmStep ==
  ASSUME EventInv, TypeOK',
         state' \in {state, "pending", "disconnected"},
         unmatched' = unmatched, Answering' = Answering,
         site'[Loop] = "off" => site[Loop] = "off"
  PROVE  EventInv'
<1>1. Unvalidated'
  BY Zenon DEF EventInv, Unvalidated
<1>2. ReconnectsMatchDisconnects'
  BY Zenon DEF EventInv, ReconnectsMatchDisconnects, Answering
<1>. QED  BY <1>1, <1>2, Zenon DEF EventInv

(* A goroutine at work never turns the loop off.                           *)
LEMMA NeverOff ==
  ASSUME TypeOK, NEW p \in Procs
  PROVE  /\ "off" \notin AfterSuccess(p) \cup AfterError(p)
         /\ Rest(p) # "off" /\ Begin(p, "list") # "off"
BY Zenon DEF AfterSuccess, AfterError, Begin, Rest, Refreshed

LEMMA EventStep == EventInv /\ [Next]_vars => EventInv'
<1>. SUFFICES ASSUME EventInv, [Next]_vars PROVE EventInv'
  BY Zenon
<1>1. TypeOK /\ TypeOK'
  BY TypeStep, Zenon DEF EventInv
<1>2. Loop \in Procs
  BY ProcsFinite, Zenon
<1>3. ASSUME NEW p \in Procs, incFailureCount(p) PROVE EventInv'
  <2>1. Answering' = Answering
    BY <1>1, <1>3, Zenon DEF incFailureCount, Answering, TypeOK
  <2>2. site'[Loop] = "off" => site[Loop] = "off"
    BY <1>1, <1>2, <1>3, NeverOff DEF incFailureCount, TypeOK
  <2>3. Unvalidated'
    BY <1>3, <2>1, <2>2, Zenon DEF incFailureCount, EventInv, Unvalidated
  <2>4. ReconnectsMatchDisconnects'
    BY <1>1, <1>3, <2>1, AnsweringFinite
       DEF incFailureCount, EventInv, ReconnectsMatchDisconnects, Answering, TypeOK
  <2>. QED  BY <1>1, <2>3, <2>4, Zenon DEF EventInv
<1>4. ASSUME NEW p \in Procs, MarkHealthy(p) PROVE EventInv'
  <2>1. CASE state = "unhealthy"
    <3>1. p \notin Answering /\ Answering' = Answering \cup {p}
      BY <1>1, <1>4, <2>1, Zenon DEF MarkHealthy, Answering, TypeOK
    <3>2. Cardinality(Answering') = Cardinality(Answering) + 1
      BY <3>1, AnsweringFinite, FS_AddElement, Zenon
    <3>3. Unvalidated'
      BY <1>4, <2>1, Zenon DEF MarkHealthy, EventInv, Unvalidated
    <3>4. ReconnectsMatchDisconnects'
      BY <1>1, <1>4, <2>1, <3>2, AnsweringFinite
         DEF MarkHealthy, EventInv, ReconnectsMatchDisconnects, Answering, TypeOK
    <3>. QED  BY <1>1, <3>3, <3>4, Zenon DEF EventInv
  <2>2. CASE state # "unhealthy"
    <3>1. Answering' = Answering
      BY <1>1, <1>4, <2>2, Zenon DEF MarkHealthy, Answering, TypeOK
    <3>. QED  BY <1>1, <1>4, <2>2, <3>1, CalmStep, Zenon DEF MarkHealthy
  <2>. QED  BY <2>1, <2>2, Zenon
<1>5. ASSUME NEW p \in Procs, SendResume(p) PROVE EventInv'
  <2>1. Answering' = Answering
    BY <1>1, <1>5, Zenon DEF SendResume, Answering, TypeOK
  <2>. QED  BY <1>1, <1>5, <2>1, CalmStep, Zenon DEF SendResume
<1>6. ASSUME NEW p \in Procs, EmitReconnect(p) PROVE EventInv'
  <2>1. p \in Answering /\ Answering' = Answering \ {p}
    BY <1>1, <1>6, Zenon DEF EmitReconnect, Answering, TypeOK
  <2>2. Cardinality(Answering') = Cardinality(Answering) - 1
    BY <2>1, AnsweringFinite, FS_RemoveElement, Zenon
  <2>3. Unvalidated'
    BY <1>6, <2>1, Zenon DEF EmitReconnect, EventInv, Unvalidated
  <2>4. ReconnectsMatchDisconnects'
    BY <1>1, <1>6, <2>2, AnsweringFinite
       DEF EmitReconnect, EventInv, ReconnectsMatchDisconnects, Answering, TypeOK
  <2>. QED  BY <1>1, <2>3, <2>4, Zenon DEF EventInv
<1>7. ASSUME NEW p \in Procs, ValidationComplete(p) PROVE EventInv'
  <2>1. Answering = {} /\ Answering' = {} /\ unmatched' = 0
    BY <1>7, Zenon DEF ValidationComplete, EventInv, Unvalidated, Answering
  <2>2. state' \in {"healthy", "disconnected"}
    BY <1>7, Zenon DEF ValidationComplete, EventInv, Unvalidated
  <2>3. Unvalidated'
    BY <1>1, <1>2, <1>7, <2>1, Zenon DEF ValidationComplete, EventInv, Unvalidated, TypeOK
  <2>4. ReconnectsMatchDisconnects'
    BY <2>1, <2>2, FS_EmptySet DEF ReconnectsMatchDisconnects, Answering
  <2>. QED  BY <1>1, <2>3, <2>4, Zenon DEF EventInv
<1>8. ASSUME NEW p \in Procs, Answer(p) \/ Hang(p) \/ resetFailureCount(p)
      PROVE  EventInv'
  <2>1. Answering' = Answering
    BY <1>1, <1>8, Zenon DEF Answer, Hang, resetFailureCount, Answering, TypeOK
  <2>2. site'[Loop] = "off" => site[Loop] = "off"
    BY <1>1, <1>2, <1>8, NeverOff DEF Answer, Hang, resetFailureCount, TypeOK
  <2>. QED
    BY <1>1, <1>8, <2>1, <2>2, CalmStep, Zenon DEF Answer, Hang, resetFailureCount
<1>9. ASSUME NEW p \in Procs,
             AnswerOther(p) \/ updateSpecs(p) \/ StartCall(p)
               \/ StartConnect(p) \/ ConnectWithClient(p) \/ NotPending(p)
      PROVE  EventInv'
  <2>. USE DEF AnswerOther, updateSpecs, StartCall, StartConnect,
               ConnectWithClient, NotPending
  <2>1. Answering' = Answering
    BY <1>9, Zenon DEF Answering
  <2>2. site'[Loop] = "off" => site[Loop] = "off"
    BY <1>1, <1>2, <1>9, NeverOff, RequestAssumption DEF TypeOK
  <2>. QED  BY <1>1, <1>9, <2>1, <2>2, CalmStep, SMTT(60)
<1>10. CASE refreshLoop \/ Disconnect \/ Toggle \/ UNCHANGED vars
  <2>. USE DEF refreshLoop, StartIteration, StopLoop, Disconnect, Toggle, vars
  <2>1. Answering' = Answering
    BY <1>10, Zenon DEF Answering
  <2>2. site'[Loop] = "off" => site[Loop] = "off"
    BY <1>1, <1>2, <1>10, Zenon DEF TypeOK, Begin, Rest
  <2>. QED  BY <1>1, <1>10, <2>1, <2>2, CalmStep, Zenon
<1>. QED
  BY <1>3, <1>4, <1>5, <1>6, <1>7, <1>8, <1>9, <1>10
     DEF Next, Step, CheckConnectionErr, validatePendingEngine

(* Each engine_disconnect of incFailureCount is answered by exactly one    *)
(* engine_reconnect of CheckConnectionErr, for any number of goroutines.   *)
THEOREM EventsMatch == Spec => []ReconnectsMatchDisconnects
<1>1. Init => EventInv
  <2>. SUFFICES ASSUME Init PROVE EventInv
    BY Zenon
  <2>1. Answering = {}
    BY Zenon DEF Init, Answering
  <2>2. Unvalidated /\ ReconnectsMatchDisconnects
    BY <2>1, Zenon DEF Init, Unvalidated, ReconnectsMatchDisconnects
  <2>. QED  BY <2>2, TypeInit, Zenon DEF EventInv
<1>2. EventInv => ReconnectsMatchDisconnects
  BY Zenon DEF EventInv
<1>. QED  BY <1>1, <1>2, EventStep, PTL DEF Spec
-----------------------------------------------------------------------------
(* Watchdog.  The inductive invariant: who holds the watchdog's lock is in *)
(* its loop, and only there has containers in hand;                        *)
Exclusive ==
  \A j \in Jobs :
    /\ pc[j] \in {"loop", "act"} <=> lock = j
    /\ cur[j] # None <=> pc[j] = "act"
    /\ todo[j] # {} => lock = j

(* what a cache shows exists, what a refresh is about to drop does not,    *)
(* and what is being rescheduled exists where it was;                      *)
ShownExists ==
  \A c \in Containers \ stale : \A e \in Engines :
    /\ c \in cache[e] => c \in daemon[e]
    /\ view[e].on /\ c \in view[e].had => c \in view[e].listed
    /\ c \in todo[Resched(e)] \/ cur[Resched(e)] = c => c \in daemon[e]

(* what is being removed as a duplicate is cached elsewhere;               *)
CopyElsewhere ==
  \A e \in Engines : cur[Dup(e)] \in Containers \ stale => Elsewhere(cur[Dup(e)], e)

(* and a container in the cache of an engine that is not healthy will be   *)
(* rescheduled.                                                            *)
WillBeHandled ==
  \A e \in Engines \ healthy : \A c \in cache[e] \ (stale \cup failed) :
    pc[Resched(e)] = "start" \/ c \in todo[Resched(e)]

WatchInv ==
  /\ WatchTypeOK /\ Exclusive /\ ShownExists /\ CopyElsewhere /\ StillKnown
  /\ WillBeHandled

(* The goroutines of two engines, or of two kinds, are two.                *)
LEMMA JobNames ==
  /\ \A e \in Engines : Dup(e) \in Jobs /\ Resched(e) \in Jobs
  /\ \A j \in Jobs : \E e \in Engines : j = Dup(e) \/ j = Resched(e)
  /\ \A e, f \in Engines :
       /\ Dup(e) # Resched(f)
       /\ Dup(e) = Dup(f) => e = f
       /\ Resched(e) = Resched(f) => e = f
  BY Zenon DEF Jobs, Dup, Resched

(* Initially every container is on one engine.                             *)
LEMMA WatchInitInv == WatchInit => WatchInv
<1>. SUFFICES ASSUME WatchInit PROVE WatchInv
  BY Zenon
<1>. USE WatchdogAssumption
<1>1. WatchTypeOK
  BY Zenon DEF WatchInit, WatchTypeOK, NoView
<1>2. Exclusive /\ ShownExists /\ CopyElsewhere
  BY JobNames, Zenon DEF WatchInit, Exclusive, ShownExists, CopyElsewhere, NoView
<1>3. StillKnown
  <2>. SUFFICES ASSUME NEW c \in Containers PROVE \E e \in Engines : c \in daemon[e]
    BY Zenon DEF StillKnown, WatchInit
  <2>1. Cardinality({e \in Engines : c \in daemon[e]}) = 1
    BY Zenon DEF WatchInit
  <2>. QED  BY <2>1, FS_EmptySet
<1>4. WillBeHandled
  BY Zenon DEF WatchInit, WillBeHandled
<1>. QED  BY <1>1, <1>2, <1>3, <1>4, Zenon DEF WatchInv

(* One lemma for each action: it keeps every conjunct of the invariant.     *)
LEMMA LoseInv ==
  ASSUME WatchInv, NEW e \in Engines, Lose(e)
  PROVE  WatchInv'
<1>. USE WatchdogAssumption, JobNames DEF WatchInv, WatchTypeOK, engines, jobs,
       Lose
<1>1. WatchTypeOK'
  BY Zenon
<1>2. Exclusive'
  BY Zenon DEF Exclusive
<1>3. ShownExists'
  BY Zenon DEF ShownExists, Exclusive
<1>4. CopyElsewhere'
  BY Zenon DEF CopyElsewhere, Exclusive, ShownExists, Elsewhere
<1>5. StillKnown'
  BY SMTT(60) DEF StillKnown, ShownExists, CopyElsewhere, Elsewhere
<1>6. WillBeHandled'
  BY Zenon DEF WillBeHandled, Exclusive
<1>. QED  BY <1>1, <1>2, <1>3, <1>4, <1>5, <1>6, Zenon

LEMMA ReturnInv ==
  ASSUME WatchInv, NEW e \in Engines, Return(e)
  PROVE  WatchInv'
<1>. USE WatchdogAssumption, JobNames DEF WatchInv, WatchTypeOK, engines, jobs,
       Return
<1>1. WatchTypeOK'
  BY Zenon
<1>2. Exclusive'
  BY Zenon DEF Exclusive
<1>3. ShownExists'
  BY Zenon DEF ShownExists, Exclusive
<1>4. CopyElsewhere'
  BY Zenon DEF CopyElsewhere, Exclusive, ShownExists, Elsewhere
<1>5. StillKnown'
  BY SMTT(60) DEF StillKnown, ShownExists, CopyElsewhere, Elsewhere
<1>6. WillBeHandled'
  BY Zenon DEF WillBeHandled, Exclusive
<1>. QED  BY <1>1, <1>2, <1>3, <1>4, <1>5, <1>6, Zenon

LEMMA engine_disconnectInv ==
  ASSUME WatchInv, NEW e \in Engines, engine_disconnect(e)
  PROVE  WatchInv'
<1>. USE WatchdogAssumption, JobNames DEF WatchInv, WatchTypeOK, engines, jobs,
       engine_disconnect, Handle
<1>1. WatchTypeOK'
  BY Zenon
<1>2. Exclusive'
  BY Zenon DEF Exclusive
<1>3. ShownExists'
  BY Zenon DEF ShownExists, Exclusive
<1>4. CopyElsewhere'
  BY Zenon DEF CopyElsewhere, Exclusive, ShownExists, Elsewhere
<1>5. StillKnown'
  BY SMTT(60) DEF StillKnown, ShownExists, CopyElsewhere, Elsewhere
<1>6. WillBeHandled'
  BY Zenon DEF WillBeHandled, Exclusive
<1>. QED  BY <1>1, <1>2, <1>3, <1>4, <1>5, <1>6, Zenon

LEMMA engine_reconnectInv ==
  ASSUME WatchInv, NEW e \in Engines, engine_reconnect(e)
  PROVE  WatchInv'
<1>. USE WatchdogAssumption, JobNames DEF WatchInv, WatchTypeOK, engines, jobs,
       engine_reconnect, Handle
<1>1. WatchTypeOK'
  BY Zenon
<1>2. Exclusive'
  BY Zenon DEF Exclusive
<1>3. ShownExists'
  BY Zenon DEF ShownExists, Exclusive
<1>4. CopyElsewhere'
  BY Zenon DEF CopyElsewhere, Exclusive, ShownExists, Elsewhere
<1>5. StillKnown'
  BY SMTT(60) DEF StillKnown, ShownExists, CopyElsewhere, Elsewhere
<1>6. WillBeHandled'
  BY Zenon DEF WillBeHandled, Exclusive
<1>. QED  BY <1>1, <1>2, <1>3, <1>4, <1>5, <1>6, Zenon

LEMMA ListInv ==
  ASSUME WatchInv, NEW e \in Engines, List(e)
  PROVE  WatchInv'
<1>. USE WatchdogAssumption, JobNames DEF WatchInv, WatchTypeOK, engines, jobs,
       List
<1>1. WatchTypeOK'
  BY Zenon
<1>2. Exclusive'
  BY Zenon DEF Exclusive
<1>3. ShownExists'
  BY Zenon DEF ShownExists, Exclusive
<1>4. CopyElsewhere'
  BY Zenon DEF CopyElsewhere, Exclusive, ShownExists, Elsewhere
<1>5. StillKnown'
  BY SMTT(60) DEF StillKnown, ShownExists, CopyElsewhere, Elsewhere
<1>6. WillBeHandled'
  BY Zenon DEF WillBeHandled, Exclusive
<1>. QED  BY <1>1, <1>2, <1>3, <1>4, <1>5, <1>6, Zenon

(* A step that leaves every container that is not stale in the caches where *)
(* it was disturbs neither of these.                                       *)
LEMMA CachesKept ==
  ASSUME WatchInv, stale \subseteq stale', UNCHANGED cur,
         \A f \in Engines : \A c \in cache[f] \ stale' : c \in cache'[f]
  PROVE  CopyElsewhere' /\ StillKnown'
  BY SMTT(60) DEF WatchInv, CopyElsewhere, StillKnown, Elsewhere

LEMMA ApplyInv ==
  ASSUME WatchInv, NEW e \in Engines, Apply(e)
  PROVE  WatchInv'
<1>. USE WatchdogAssumption, JobNames DEF WatchInv, WatchTypeOK, engines, jobs,
       Apply, NoView
<1>1. WatchTypeOK'
  BY Zenon
<1>2. Exclusive'
  BY Zenon DEF Exclusive
<1>3. ShownExists'
  BY Zenon DEF ShownExists, Exclusive
<1>4. \A f \in Engines : \A c \in cache[f] \ stale' : c \in cache'[f]
  BY SMTT(60) DEF ShownExists
<1>5. CopyElsewhere' /\ StillKnown'
  BY <1>4, CachesKept, SMTT(60)
<1>6. WillBeHandled'
  BY SMTT(60) DEF WillBeHandled, Exclusive
<1>. QED  BY <1>1, <1>2, <1>3, <1>5, <1>6, ZenonT(60)

LEMMA DupRefreshInv ==
  ASSUME WatchInv, NEW e \in Engines, DupRefresh(e)
  PROVE  WatchInv'
<1>. USE WatchdogAssumption, JobNames DEF WatchInv, WatchTypeOK, engines, jobs,
       DupRefresh, Goto
<1>1. WatchTypeOK'
  BY Zenon
<1>2. Exclusive'
  BY Zenon DEF Exclusive
<1>3. CASE UNCHANGED <<cache, stale>>
  <2>1. ShownExists'
    BY <1>3, Zenon DEF ShownExists
  <2>2. CopyElsewhere' /\ StillKnown'
    BY <1>3, CachesKept, Zenon
  <2>3. WillBeHandled'
    BY <1>3, SMTT(60) DEF WillBeHandled
  <2>. QED  BY <1>1, <1>2, <2>1, <2>2, <2>3, SMTT(60)
<1>4. CASE /\ cache' = [cache EXCEPT ![e] = daemon[e]]
           /\ stale' = stale \cup IF e \in healthy THEN {} ELSE daemon[e] \ cache[e]
  <2>1. ShownExists'
    BY <1>4, Zenon DEF ShownExists
  <2>2. \A f \in Engines : \A c \in cache[f] \ stale' : c \in cache'[f]
    BY <1>4 DEF ShownExists
  <2>3. CopyElsewhere' /\ StillKnown'
    BY <1>4, <2>2, CachesKept, Zenon
  <2>4. WillBeHandled'
    BY <1>4 DEF WillBeHandled
  <2>. QED  BY <1>1, <1>2, <2>1, <2>3, <2>4, Zenon
<1>. QED  BY <1>3, <1>4, Zenon

LEMMA DupLockInv ==
  ASSUME WatchInv, NEW e \in Engines, DupLock(e)
  PROVE  WatchInv'
<1>. USE WatchdogAssumption, JobNames DEF WatchInv, WatchTypeOK, engines, jobs,
       DupLock, Lock, Goto
<1>1. WatchTypeOK'
  BY Zenon
<1>2. Exclusive'
  BY Zenon DEF Exclusive
<1>3. ShownExists'
  BY DEF ShownExists, Exclusive
<1>4. CopyElsewhere'
  BY Zenon DEF CopyElsewhere, Exclusive, ShownExists, Elsewhere
<1>5. StillKnown'
  BY SMTT(60) DEF StillKnown, ShownExists, CopyElsewhere, Elsewhere
<1>6. WillBeHandled'
  BY Zenon DEF WillBeHandled, Exclusive
<1>. QED  BY <1>1, <1>2, <1>3, <1>4, <1>5, <1>6, Zenon

LEMMA DupTakeInv ==
  ASSUME WatchInv, NEW e \in Engines, NEW c \in Containers, DupTake(e, c)
  PROVE  WatchInv'
<1>. USE WatchdogAssumption, JobNames DEF WatchInv, WatchTypeOK, engines, jobs,
       DupTake, Take, Goto
<1>1. WatchTypeOK'
  <2>1. pc' \in [Jobs -> {"off", "start", "lock", "loop", "act"}]
    <3>1. pc' = pc \/ pc' = [pc EXCEPT ![Dup(e)] = "act"]
      BY Zenon
    <3>. QED  BY <3>1, Zenon
  <2>2. todo' \in [Jobs -> SUBSET Containers]
    BY Zenon
  <2>3. cur' \in [Jobs -> Containers \cup {None}]
    <3>1. cur' = cur \/ cur' = [cur EXCEPT ![Dup(e)] = c]
      BY Zenon
    <3>. QED  BY <3>1
  <2>. QED  BY <2>1, <2>2, <2>3, Zenon
<1>2. Exclusive'
  BY SMTT(60) DEF Exclusive
<1>3. ShownExists'
  BY DEF ShownExists, Exclusive
<1>4. CopyElsewhere'
  BY DEF CopyElsewhere, Exclusive, ShownExists, Elsewhere
<1>5. StillKnown'
  BY SMTT(60) DEF StillKnown, ShownExists, CopyElsewhere, Elsewhere
<1>6. WillBeHandled'
  BY SMTT(60) DEF WillBeHandled, Exclusive
<1>. QED  BY <1>1, <1>2, <1>3, <1>4, <1>5, <1>6, ZenonT(60)

LEMMA DupRemoveInv ==
  ASSUME WatchInv, NEW e \in Engines, DupRemove(e)
  PROVE  WatchInv'
<1>. DEFINE c == cur[Dup(e)]
<1>. USE WatchdogAssumption, JobNames DEF WatchInv, WatchTypeOK, engines, jobs
<1>1. /\ lock = Dup(e) /\ c \in Containers
      /\ \A f \in Engines : todo[Resched(f)] = {} /\ cur[Resched(f)] = None
  BY DEF DupRemove, Exclusive
<1>2. /\ pc' = [pc EXCEPT ![Dup(e)] = "loop"] /\ cur' = [cur EXCEPT ![Dup(e)] = None]
      /\ UNCHANGED <<reachable, healthy, view, todo, lock, failed>>
  BY Zenon DEF DupRemove, Handled, Goto
<1>3. Exclusive'
  BY <1>1, <1>2, Zenon DEF Exclusive
<1>4. \A f \in Engines : cur'[Dup(f)] = None /\ cur'[Resched(f)] = None
  BY <1>1, <1>2, SMTT(60) DEF Exclusive
<1>5. CopyElsewhere'
  BY <1>4, Zenon DEF CopyElsewhere
<1>6. \A f \in Engines : pc'[Resched(f)] = pc[Resched(f)]
  BY <1>2, Zenon
<1>7. CASE UNCHANGED <<daemon, cache, stale>>
  <2>1. ShownExists' /\ WillBeHandled' /\ StillKnown'
    BY <1>1, <1>2, <1>4, <1>6, <1>7 DEF ShownExists, WillBeHandled, StillKnown
  <2>. QED  BY <1>2, <1>3, <1>5, <1>7, <2>1, ZenonT(60)
<1>8. ASSUME daemon' = [daemon EXCEPT ![e] = @ \ {c}],
             \/ cache' = [cache EXCEPT ![e] = @ \ {c}] /\ UNCHANGED stale
             \/ stale' = stale \cup {c} /\ UNCHANGED cache
      PROVE  WatchInv'
  <2>1. WatchTypeOK'
    BY <1>1, <1>2, <1>8
  <2>2. \A f \in Engines : cache'[f] \subseteq cache[f]
    BY <1>8, SMTT(60)
  <2>3. ShownExists'
    BY <1>1, <1>2, <1>4, <1>8 DEF ShownExists
  <2>4. StillKnown'
    <3>. SUFFICES ASSUME NEW d \in Containers \ stale'
                  PROVE  \E f \in Engines : d \in cache'[f]
      BY Zenon DEF StillKnown
    <3>1. PICK f \in Engines : d \in cache[f] /\ (d = c => f # e)
      BY <1>1, <1>8, SMTT(60) DEF StillKnown, CopyElsewhere, Elsewhere
    <3>. QED  BY <1>8, <3>1, SMTT(60)
  <2>5. WillBeHandled'
    BY <1>2, <1>6, <1>8, <2>2, SMTT(60) DEF WillBeHandled
  <2>. QED  BY <1>3, <1>5, <2>1, <2>3, <2>4, <2>5, ZenonT(60)
<1>. QED  BY <1>7, <1>8, Zenon DEF DupRemove, RemoveContainer

LEMMA ReschedLockInv ==
  ASSUME WatchInv, NEW e \in Engines, ReschedLock(e)
  PROVE  WatchInv'
<1>. USE WatchdogAssumption, JobNames DEF WatchInv, WatchTypeOK, engines, jobs,
       ReschedLock, Lock, Goto
<1>1. WatchTypeOK'
  BY Zenon
<1>2. Exclusive'
  BY Zenon DEF Exclusive
<1>3. ShownExists'
  BY DEF ShownExists, Exclusive
<1>4. CopyElsewhere'
  BY DEF CopyElsewhere, Exclusive, ShownExists, Elsewhere
<1>5. StillKnown'
  BY SMTT(60) DEF StillKnown, ShownExists, CopyElsewhere, Elsewhere
<1>6. WillBeHandled'
  BY DEF WillBeHandled, Exclusive
<1>. QED  BY <1>1, <1>2, <1>3, <1>4, <1>5, <1>6, ZenonT(60)

LEMMA ReschedTakeInv ==
  ASSUME WatchInv, NEW e \in Engines, NEW c \in Containers, ReschedTake(e, c)
  PROVE  WatchInv'
<1>. USE WatchdogAssumption, JobNames DEF WatchInv, WatchTypeOK, engines, jobs,
       ReschedTake, Take, Goto, removeContainer
<1>1. WatchTypeOK'
  BY Zenon
<1>2. Exclusive'
  BY SMTT(60) DEF Exclusive
<1>3. ShownExists'
  BY SMTT(60) DEF ShownExists, Exclusive
<1>4. CopyElsewhere'
  BY SMTT(60) DEF CopyElsewhere, Exclusive, ShownExists, Elsewhere
<1>5. StillKnown'
  <2>. SUFFICES ASSUME NEW d \in Containers \ stale
                PROVE  \/ \E f \in Engines : d \in cache'[f]
                       \/ \E f \in Engines : cur'[Resched(f)] = d
    BY SMTT(60) DEF StillKnown
  <2>1. CASE d = c
    BY <2>1, Zenon
  <2>2. CASE d # c
    <3>1. \A f \in Engines : d \in cache[f] => d \in cache'[f]
      BY <2>2, Zenon
    <3>2. \A f \in Engines : cur[Resched(f)] # d
      BY DEF Exclusive
    <3>. QED  BY <3>1, <3>2, SMTT(60) DEF StillKnown
  <2>. QED  BY <2>1, <2>2, Zenon
<1>6. WillBeHandled'
  BY SMTT(60) DEF WillBeHandled, Exclusive
<1>. QED  BY <1>1, <1>2, <1>3, <1>4, <1>5, <1>6, Zenon

LEMMA ReschedCreateInv ==
  ASSUME WatchInv, NEW e \in Engines, NEW f \in Engines, ReschedCreate(e, f)
  PROVE  WatchInv'
<1>. USE WatchdogAssumption, JobNames DEF WatchInv, WatchTypeOK, engines, jobs,
       ReschedCreate, Handled, Goto
<1>1. WatchTypeOK'
  <2>1. cur[Resched(e)] \in Containers
    BY Zenon DEF Exclusive
  <2>2. daemon' \in [Engines -> SUBSET Containers]
    BY <2>1
  <2>3. cache' \in [Engines -> SUBSET Containers]
    BY <2>1
  <2>4. pc' \in [Jobs -> {"off", "start", "lock", "loop", "act"}]
    BY Zenon
  <2>5. cur' \in [Jobs -> Containers \cup {None}]
    BY Zenon
  <2>. QED  BY <2>2, <2>3, <2>4, <2>5, Zenon
<1>2. Exclusive'
  BY SMTT(60) DEF Exclusive
<1>3. ShownExists'
  BY DEF ShownExists, Exclusive
<1>4. CopyElsewhere'
  BY SMTT(60) DEF CopyElsewhere, Exclusive, ShownExists, Elsewhere
<1>5. StillKnown'
  BY SMTT(60) DEF StillKnown, ShownExists, CopyElsewhere, Elsewhere
<1>6. WillBeHandled'
  BY SMTT(60) DEF WillBeHandled, Exclusive
<1>. QED  BY <1>1, <1>2, <1>3, <1>4, <1>5, <1>6, ZenonT(60)

LEMMA ReschedFailsInv ==
  ASSUME WatchInv, NEW e \in Engines, ReschedFails(e)
  PROVE  WatchInv'
<1>. USE WatchdogAssumption, JobNames DEF WatchInv, WatchTypeOK, engines, jobs,
       ReschedFails, AddContainer, Handled, Goto
<1>1. WatchTypeOK'
  <2>1. cur[Resched(e)] \in Containers
    BY Zenon DEF Exclusive
  <2>2. daemon' \in [Engines -> SUBSET Containers]
    BY <2>1
  <2>3. cache' \in [Engines -> SUBSET Containers] /\ failed' \subseteq Containers
    BY <2>1
  <2>4. pc' \in [Jobs -> {"off", "start", "lock", "loop", "act"}]
    BY Zenon
  <2>5. cur' \in [Jobs -> Containers \cup {None}]
    BY SMTT(60)
  <2>. QED  BY <2>2, <2>3, <2>4, <2>5, SMTT(60)
<1>2. Exclusive'
  BY SMTT(60) DEF Exclusive
<1>3. ShownExists'
  <2>1. \A f \in Engines : daemon[f] \subseteq daemon'[f]
    BY SMTT(60)
  <2>2. cache' = [cache EXCEPT ![e] = @ \cup {cur[Resched(e)]}]
    BY Zenon
  <2>3. \A f \in Engines : cur'[Resched(f)] = None
    BY DEF Exclusive
  <2>. QED  BY <2>1, <2>2, <2>3, SMTT(60) DEF ShownExists
<1>4. CopyElsewhere'
  BY DEF CopyElsewhere, Exclusive, ShownExists, Elsewhere
<1>5. StillKnown'
  BY SMTT(60) DEF StillKnown, ShownExists, CopyElsewhere, Elsewhere
<1>6. WillBeHandled'
  BY Zenon DEF WillBeHandled, Exclusive
<1>. QED  BY <1>1, <1>2, <1>3, <1>4, <1>5, <1>6, ZenonT(60)

LEMMA JobUnlockInv ==
  ASSUME WatchInv, NEW j \in Jobs, JobUnlock(j)
  PROVE  WatchInv'
<1>. USE WatchdogAssumption, JobNames DEF WatchInv, WatchTypeOK, engines, jobs,
       JobUnlock, Unlock, Goto
<1>1. WatchTypeOK'
  BY Zenon
<1>2. Exclusive'
  BY Zenon DEF Exclusive
<1>3. ShownExists'
  BY Zenon DEF ShownExists, Exclusive
<1>4. CopyElsewhere'
  BY Zenon DEF CopyElsewhere, Exclusive, ShownExists, Elsewhere
<1>5. StillKnown'
  BY SMTT(60) DEF StillKnown, ShownExists, CopyElsewhere, Elsewhere
<1>6. WillBeHandled'
  BY Zenon DEF WillBeHandled, Exclusive
<1>. QED  BY <1>1, <1>2, <1>3, <1>4, <1>5, <1>6, ZenonT(60)

LEMMA WatchStep == WatchInv /\ [WatchNext]_watchVars => WatchInv'
<1>. SUFFICES ASSUME WatchInv, [WatchNext]_watchVars PROVE WatchInv'
  BY Zenon
<1>1. ASSUME NEW e \in Engines, Dups(e) PROVE WatchInv'
  BY <1>1, DupRefreshInv, DupLockInv, DupTakeInv, DupRemoveInv, Zenon DEF Dups
<1>2. ASSUME NEW e \in Engines, Rescheds(e) PROVE WatchInv'
  BY <1>2, ReschedLockInv, ReschedTakeInv, ReschedCreateInv, ReschedFailsInv, Zenon DEF Rescheds
<1>3. CASE UNCHANGED watchVars
  <2>1. UNCHANGED <<reachable, healthy, daemon, cache, view, pc, todo, cur, lock, stale, failed>>
    BY <1>3, SMTT(60) DEF watchVars, engines, jobs
  <2>2. WatchTypeOK' /\ Exclusive' /\ ShownExists'
    BY <2>1, SMTT(60) DEF WatchInv, WatchTypeOK, Exclusive, ShownExists
  <2>3. CopyElsewhere' /\ StillKnown' /\ WillBeHandled'
    BY <2>1, Zenon DEF WatchInv, CopyElsewhere, StillKnown, WillBeHandled, Elsewhere
  <2>. QED  BY <2>2, <2>3, Zenon DEF WatchInv
<1>4. ASSUME NEW e \in Engines,
             \/ Lose(e) \/ Return(e) \/ engine_disconnect(e) \/ engine_reconnect(e)
             \/ List(e) \/ Apply(e)
      PROVE  WatchInv'
  BY <1>4, LoseInv, ReturnInv, engine_disconnectInv, engine_reconnectInv, ListInv, ApplyInv, Zenon
<1>. QED  BY <1>1, <1>2, <1>3, <1>4, JobUnlockInv, Zenon DEF WatchNext

LEMMA WatchdogInvariant == WatchSpec => []WatchInv
  BY WatchInitInv, WatchStep, PTL DEF WatchSpec

(* However the events of the engines, the refreshes of their caches and the *)
(* goroutines of rescheduleContainers and removeDuplicateContainers        *)
(* interleave, no container is lost or forgotten: what the caches show     *)
(* exists, a copy is removed only while another one is shown, and the      *)
(* goroutine that takes a container out of a cache puts it back.           *)
THEOREM NothingLost == WatchSpec => []NeverLost
<1>1. WatchInv => NeverLost
  <2>. SUFFICES ASSUME WatchInv, NEW c \in Containers \ stale
                PROVE  \E e \in Engines : c \in daemon[e]
    BY Zenon DEF NeverLost, NotLost, WatchInv
  <2>. QED  BY Zenon DEF WatchInv, StillKnown, ShownExists
<1>. QED  BY <1>1, WatchdogInvariant, PTL

(* A container that an unhealthy engine still shows waits for a goroutine  *)
(* of rescheduleContainers; when all have ended, every container whose     *)
(* creation did not fail exists on an engine that is up.                   *)
THEOREM AllRescheduled == WatchSpec => []Rescheduled
<1>1. WatchInv => Rescheduled
  <2>. SUFFICES ASSUME WatchInv, \A j \in Jobs : pc[j] = "off",
                       NEW c \in Containers \ (stale \cup failed)
                PROVE  \E e \in healthy : c \in daemon[e]
    BY Zenon DEF Rescheduled
  <2>1. \A e \in Engines : cur[Resched(e)] = None /\ todo[Resched(e)] = {}
    <3>1. \A j \in Jobs : lock # j /\ cur[j] = None
      BY Zenon DEF WatchInv, Exclusive
    <3>. QED  BY <3>1, JobNames, Zenon DEF WatchInv, Exclusive
  <2>2. PICK e \in Engines : c \in cache[e]
    BY <2>1, WatchdogAssumption, SMTT(60) DEF WatchInv, StillKnown
  <2>3. e \in healthy
    BY <2>1, <2>2, JobNames, Zenon DEF WatchInv, WillBeHandled
  <2>. QED  BY <2>2, <2>3, Zenon DEF WatchInv, ShownExists
<1>. QED  BY <1>1, WatchdogInvariant, PTL
=============================================================================
