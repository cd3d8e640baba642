-------------------------- MODULE ResourcesProofs ---------------------------
(***************************************************************************)
(* What the manager knows of builds, networks and what else clients name:  *)
(* the requests that wait for the node of a build find it (BuildSyncer),   *)
(* for any sessions, builds, nodes and any finite number of waiting        *)
(* requests; the lists of networks stay right while requests, refreshes    *)
(* and events rewrite them (NetworkCache), for any number of engines and   *)
(* networks; containers are shown only on networks that are listed         *)
(* (NetworkEndpoints); and a name finds what it was shown for, and the     *)
(* listing of containers is the one that was asked for (Lookups), for any  *)
(* names, IDs and any number of entries.                                   *)
(***************************************************************************)
EXTENDS BuildSyncer, NetworkCache, NetworkEndpoints, Lookups, FiniteSetTheorems, TLAPS

Records == [count : Nat, closed : BOOLEAN]

(* A waitRefCounter that nobody waits on has not been closed.              *)
FreshQueue == \A b \in Builds : queueBuild[b].count = 0 => ~queueBuild[b].closed

Inv == /\ TypeOK /\ FreshQueue /\ BuildSignal /\ SessionSignal
       /\ WaitersCounted /\ RunningBuildFound

-----------------------------------------------------------------------------
LEMMA WaitDistinct ==
  /\ \A s \in Sessions : <<"session", s>> \in Wait
  /\ \A b \in Builds : <<"build", b>> \in Wait
  /\ \A s \in Sessions, b \in Builds : <<"session", s>> # <<"build", b>>
BY Zenon DEF Wait

LEMMA WaitersFinite ==
  \A x : IsFiniteSet(WaitersFor(x)) /\ Cardinality(WaitersFor(x)) \in Nat
<1>. TAKE x
<1>1. WaitersFor(x) \subseteq Waiters
  BY Zenon DEF WaitersFor
<1>. QED  BY <1>1, WaiterAssumption, FS_Subset, FS_CardinalityType, Zenon

(* A waiter comes or goes: the waiters for what it waits for grow or       *)
(* shrink by one and those for anything else stay.                         *)
LEMMA WaiterComes ==
  ASSUME TypeOK, NEW w \in Waiters, NEW x, x # None, waiting[w] = None,
         waiting' = [waiting EXCEPT ![w] = x]
  PROVE  /\ Cardinality(WaitersFor(x)') = Cardinality(WaitersFor(x)) + 1
         /\ \A y : y # x /\ y # None => WaitersFor(y)' = WaitersFor(y)
<1>1. w \notin WaitersFor(x) /\ WaitersFor(x)' = WaitersFor(x) \cup {w}
  BY Zenon DEF WaitersFor, TypeOK
<1>2. \A y : y # x /\ y # None => WaitersFor(y)' = WaitersFor(y)
  BY Zenon DEF WaitersFor, TypeOK
<1>. QED  BY <1>1, <1>2, WaitersFinite, FS_AddElement, ZenonT(60)

LEMMA WaiterGoes ==
  ASSUME TypeOK, NEW w \in Waiters, NEW x, x # None, waiting[w] = x,
         waiting' = [waiting EXCEPT ![w] = None]
  PROVE  /\ Cardinality(WaitersFor(x)') = Cardinality(WaitersFor(x)) - 1
         /\ Cardinality(WaitersFor(x)) > 0
         /\ \A y : y # x /\ y # None => WaitersFor(y)' = WaitersFor(y)
<1>1. w \in WaitersFor(x) /\ WaitersFor(x)' = WaitersFor(x) \ {w}
  BY Zenon DEF WaitersFor, TypeOK
<1>2. \A y : y # x /\ y # None => WaitersFor(y)' = WaitersFor(y)
  BY Zenon DEF WaitersFor, TypeOK
<1>3. Cardinality(WaitersFor(x)) # 0
  BY <1>1, WaitersFinite, FS_EmptySet, Zenon
<1>. QED  BY <1>1, <1>2, <1>3, WaitersFinite, FS_RemoveElement

LEMMA SameWaiters ==
  ASSUME waiting' = waiting PROVE \A x : WaitersFor(x)' = WaitersFor(x)
BY Zenon DEF WaitersFor

-----------------------------------------------------------------------------
LEMMA WaitSessionStep ==
  ASSUME Inv, NEW w \in Waiters, NEW s \in Sessions, waitSessionNode(w, s)
  PROVE  Inv'
<1>. USE DEF waitSessionNode
<1>0. <<"session", s>> \in Wait /\ <<"session", s>> # None
  BY WaitDistinct, WaitAssumption, Zenon
<1>1. TypeOK'
  BY <1>0, Zenon DEF Inv, TypeOK
<1>2. FreshQueue' /\ BuildSignal' /\ RunningBuildFound'
  BY Zenon DEF Inv, FreshQueue, BuildSignal, RunningBuildFound
<1>3. SessionSignal'
  BY Zenon DEF Inv, SessionSignal, TypeOK
<1>4. /\ Cardinality(WaitersFor(<<"session", s>>)') = Cardinality(WaitersFor(<<"session", s>>)) + 1
      /\ \A y : y # <<"session", s>> /\ y # None => WaitersFor(y)' = WaitersFor(y)
  BY <1>0, WaiterComes, Zenon DEF Inv
<1>5. \A b \in Builds : WaitersFor(<<"build", b>>)' = WaitersFor(<<"build", b>>)
  BY <1>4, WaitDistinct, WaitAssumption, Zenon
<1>6. \A t \in Sessions \ {s} : WaitersFor(<<"session", t>>)' = WaitersFor(<<"session", t>>)
  BY <1>4, WaitDistinct, WaitAssumption, Zenon
<1>7. Cardinality(WaitersFor(<<"session", s>>)) = 0
  BY Zenon DEF Inv, WaitersCounted
<1>8. \A b \in Builds :
        queueBuild'[b].count = Cardinality(WaitersFor(<<"build", b>>)')
  BY <1>5, Zenon DEF Inv, WaitersCounted
<1>9. \A t \in Sessions : Cardinality(WaitersFor(<<"session", t>>)') =
                            IF queueSession'[t] = "none" THEN 0 ELSE 1
  <2>. TAKE t \in Sessions
  <2>1. CASE t = s
    BY <2>1, <1>4, <1>7 DEF Inv, TypeOK
  <2>2. CASE t # s
    <3>1. queueSession'[t] = queueSession[t]
      BY <2>2, Zenon DEF Inv, TypeOK
    <3>2. WaitersFor(<<"session", t>>)' = WaitersFor(<<"session", t>>)
      BY <2>2, <1>6, Zenon
    <3>. QED  BY <3>1, <3>2, Zenon DEF Inv, WaitersCounted
  <2>. QED  BY <2>1, <2>2, Zenon
<1>10. WaitersCounted'
  BY <1>8, <1>9, Zenon DEF WaitersCounted
<1>. QED  BY <1>1, <1>2, <1>3, <1>10, Zenon DEF Inv

LEMMA LeaveSessionStep ==
  ASSUME Inv, NEW w \in Waiters, NEW s \in Sessions, LeaveSession(w, s)
  PROVE  Inv'
<1>. USE DEF LeaveSession
<1>0. <<"session", s>> \in Wait /\ <<"session", s>> # None
  BY WaitDistinct, WaitAssumption, Zenon
<1>1. TypeOK'
  BY Zenon DEF Inv, TypeOK
<1>2. FreshQueue' /\ BuildSignal' /\ RunningBuildFound'
  BY Zenon DEF Inv, FreshQueue, BuildSignal, RunningBuildFound
<1>3. SessionSignal'
  BY Zenon DEF Inv, SessionSignal, TypeOK
<1>4. /\ Cardinality(WaitersFor(<<"session", s>>)') = Cardinality(WaitersFor(<<"session", s>>)) - 1
      /\ Cardinality(WaitersFor(<<"session", s>>)) > 0
      /\ \A y : y # <<"session", s>> /\ y # None => WaitersFor(y)' = WaitersFor(y)
  BY <1>0, WaiterGoes, Zenon DEF Inv
<1>5. \A b \in Builds : WaitersFor(<<"build", b>>)' = WaitersFor(<<"build", b>>)
  BY <1>4, WaitDistinct, WaitAssumption, Zenon
<1>6. \A t \in Sessions \ {s} : WaitersFor(<<"session", t>>)' = WaitersFor(<<"session", t>>)
  BY <1>4, WaitDistinct, WaitAssumption, Zenon
<1>7. Cardinality(WaitersFor(<<"session", s>>)) = 1
  BY <1>4 DEF Inv, WaitersCounted
<1>8. \A b \in Builds :
        queueBuild'[b].count = Cardinality(WaitersFor(<<"build", b>>)')
  BY <1>5, Zenon DEF Inv, WaitersCounted
<1>9. \A t \in Sessions : Cardinality(WaitersFor(<<"session", t>>)') =
                            IF queueSession'[t] = "none" THEN 0 ELSE 1
  <2>. TAKE t \in Sessions
  <2>1. CASE t = s
    BY <2>1, <1>4, <1>7 DEF Inv, TypeOK
  <2>2. CASE t # s
    <3>1. queueSession'[t] = queueSession[t]
      BY <2>2, Zenon DEF Inv, TypeOK
    <3>2. WaitersFor(<<"session", t>>)' = WaitersFor(<<"session", t>>)
      BY <2>2, <1>6, Zenon
    <3>. QED  BY <3>1, <3>2, Zenon DEF Inv, WaitersCounted
  <2>. QED  BY <2>1, <2>2, Zenon
<1>10. WaitersCounted'
  BY <1>8, <1>9, Zenon DEF WaitersCounted
<1>. QED  BY <1>1, <1>2, <1>3, <1>10, Zenon DEF Inv

LEMMA WaitBuildStep ==
  ASSUME Inv, NEW w \in Waiters, NEW b \in Builds, waitBuildNode(w, b)
  PROVE  Inv'
<1>. USE DEF waitBuildNode
<1>0. <<"build", b>> \in Wait /\ <<"build", b>> # None
  BY WaitDistinct, WaitAssumption, Zenon
<1>1. queueBuild[b] \in Records /\ queueBuild[b].count + 1 \in Nat
  BY DEF Inv, TypeOK, Records
<1>2. /\ \A c \in Builds \ {b} : queueBuild'[c] = queueBuild[c]
      /\ queueBuild'[b] = [queueBuild[b] EXCEPT !.count = @ + 1]
      /\ queueBuild'[b].count = queueBuild[b].count + 1
      /\ queueBuild'[b].closed = queueBuild[b].closed
      /\ queueBuild'[b] \in Records
  BY <1>1, Zenon DEF Inv, TypeOK, Records
<1>3. queueBuild' \in [Builds -> Records]
  BY <1>2, Zenon DEF Inv, TypeOK, Records
<1>4. TypeOK'
  BY <1>0, <1>3, Zenon DEF Inv, TypeOK, Records
<1>5. ~queueBuild[b].closed
  BY <1>1 DEF Inv, FreshQueue, BuildSignal, Records
<1>6. FreshQueue' /\ BuildSignal'
  BY <1>1, <1>2, <1>5, Zenon DEF Inv, FreshQueue, BuildSignal, Records
<1>7. SessionSignal' /\ RunningBuildFound'
  BY Zenon DEF Inv, SessionSignal, RunningBuildFound
<1>8. /\ Cardinality(WaitersFor(<<"build", b>>)') = Cardinality(WaitersFor(<<"build", b>>)) + 1
      /\ \A y : y # <<"build", b>> /\ y # None => WaitersFor(y)' = WaitersFor(y)
  BY <1>0, WaiterComes, Zenon DEF Inv
<1>9. \A s \in Sessions : WaitersFor(<<"session", s>>)' = WaitersFor(<<"session", s>>)
  BY <1>8, WaitDistinct, WaitAssumption, Zenon
<1>10. \A c \in Builds \ {b} : WaitersFor(<<"build", c>>)' = WaitersFor(<<"build", c>>)
  BY <1>8, WaitDistinct, WaitAssumption, Zenon
<1>11. WaitersCounted'
  BY <1>2, <1>8, <1>9, <1>10 DEF Inv, WaitersCounted
<1>. QED  BY <1>4, <1>6, <1>7, <1>11, Zenon DEF Inv

LEMMA LeaveBuildStep ==
  ASSUME Inv, NEW w \in Waiters, NEW b \in Builds, LeaveBuild(w, b)
  PROVE  Inv'
<1>. USE DEF LeaveBuild, Release
<1>0. <<"build", b>> \in Wait /\ <<"build", b>> # None
  BY WaitDistinct, WaitAssumption, Zenon
<1>1. /\ Cardinality(WaitersFor(<<"build", b>>)') = Cardinality(WaitersFor(<<"build", b>>)) - 1
      /\ Cardinality(WaitersFor(<<"build", b>>)) > 0
      /\ \A y : y # <<"build", b>> /\ y # None => WaitersFor(y)' = WaitersFor(y)
  BY <1>0, WaiterGoes, Zenon DEF Inv
<1>2. queueBuild[b] \in Records /\ queueBuild[b].count > 0
  BY <1>1, Zenon DEF Inv, TypeOK, Records, WaitersCounted
<1>3. /\ \A c \in Builds \ {b} : queueBuild'[c] = queueBuild[c]
      /\ queueBuild'[b] \in Records
      /\ queueBuild'[b].count = queueBuild[b].count - 1
      /\ queueBuild'[b].count = 0 => ~queueBuild'[b].closed
      /\ queueBuild'[b].count > 0 => queueBuild'[b].closed = queueBuild[b].closed
  <2>1. CASE queueBuild[b].count = 1
    BY <1>2, <2>1 DEF Inv, TypeOK, Records, NoQueue
  <2>2. CASE queueBuild[b].count # 1
    <3>1. queueBuild'[b] = [count |-> queueBuild[b].count - 1,
                            closed |-> queueBuild[b].closed]
      BY <2>2, Zenon DEF Inv, TypeOK
    <3>2. queueBuild[b].count - 1 \in Nat \ {0}
      BY <1>2, <2>2 DEF Records
    <3>. QED  BY <1>2, <3>1, <3>2 DEF Inv, TypeOK, Records
  <2>. QED  BY <2>1, <2>2, Zenon
<1>4. queueBuild' \in [Builds -> Records]
  BY <1>3, Zenon DEF Inv, TypeOK, Records
<1>5. TypeOK'
  BY <1>4, Zenon DEF Inv, TypeOK, Records
<1>6. FreshQueue' /\ BuildSignal'
  BY <1>2, <1>3, Zenon DEF Inv, FreshQueue, BuildSignal, Records
<1>7. SessionSignal' /\ RunningBuildFound'
  BY Zenon DEF Inv, SessionSignal, RunningBuildFound
<1>8. \A s \in Sessions : WaitersFor(<<"session", s>>)' = WaitersFor(<<"session", s>>)
  BY <1>1, WaitDistinct, WaitAssumption, Zenon
<1>9. \A c \in Builds \ {b} : WaitersFor(<<"build", c>>)' = WaitersFor(<<"build", c>>)
  BY <1>1, WaitDistinct, WaitAssumption, Zenon
<1>10. WaitersCounted'
  BY <1>1, <1>3, <1>8, <1>9, Zenon DEF Inv, WaitersCounted
<1>. QED  BY <1>5, <1>6, <1>7, <1>10, Zenon DEF Inv

LEMMA SameCounts ==
  ASSUME WaitersCounted, waiting' = waiting,
         \A b \in Builds : queueBuild'[b].count = queueBuild[b].count,
         \A s \in Sessions : queueSession'[s] = "none" <=> queueSession[s] = "none"
  PROVE  WaitersCounted'
BY SameWaiters, Zenon DEF WaitersCounted

LEMMA StartBuildStep ==
  ASSUME Inv, NEW s \in Sessions, NEW b \in Builds, NEW n \in Nodes,
         startBuild(s, b, n)
  PROVE  Inv'
<1>1. PICK m \in Nodes : /\ nodeByBuildID' = [nodeByBuildID EXCEPT ![b] = m]
                         /\ node' = [node EXCEPT ![b] = m]
  BY Zenon DEF startBuild, SignalBuild, SignalSession, Inv, TypeOK
<1>2. m # None /\ n # None
  BY NoneAssumption, Zenon
<1>3. /\ \A c \in Builds \ {b} : queueBuild'[c] = queueBuild[c]
      /\ queueBuild'[b].count = queueBuild[b].count
      /\ queueBuild'[b].closed <=> queueBuild[b].count > 0
      /\ queueBuild'[b] \in Records
  <2>1. queueBuild[b] \in Records /\ (queueBuild[b].count > 0) \in BOOLEAN
    BY DEF Inv, TypeOK, Records
  <2>2. queueBuild'[b] = [queueBuild[b] EXCEPT !.closed = queueBuild[b].count > 0]
    BY Zenon DEF startBuild, SignalBuild, SignalSession, Inv, TypeOK
  <2>3. \A c \in Builds \ {b} : queueBuild'[c] = queueBuild[c]
    BY Zenon DEF startBuild, SignalBuild, SignalSession, Inv, TypeOK
  <2>4. queueBuild'[b].closed <=> queueBuild[b].count > 0
    BY <2>1, <2>2, Zenon DEF Records
  <2>5. queueBuild'[b].count = queueBuild[b].count /\ queueBuild'[b] \in Records
    BY <2>1, <2>2, Zenon DEF Records
  <2>. QED  BY <2>3, <2>4, <2>5, Zenon
<1>4. queueBuild' \in [Builds -> Records]
  BY <1>3, Zenon DEF startBuild, SignalBuild, SignalSession, Inv, TypeOK, Records
<1>5. \A t \in Sessions :
        /\ t # s => /\ queueSession'[t] = queueSession[t]
                    /\ nodeBySessionID'[t] = nodeBySessionID[t]
        /\ queueSession'[s] # "open"
        /\ queueSession'[t] = "none" <=> queueSession[t] = "none"
  BY Zenon DEF startBuild, SignalBuild, SignalSession, Inv, TypeOK
<1>6. TypeOK'
  <2>1. nodeByBuildID' \in [Builds -> Nodes \cup {None}] /\ node' \in [Builds -> Nodes \cup {None}]
    BY <1>1, Zenon DEF Inv, TypeOK
  <2>2. nodeBySessionID' \in [Sessions -> Nodes \cup {None}]
    BY Zenon DEF startBuild, SignalBuild, SignalSession, Inv, TypeOK
  <2>3. /\ queueSession' \in [Sessions -> {"none", "open", "closed"}]
        /\ wokenBy' \in [Sessions -> Builds \cup {None}]
    BY ZenonT(60) DEF startBuild, SignalBuild, SignalSession, Inv, TypeOK
  <2>4. /\ phase' \in [Builds -> {"idle", "running", "ended", "lost"}]
        /\ session' \in [Builds -> Sessions \cup {None}]
        /\ waiting' \in [Waiters -> Wait \cup {None}]
    BY Zenon DEF startBuild, SignalBuild, SignalSession, Inv, TypeOK
  <2>. QED  BY <1>4, <2>1, <2>2, <2>3, <2>4, Zenon DEF TypeOK, Records
<1>7. FreshQueue'
  BY <1>3 DEF Inv, TypeOK, Records, FreshQueue
<1>8. BuildSignal'
  BY <1>1, <1>2, <1>3, Zenon DEF Inv, TypeOK, BuildSignal
<1>9. SessionSignal'
  BY <1>5, Zenon DEF Inv, SessionSignal
<1>10. RunningBuildFound'
  BY <1>1, <1>2, Zenon DEF startBuild, SignalBuild, SignalSession, Inv, TypeOK, RunningBuildFound
<1>11. WaitersCounted'
  BY <1>3, <1>5, SameCounts, Zenon DEF startBuild, SignalBuild, SignalSession, Inv
<1>. QED  BY <1>6, <1>7, <1>8, <1>9, <1>10, <1>11, Zenon DEF Inv

LEMMA EndBuildStep ==
  ASSUME Inv, NEW b \in Builds, EndBuild(b) \/ Cleanup(b)
  PROVE  Inv'
<1>1. TypeOK'
  BY ZenonT(60) DEF EndBuild, Cleanup, Forget, Inv, TypeOK
<1>2. FreshQueue'
  BY Zenon DEF EndBuild, Cleanup, Forget, Inv, FreshQueue
<1>3. BuildSignal'
  BY DEF EndBuild, Cleanup, Forget, WaitsOver, Inv, TypeOK, BuildSignal
<1>4. SessionSignal'
  BY Zenon DEF EndBuild, Cleanup, Forget, Inv, TypeOK, SessionSignal
<1>5. RunningBuildFound'
  BY Zenon DEF EndBuild, Cleanup, Forget, Inv, TypeOK, RunningBuildFound
<1>6. WaitersCounted'
  BY SameCounts, Zenon DEF EndBuild, Cleanup, Forget, Inv
<1>. QED  BY <1>1, <1>2, <1>3, <1>4, <1>5, <1>6, Zenon DEF Inv

LEMMA Initially == Init => Inv
<1>. SUFFICES ASSUME Init PROVE Inv
  BY Zenon
<1>. USE DEF Init, NoQueue
<1>1. TypeOK
  BY Zenon DEF TypeOK
<1>2. FreshQueue /\ BuildSignal /\ SessionSignal /\ RunningBuildFound
  BY Zenon DEF FreshQueue, BuildSignal, SessionSignal, RunningBuildFound
<1>3. \A x \in Wait : WaitersFor(x) = {}
  BY WaitAssumption, Zenon DEF WaitersFor
<1>4. WaitersCounted
  BY <1>3, WaitDistinct, FS_EmptySet, Zenon DEF WaitersCounted
<1>. QED  BY <1>1, <1>2, <1>4, Zenon DEF Inv

LEMMA Stutter == Inv /\ UNCHANGED vars => Inv'
<1>. SUFFICES ASSUME Inv, UNCHANGED vars PROVE Inv'
  BY Zenon
<1>. USE DEF vars
<1>1. TypeOK'
  BY Zenon DEF Inv, TypeOK
<1>2. FreshQueue' /\ BuildSignal' /\ SessionSignal' /\ RunningBuildFound'
  BY Zenon DEF Inv, FreshQueue, BuildSignal, SessionSignal, RunningBuildFound
<1>3. WaitersCounted'
  BY SameCounts, Zenon DEF Inv
<1>. QED  BY <1>1, <1>2, <1>3, Zenon DEF Inv

(* The parts of Inv are preserved together: the wake-ups need the counts,  *)
(* because an entry lives exactly as long as somebody waits.               *)
LEMMA Invariance == Spec => []Inv
<1>1. Inv /\ [Next]_vars => Inv'
  BY WaitSessionStep, LeaveSessionStep, WaitBuildStep, LeaveBuildStep,
     StartBuildStep, EndBuildStep, Stutter DEF Next, Leave
<1>. QED  BY Initially, <1>1, PTL DEF Spec

-----------------------------------------------------------------------------
(* The maps of buildSyncer have their types in every state.                *)
THEOREM TypeCorrect == Spec => []TypeOK
<1>1. Inv => TypeOK
  BY Zenon DEF Inv
<1>. QED  BY <1>1, Invariance, PTL

(* No waiter of waitBuildNode or waitSessionNode sleeps through startBuild,*)
(* and none is woken without a node.                                       *)
THEOREM NoLostWakeup == Spec => []SignalsArrive
<1>1. Inv => SignalsArrive
  BY Zenon DEF Inv, SignalsArrive
<1>. QED  BY <1>1, Invariance, PTL

(* The count of a waitRefCounter is the number of its waiters.             *)
THEOREM CountExact == Spec => []WaitersCounted
<1>1. Inv => WaitersCounted
  BY Zenon DEF Inv
<1>. QED  BY <1>1, Invariance, PTL

(* A running build is registered under its ID with the node it runs on.    *)
THEOREM BuildRegistered == Spec => []RunningBuildFound
<1>1. Inv => RunningBuildFound
  BY Zenon DEF Inv
<1>. QED  BY <1>1, Invariance, PTL

-----------------------------------------------------------------------------
(* NetworkCache.  The inductive invariant: a network exists only once it   *)
(* was created, and only where the request that creates it is; one that is *)
(* to be forgotten exists no more, and only a global one is removed        *)
(* through another engine than that of its entry;                          *)
RequestRight(n) ==
  /\ at[n] # Nobody => n \in ever
  /\ creating[n].pc # "off" => /\ n \in ever /\ creating[n].engine \in NetEngines
                              /\ at[n] \in {Nobody, creating[n].engine}
  /\ removing[n].pc = "forget" => at[n] = Nobody /\ n \in ever
  /\ removing[n].pc = "others" => n \in Global

RequestsRight == \A n \in Networks : RequestRight(n)

(* an entry that is in a list and should not be is late or unheard of, or  *)
(* the request that removed the network is about to delete this very one;  *)
ShownRight(e, n) ==
  n \in cache[e] =>
    \/ Exists(e, n) \/ n \in late[e] \/ n \in unheard[e]
    \/ removing[n].pc = "forget" /\ (n \in Global \/ e = removing[n].engine)

(* an entry that is missing is late or unheard of, or the request that     *)
(* creates the network has yet to come to it.                              *)
MissingRight(e, n) ==
  Exists(e, n) =>
    \/ n \in cache[e] \/ n \in late[e] \/ n \in unheard[e]
    \/ creating[n].pc \in {"inspect", "apply"}
    \/ creating[n].pc = "share" /\ e # creating[n].engine

EntriesRight == \A e \in NetEngines, n \in Networks : ShownRight(e, n) /\ MissingRight(e, n)

NetInv == NetTypeOK /\ RequestsRight /\ EntriesRight

CreateRequests == [pc : {"off", "inspect", "apply", "share"},
                   engine : NetEngines \cup {Nobody}, found : BOOLEAN]
RemoveRequests == [pc : {"off", "call", "others", "forget"},
                   engine : NetEngines \cup {Nobody}, tried : SUBSET NetEngines]

LEMMA NetInitInv == NetInit => NetInv
<1>. SUFFICES ASSUME NetInit PROVE NetInv
  BY Zenon
<1>1. NetTypeOK
  <2>1. creating \in [Networks -> CreateRequests]
    BY Zenon DEF NetInit, Idle, CreateRequests
  <2>2. removing \in [Networks -> RemoveRequests]
    BY Zenon DEF NetInit, Resting, RemoveRequests
  <2>3. told \in [NetEngines -> (SUBSET Networks) \cup {Nobody}]
    BY Zenon DEF NetInit
  <2>4. monitor \in [NetEngines -> Inspected \cup {Nobody}]
    BY Zenon DEF NetInit
  <2>. QED  BY <2>1, <2>2, <2>3, <2>4, Zenon DEF NetInit, NetTypeOK, CreateRequests, RemoveRequests
<1>2. RequestsRight /\ EntriesRight
  BY Zenon DEF NetInit, RequestsRight, RequestRight, EntriesRight, ShownRight, MissingRight, Exists, Resting, Idle
<1>. QED  BY <1>1, <1>2, Zenon DEF NetInv

(* What Entry writes.                                                      *)
Writes(new, old, es, n, b) ==
  /\ new \in [NetEngines -> SUBSET Networks]
  /\ \A e \in NetEngines, m \in Networks :
       m \in new[e] <=> IF e \in es /\ m = n THEN b ELSE m \in old[e]

LEMMA EntryWritten ==
  ASSUME NEW old \in [NetEngines -> SUBSET Networks], NEW es, NEW n \in Networks,
         NEW b \in BOOLEAN
  PROVE  Writes(Entry(old, es, n, b), old, es, n, b)
<1>1. Entry(old, es, n, b) \in [NetEngines -> SUBSET Networks]
  BY Zenon DEF Entry
<1>2. ASSUME NEW e \in NetEngines, NEW m \in Networks
      PROVE  m \in Entry(old, es, n, b)[e] <=> IF e \in es /\ m = n THEN b ELSE m \in old[e]
  BY Zenon DEF Entry
<1>. QED  BY <1>1, <1>2, Zenon DEF Writes

(* A step leaves a network alone, and the entry of it in one list.         *)
Alone(m) ==
  /\ at'[m] = at[m] /\ creating'[m] = creating[m] /\ removing'[m] = removing[m]
  /\ m \in ever' <=> m \in ever

SameEntry(e, m) ==
  /\ m \in cache'[e] <=> m \in cache[e]
  /\ m \in late'[e] <=> m \in late[e]
  /\ m \in unheard'[e] <=> m \in unheard[e]

(* So the invariant of a step that is about the network n, and about no    *)
(* other, is a matter of the entries of n.                                 *)
LEMMA OneNetwork ==
  ASSUME NetInv, UNCHANGED scope, NEW n \in Networks,
         \A m \in Networks \ {n} : Alone(m),
         \A m \in Networks \ {n}, e \in NetEngines : SameEntry(e, m),
         RequestRight(n)',
         \A e \in NetEngines : ShownRight(e, n)' /\ MissingRight(e, n)'
  PROVE  RequestsRight' /\ EntriesRight'
<1>1. \A m \in Networks : (m \in Global)' = (m \in Global)
  BY Zenon DEF Global
<1>2. RequestsRight'
  <2>. SUFFICES ASSUME NEW m \in Networks, m # n PROVE RequestRight(m)'
    BY Zenon DEF RequestsRight, RequestRight
  <2>1. Alone(m)
    BY Zenon
  <2>. QED  BY <1>1, <2>1 DEF Alone, RequestsRight, RequestRight, NetInv
<1>3. ASSUME NEW m \in Networks, m # n, NEW e \in NetEngines
      PROVE  ShownRight(e, m)' /\ MissingRight(e, m)'
  <2>1. Alone(m) /\ SameEntry(e, m)
    BY <1>3, Zenon
  <2>2. Exists(e, m)' <=> Exists(e, m)
    BY <1>1, <2>1, Zenon DEF Exists, Alone
  <2>3. ShownRight(e, m) /\ MissingRight(e, m)
    BY Zenon DEF NetInv, EntriesRight
  <2>4. ShownRight(e, m)'
    BY <1>1, <2>1, <2>2, <2>3 DEF ShownRight, Alone, SameEntry
  <2>5. MissingRight(e, m)'
    BY <2>1, <2>2, <2>3 DEF MissingRight, Alone, SameEntry
  <2>. QED  BY <2>4, <2>5, Zenon
<1>4. EntriesRight'
  BY <1>3, Zenon DEF EntriesRight
<1>. QED  BY <1>2, <1>4, Zenon

(* A step writes what a daemon has said of one network.                    *)
Answered(e, n, b) ==
  /\ cache' \in [NetEngines -> SUBSET Networks]
  /\ late' \in [NetEngines -> SUBSET Networks]
  /\ unheard' \in [NetEngines -> SUBSET Networks]
  /\ \A f \in NetEngines, m \in Networks : m # n \/ f # e => SameEntry(f, m)
  /\ n \in cache'[e] <=> b
  /\ n \in late'[e] <=> (b # Exists(e, n))

LEMMA AnswerWritten ==
  ASSUME NetInv, NEW e \in NetEngines, NEW n \in Networks, NEW b \in BOOLEAN, SetEntry(e, n, b)
  PROVE  Answered(e, n, b)
<1>1. /\ cache \in [NetEngines -> SUBSET Networks] /\ late \in [NetEngines -> SUBSET Networks]
      /\ unheard \in [NetEngines -> SUBSET Networks] /\ (b # Exists(e, n)) \in BOOLEAN
  BY Zenon DEF NetInv, NetTypeOK
<1>2. /\ cache' = Entry(cache, {e}, n, b) /\ late' = Entry(late, {e}, n, b # Exists(e, n))
      /\ unheard' = Entry(unheard, {e}, n, FALSE)
  BY Zenon DEF SetEntry
<1>3. Writes(cache', cache, {e}, n, b)
  BY <1>1, <1>2, EntryWritten, Zenon
<1>4. Writes(late', late, {e}, n, b # Exists(e, n))
  BY <1>1, <1>2, EntryWritten, Zenon
<1>5. Writes(unheard', unheard, {e}, n, FALSE)
  BY <1>1, <1>2, EntryWritten, Zenon
<1>. USE DEF Writes
<1>6. \A f \in NetEngines, m \in Networks : m # n \/ f # e => SameEntry(f, m)
  BY <1>3, <1>4, <1>5, Zenon DEF SameEntry
<1>. QED  BY <1>3, <1>4, <1>5, <1>6 DEF Answered

(* The entry it writes is right or late; the request that creates the      *)
(* network may have come to the end of its own entry.                      *)
LEMMA EntryOfOne ==
  ASSUME NetInv, NEW e \in NetEngines, NEW n \in Networks, NEW b \in BOOLEAN,
         UNCHANGED <<scope, at, ever, removing>>, Answered(e, n, b),
         \A m \in Networks \ {n} : creating'[m] = creating[m],
         \/ creating'[n] = creating[n]
         \/ /\ creating[n].pc # "off" /\ creating[n].engine = e
            /\ creating'[n].pc = "share" /\ creating'[n].engine = e
  PROVE  RequestsRight' /\ EntriesRight'
<1>. USE DEF Answered
<1>1. \A f \in NetEngines : Exists(f, n)' <=> Exists(f, n)
  BY Zenon DEF Exists, Global
<1>2. (n \in Global)' <=> n \in Global
  BY Zenon DEF Global
<1>3. \A f \in NetEngines : ShownRight(f, n) /\ MissingRight(f, n)
  BY Zenon DEF NetInv, EntriesRight
<1>4. ASSUME NEW f \in NetEngines PROVE ShownRight(f, n)'
  <2>1. CASE f = e
    BY <1>1, <2>1 DEF ShownRight, Exists
  <2>2. CASE f # e
    <3>1. SameEntry(f, n)
      BY <2>2, Zenon
    <3>. QED  BY <1>1, <1>2, <1>3, <3>1 DEF ShownRight, SameEntry
  <2>. QED  BY <2>1, <2>2, Zenon
<1>5. ASSUME NEW f \in NetEngines PROVE MissingRight(f, n)'
  <2>1. CASE f = e
    BY <1>1, <2>1 DEF MissingRight, Exists
  <2>2. CASE f # e
    <3>1. SameEntry(f, n)
      BY <2>2, Zenon
    <3>. QED  BY <1>1, <1>3, <2>2, <3>1 DEF MissingRight, SameEntry
  <2>. QED  BY <2>1, <2>2, Zenon
<1>6. \A m \in Networks \ {n} : Alone(m)
  BY Zenon DEF Alone
<1>7. \A m \in Networks \ {n}, f \in NetEngines : SameEntry(f, m)
  BY Zenon
<1>8. RequestRight(n)'
  BY DEF NetInv, RequestsRight, RequestRight, Global
<1>. QED  BY <1>4, <1>5, <1>6, <1>7, <1>8, OneNetwork, Zenon

(* One lemma for each action: it keeps every conjunct of the invariant.     *)
LEMMA ReadingInv ==
  ASSUME NetInv, NEW e \in NetEngines, RefreshNetworksList(e) \/ HandleInspect(e)
  PROVE  NetInv'
<1>. USE DEF NetInv, RefreshNetworksList, HandleInspect
<1>1. told' \in [NetEngines -> (SUBSET Networks) \cup {Nobody}]
  BY DEF NetTypeOK, On
<1>2. monitor' \in [NetEngines -> Inspected \cup {Nobody}]
  <2>1. \A n \in Networks : [net |-> n, found |-> Exists(e, n)] \in Inspected
    BY Zenon DEF Inspected, Exists
  <2>. QED  BY <2>1 DEF NetTypeOK
<1>3. events' \in [NetEngines -> SUBSET Networks]
  BY DEF NetTypeOK
<1>4. NetTypeOK'
  BY <1>1, <1>2, <1>3, SMTT(60) DEF NetTypeOK, Inspected
<1>5. RequestsRight' /\ EntriesRight'
  BY DEF RequestsRight, RequestRight, EntriesRight, ShownRight, MissingRight, Exists, Global
<1>. QED  BY <1>4, <1>5, Zenon

LEMMA RefreshNetworksApplyInv ==
  ASSUME NetInv, NEW e \in NetEngines, RefreshNetworksApply(e)
  PROVE  NetInv'
<1>. USE DEF NetInv, NetTypeOK, RefreshNetworksApply
<1>1. NetTypeOK'
  <2>1. /\ cache' \in [NetEngines -> SUBSET Networks] /\ late' \in [NetEngines -> SUBSET Networks]
        /\ unheard' \in [NetEngines -> SUBSET Networks]
    BY Zenon
  <2>2. told' \in [NetEngines -> (SUBSET Networks) \cup {Nobody}]
    BY Zenon
  <2>. QED  BY <2>1, <2>2, Zenon DEF Inspected
<1>2. RequestsRight'
  BY Zenon DEF RequestsRight, RequestRight, Global
<1>3. EntriesRight'
  BY DEF EntriesRight, ShownRight, MissingRight, Exists, Global
<1>. QED  BY <1>1, <1>2, <1>3, Zenon

LEMMA HandleApplyInv ==
  ASSUME NetInv, NEW e \in NetEngines, HandleApply(e)
  PROVE  NetInv'
<1>. DEFINE n == monitor[e].net
            b == monitor[e].found
<1>1. n \in Networks /\ b \in BOOLEAN
  BY Zenon DEF HandleApply, NetInv, NetTypeOK, Inspected
<1>2. /\ SetEntry(e, n, b)
      /\ UNCHANGED <<scope, at, ever, told, events, creating, removing>>
      /\ monitor' = [monitor EXCEPT ![e] = Nobody]
  BY Zenon DEF HandleApply
<1>3. monitor' \in [NetEngines -> Inspected \cup {Nobody}]
  BY <1>2, Zenon DEF NetInv, NetTypeOK
<1>. HIDE DEF n, b
<1>4. Answered(e, n, b)
  BY <1>1, <1>2, AnswerWritten, Zenon
<1>5. NetTypeOK'
  BY <1>2, <1>3, <1>4, Zenon DEF NetInv, NetTypeOK, Inspected, Answered
<1>6. RequestsRight' /\ EntriesRight'
  BY <1>1, <1>2, <1>4, EntryOfOne, Zenon
<1>. QED  BY <1>5, <1>6, Zenon DEF NetInv

(* The daemon creates the network; the answer comes or is lost.            *)
LEMMA CreateNetworkInv ==
  ASSUME NetInv, NEW n \in Networks, NEW e \in NetEngines, CreateNetwork(n, e)
  PROVE  NetInv'
<1>. DEFINE es == {f \in NetEngines : n \in Global \/ f = e}
<1>1. /\ n \notin ever
      /\ at' = [at EXCEPT ![n] = e]
      /\ ever' = ever \cup {n}
      /\ events' = [events EXCEPT ![e] = @ \cup {n}]
      /\ UNCHANGED <<scope, cache, told, monitor, removing, late>>
  BY Zenon DEF CreateNetwork
<1>2. /\ at' \in [Networks -> NetEngines \cup {Nobody}]
      /\ ever' \subseteq Networks
      /\ events' \in [NetEngines -> SUBSET Networks]
  BY <1>1, Zenon DEF NetInv, NetTypeOK
<1>3. /\ at'[n] = e /\ n \in ever'
      /\ \A m \in Networks \ {n} : at'[m] = at[m] /\ (m \in ever' <=> m \in ever)
  BY <1>1, Zenon DEF NetInv, NetTypeOK
<1>4. at[n] = Nobody /\ creating[n].pc = "off" /\ removing[n].pc # "forget"
  BY <1>1, Zenon DEF NetInv, RequestsRight, RequestRight
<1>5. removing[n].pc = "others" => n \in Global
  BY Zenon DEF NetInv, RequestsRight, RequestRight
<1>6. \A f \in NetEngines : Exists(f, n)' => f \in es
  BY <1>1, <1>3, Zenon DEF Exists, Global
<1>7. \A f \in NetEngines : n \in cache[f] => n \in late[f] \/ n \in unheard[f]
  BY <1>4, Zenon DEF NetInv, EntriesRight, ShownRight, Exists
<1>8. CASE /\ creating' = [creating EXCEPT ![n] = [Idle EXCEPT !.pc = "inspect", !.engine = e]]
           /\ UNCHANGED unheard
  <2>1. creating' \in [Networks -> CreateRequests]
    BY <1>8, Zenon DEF NetInv, NetTypeOK, Idle, CreateRequests
  <2>2. /\ creating'[n].pc = "inspect" /\ creating'[n].engine = e
        /\ \A m \in Networks \ {n} : creating'[m] = creating[m]
    BY <1>8, Zenon DEF NetInv, NetTypeOK, Idle
  <2>3. NetTypeOK'
    BY <1>1, <1>2, <1>8, <2>1, Zenon DEF NetInv, NetTypeOK, Inspected, CreateRequests
  <2>4. \A f \in NetEngines : ShownRight(f, n)' /\ MissingRight(f, n)'
    BY <1>1, <1>7, <1>8, <2>2 DEF ShownRight, MissingRight
  <2>5. \A m \in Networks \ {n}, f \in NetEngines : SameEntry(f, m)
    BY <1>1, <1>8, Zenon DEF SameEntry
  <2>6. \A m \in Networks \ {n} : Alone(m)
    BY <1>1, <1>3, <2>2, Zenon DEF Alone
  <2>7. RequestRight(n)'
    BY <1>1, <1>3, <1>4, <1>5, <2>2, Zenon DEF RequestRight, Global
  <2>8. RequestsRight' /\ EntriesRight'
    BY <1>1, <2>4, <2>5, <2>6, <2>7, OneNetwork, Zenon
  <2>. QED  BY <2>3, <2>8, Zenon DEF NetInv
<1>9. CASE unheard' = Entry(unheard, es, n, TRUE) /\ UNCHANGED creating
  <2>1. Writes(unheard', unheard, es, n, TRUE)
    BY <1>9, EntryWritten, Zenon DEF NetInv, NetTypeOK
  <2>. USE DEF Writes
  <2>2. NetTypeOK'
    BY <1>1, <1>2, <1>9, <2>1, Zenon DEF NetInv, NetTypeOK, Inspected
  <2>. HIDE DEF es
  <2>3. \A f \in NetEngines : ShownRight(f, n)' /\ MissingRight(f, n)'
    BY <1>1, <1>6, <1>7, <2>1, Zenon DEF ShownRight, MissingRight
  <2>4. \A m \in Networks \ {n}, f \in NetEngines : SameEntry(f, m)
    BY <1>1, <2>1, Zenon DEF SameEntry
  <2>5. \A m \in Networks \ {n} : Alone(m)
    BY <1>1, <1>3, <1>9, Zenon DEF Alone
  <2>6. RequestRight(n)'
    BY <1>1, <1>3, <1>4, <1>5, <1>9, Zenon DEF RequestRight, Global
  <2>7. RequestsRight' /\ EntriesRight'
    BY <1>1, <2>3, <2>4, <2>5, <2>6, OneNetwork, Zenon
  <2>. QED  BY <2>2, <2>7, Zenon DEF NetInv
<1>. QED  BY <1>8, <1>9, Zenon DEF CreateNetwork

LEMMA CreateInspectInv ==
  ASSUME NetInv, NEW n \in Networks, CreateInspect(n)
  PROVE  NetInv'
<1>. DEFINE e == creating[n].engine
<1>1. /\ creating[n].pc = "inspect"
      /\ UNCHANGED <<scope, at, ever, cache, told, events, monitor, removing, late>>
  BY Zenon DEF CreateInspect
<1>2. creating[n] \in CreateRequests /\ e \in NetEngines \cup {Nobody}
  BY Zenon DEF NetInv, NetTypeOK, CreateRequests
<1>3. \A f \in NetEngines : ShownRight(f, n) /\ MissingRight(f, n)
  BY Zenon DEF NetInv, EntriesRight
<1>4. \A f \in NetEngines : Exists(f, n)' <=> Exists(f, n)
  BY <1>1, Zenon DEF Exists, Global
<1>5. (n \in Global)' <=> n \in Global
  BY <1>1, Zenon DEF Global
<1>6. n \in ever /\ at[n] \in {Nobody, e}
  BY <1>1, Zenon DEF NetInv, RequestsRight, RequestRight
<1>7. CASE /\ creating' = [creating EXCEPT ![n] = [pc |-> "apply", engine |-> e,
                                                   found |-> Exists(e, n)]]
           /\ UNCHANGED unheard
  <2>1. Exists(e, n) \in BOOLEAN
    BY Zenon DEF Exists
  <2>2. creating' \in [Networks -> CreateRequests]
    BY <1>2, <1>7, <2>1, Zenon DEF NetInv, NetTypeOK, CreateRequests
  <2>3. /\ creating'[n].pc = "apply" /\ creating'[n].engine = e
        /\ \A m \in Networks \ {n} : creating'[m] = creating[m]
    BY <1>7, Zenon DEF NetInv, NetTypeOK
  <2>4. NetTypeOK'
    BY <1>1, <1>7, <2>2, Zenon DEF NetInv, NetTypeOK, Inspected, CreateRequests
  <2>5. \A f \in NetEngines : ShownRight(f, n)' /\ MissingRight(f, n)'
    BY <1>1, <1>3, <1>4, <1>5, <1>7, <2>3, Zenon DEF ShownRight, MissingRight
  <2>6. \A m \in Networks \ {n}, f \in NetEngines : SameEntry(f, m)
    BY <1>1, <1>7, Zenon DEF SameEntry
  <2>7. \A m \in Networks \ {n} : Alone(m)
    BY <1>1, <2>3, Zenon DEF Alone
  <2>8. RequestRight(n)'
    BY <1>1, <1>6, <2>3, Zenon DEF NetInv, RequestsRight, RequestRight, Global
  <2>9. RequestsRight' /\ EntriesRight'
    BY <1>1, <2>5, <2>6, <2>7, <2>8, OneNetwork, Zenon
  <2>. QED  BY <2>4, <2>9, Zenon DEF NetInv
<1>8. CASE /\ creating' = [creating EXCEPT ![n] = [pc |-> "share", engine |-> e, found |-> FALSE]]
           /\ unheard' = Entry(unheard, {e} \cap Lacking(n), n, TRUE)
  <2>1. creating' \in [Networks -> CreateRequests]
    BY <1>2, <1>8, Zenon DEF NetInv, NetTypeOK, CreateRequests
  <2>2. /\ creating'[n].pc = "share" /\ creating'[n].engine = e
        /\ \A m \in Networks \ {n} : creating'[m] = creating[m]
    BY <1>8, Zenon DEF NetInv, NetTypeOK
  <2>3. Writes(unheard', unheard, {e} \cap Lacking(n), n, TRUE)
    BY <1>8, EntryWritten, Zenon DEF NetInv, NetTypeOK
  <2>. USE DEF Writes
  <2>4. NetTypeOK'
    BY <1>1, <2>1, <2>3, Zenon DEF NetInv, NetTypeOK, Inspected, CreateRequests
  <2>5. ASSUME NEW f \in NetEngines PROVE ShownRight(f, n)'
    BY <1>1, <1>3, <1>4, <1>5, <2>3, Zenon DEF ShownRight
  <2>6. ASSUME NEW f \in NetEngines PROVE MissingRight(f, n)'
    <3>1. CASE f # e
      BY <2>2, <3>1, Zenon DEF MissingRight
    <3>2. CASE f = e
      BY <1>1, <1>4, <2>3, <3>2, Zenon DEF MissingRight, Lacking
    <3>. QED  BY <3>1, <3>2, Zenon
  <2>7. \A m \in Networks \ {n}, f \in NetEngines : SameEntry(f, m)
    BY <1>1, <2>3, Zenon DEF SameEntry
  <2>8. \A m \in Networks \ {n} : Alone(m)
    BY <1>1, <2>2, Zenon DEF Alone
  <2>9. RequestRight(n)'
    BY <1>1, <1>6, <2>2, Zenon DEF NetInv, RequestsRight, RequestRight, Global
  <2>10. RequestsRight' /\ EntriesRight'
    BY <1>1, <2>5, <2>6, <2>7, <2>8, <2>9, OneNetwork, Zenon
  <2>. QED  BY <2>4, <2>10, Zenon DEF NetInv
<1>. QED  BY <1>7, <1>8, Zenon DEF CreateInspect

LEMMA CreateApplyInv ==
  ASSUME NetInv, NEW n \in Networks, CreateApply(n)
  PROVE  NetInv'
<1>. DEFINE e == creating[n].engine
            b == creating[n].found
<1>1. creating[n] \in CreateRequests
  BY Zenon DEF NetInv, NetTypeOK, CreateRequests
<1>2. /\ SetEntry(e, n, b) /\ creating[n].pc = "apply"
      /\ UNCHANGED <<scope, at, ever, told, events, monitor, removing>>
      /\ creating' = [creating EXCEPT ![n] = [pc |-> "share", engine |-> e, found |-> FALSE]]
  BY Zenon DEF CreateApply
<1>3. e \in NetEngines /\ b \in BOOLEAN
  BY <1>1, <1>2, Zenon DEF NetInv, RequestsRight, RequestRight, CreateRequests
<1>4. creating' \in [Networks -> CreateRequests]
  BY <1>2, <1>3, Zenon DEF NetInv, NetTypeOK, CreateRequests
<1>5. /\ creating'[n].pc = "share" /\ creating'[n].engine = e
      /\ \A m \in Networks \ {n} : creating'[m] = creating[m]
  BY <1>2, Zenon DEF NetInv, NetTypeOK
<1>6. creating[n].engine = e
  BY Zenon
<1>. HIDE DEF e, b
<1>7. Answered(e, n, b)
  BY <1>2, <1>3, AnswerWritten, Zenon
<1>8. NetTypeOK'
  BY <1>2, <1>4, <1>7, Zenon DEF NetInv, NetTypeOK, Inspected, CreateRequests, Answered
<1>9. RequestsRight' /\ EntriesRight'
  <2>1. creating[n].pc # "off"
    BY <1>2, Zenon
  <2>. QED  BY <1>2, <1>3, <1>5, <1>6, <1>7, <2>1, EntryOfOne, Zenon
<1>. QED  BY <1>8, <1>9, Zenon DEF NetInv

(* The other lists get the creator's entry and the reason it is wrong for, *)
(* if it is; or they hear nothing, and the creator's entry is as it was.   *)
LEMMA CreateShareInv ==
  ASSUME NetInv, NEW n \in Networks, CreateShare(n)
  PROVE  NetInv'
<1>. DEFINE e == creating[n].engine
            others == NetEngines \ {e}
<1>1. /\ UNCHANGED <<scope, at, ever, told, events, monitor, removing>>
      /\ creating[n].pc = "share" /\ creating' = [creating EXCEPT ![n] = Idle]
  BY Zenon DEF CreateShare
<1>2. creating' \in [Networks -> CreateRequests]
  BY <1>1, Zenon DEF NetInv, NetTypeOK, Idle, CreateRequests
<1>3. creating'[n].pc = "off" /\ \A m \in Networks \ {n} : creating'[m] = creating[m]
  BY <1>1, Zenon DEF NetInv, NetTypeOK, Idle
<1>4. /\ cache \in [NetEngines -> SUBSET Networks] /\ late \in [NetEngines -> SUBSET Networks]
      /\ unheard \in [NetEngines -> SUBSET Networks]
  BY Zenon DEF NetInv, NetTypeOK
<1>5. \A f \in NetEngines : Exists(f, n)' <=> Exists(f, n)
  BY <1>1, Zenon DEF Exists, Global
<1>6. (n \in Global)' <=> n \in Global
  BY <1>1, Zenon DEF Global
<1>7. e \in NetEngines /\ at[n] \in {Nobody, e}
  BY <1>1, Zenon DEF NetInv, RequestsRight, RequestRight
<1>8. \A m \in Networks \ {n} : Alone(m)
  BY <1>1, <1>3, Zenon DEF Alone
<1>9. RequestRight(n)'
  BY <1>1, <1>3, Zenon DEF NetInv, RequestsRight, RequestRight, Global
<1>10. \A f \in NetEngines : ShownRight(f, n) /\ MissingRight(f, n)
  BY Zenon DEF NetInv, EntriesRight
<1>11. CASE /\ n \in cache[e] /\ n \in Global
            /\ cache' = Entry(cache, others, n, TRUE)
            /\ late' = Entry(late, others, n, n \in late[e])
            /\ unheard' = Entry(unheard, others, n, n \in unheard[e])
  <2>. HIDE DEF others
  <2>1. Writes(cache', cache, others, n, TRUE)
    BY <1>4, <1>11, EntryWritten, Zenon
  <2>2. Writes(late', late, others, n, n \in late[e])
    <3>1. (n \in late[e]) \in BOOLEAN
      BY SMT
    <3>. QED  BY <1>4, <1>11, <3>1, EntryWritten, Zenon
  <2>3. Writes(unheard', unheard, others, n, n \in unheard[e])
    <3>1. (n \in unheard[e]) \in BOOLEAN
      BY SMT
    <3>. QED  BY <1>4, <1>11, <3>1, EntryWritten, Zenon
  <2>. USE DEF Writes
  <2>4. NetTypeOK'
    BY <1>1, <1>2, <2>1, <2>2, <2>3, Zenon DEF NetInv, NetTypeOK, Inspected, CreateRequests
  <2>5. \A m \in Networks \ {n}, f \in NetEngines : SameEntry(f, m)
    BY <2>1, <2>2, <2>3, Zenon DEF SameEntry
  <2>6. \A f \in NetEngines : /\ n \in cache'[f]
                              /\ n \in late'[f] <=> n \in late[e]
                              /\ n \in unheard'[f] <=> n \in unheard[e]
    <3>1. \A f \in NetEngines : f \in others \/ f = e
      BY Zenon DEF others
    <3>. QED  BY <1>11, <2>1, <2>2, <2>3, <3>1, Zenon
  <2>7. \A f \in NetEngines : Exists(e, n) => Exists(f, n)
    BY <1>11, Zenon DEF Exists
  <2>8. \/ Exists(e, n) \/ n \in late[e] \/ n \in unheard[e]
        \/ removing[n].pc = "forget"
    BY <1>7, <1>10, <1>11, Zenon DEF ShownRight
  <2>9. \A f \in NetEngines : ShownRight(f, n)' /\ MissingRight(f, n)'
    BY <1>1, <1>5, <1>6, <1>11, <2>6, <2>7, <2>8, Zenon DEF ShownRight, MissingRight
  <2>10. RequestsRight' /\ EntriesRight'
    BY <1>1, <1>8, <1>9, <2>5, <2>9, OneNetwork, Zenon
  <2>. QED  BY <2>4, <2>10, Zenon DEF NetInv
<1>12. CASE /\ unheard' = Entry(unheard, others \cap Lacking(n), n, TRUE)
            /\ UNCHANGED <<cache, late>>
  <2>1. Writes(unheard', unheard, others \cap Lacking(n), n, TRUE)
    BY <1>4, <1>12, EntryWritten, Zenon
  <2>. USE DEF Writes
  <2>2. NetTypeOK'
    BY <1>1, <1>2, <1>12, <2>1, Zenon DEF NetInv, NetTypeOK, Inspected, CreateRequests
  <2>3. \A m \in Networks \ {n}, f \in NetEngines : SameEntry(f, m)
    BY <1>12, <2>1, Zenon DEF SameEntry
  <2>4. \A f \in NetEngines : n \in unheard[f] => n \in unheard'[f]
    BY <2>1, Zenon
  <2>5. ASSUME NEW f \in NetEngines PROVE ShownRight(f, n)'
    BY <1>1, <1>5, <1>6, <1>10, <1>12, <2>4, Zenon DEF ShownRight
  <2>6. ASSUME NEW f \in NetEngines PROVE MissingRight(f, n)'
    <3>1. CASE f = e
      <4>1. Exists(e, n) => n \in cache[e] \/ n \in late[e] \/ n \in unheard[e]
        BY <1>1, <1>7, <1>10, Zenon DEF MissingRight
      <4>. QED  BY <1>5, <1>7, <1>12, <2>4, <3>1, <4>1, Zenon DEF MissingRight
    <3>2. CASE f # e
      BY <1>5, <1>12, <2>1, <3>2, Zenon DEF MissingRight, Lacking
    <3>. QED  BY <3>1, <3>2, Zenon
  <2>7. RequestsRight' /\ EntriesRight'
    BY <1>1, <1>8, <1>9, <2>3, <2>5, <2>6, OneNetwork, Zenon
  <2>. QED  BY <2>2, <2>7, Zenon DEF NetInv
<1>. QED  BY <1>11, <1>12, Zenon DEF CreateShare

LEMMA StartRemoveInv ==
  ASSUME NetInv, NEW n \in Networks, StartRemove(n)
  PROVE  NetInv'
<1>1. PICK e \in NetEngines :
        removing' = [removing EXCEPT ![n] = [pc |-> "call", engine |-> e, tried |-> {}]]
  BY Zenon DEF StartRemove
<1>2. /\ removing[n].pc = "off"
      /\ UNCHANGED <<scope, at, ever, cache, told, events, monitor, creating, late, unheard>>
  BY Zenon DEF StartRemove
<1>3. NetTypeOK'
  BY <1>1, <1>2, Zenon DEF NetInv, NetTypeOK, Inspected
<1>4. removing'[n].pc = "call" /\ \A m \in Networks \ {n} : removing'[m] = removing[m]
  BY <1>1, Zenon DEF NetInv, NetTypeOK
<1>5. \A m \in Networks \ {n}, f \in NetEngines : SameEntry(f, m)
  BY <1>2, Zenon DEF SameEntry
<1>6. \A m \in Networks \ {n} : Alone(m)
  BY <1>2, <1>4, Zenon DEF Alone
<1>7. \A f \in NetEngines : ShownRight(f, n)' /\ MissingRight(f, n)'
  BY <1>2, <1>4 DEF NetInv, EntriesRight, ShownRight, MissingRight, Exists, Global
<1>8. RequestRight(n)'
  BY <1>2, <1>4, Zenon DEF NetInv, RequestsRight, RequestRight, Global
<1>9. RequestsRight' /\ EntriesRight'
  BY <1>2, <1>5, <1>6, <1>7, <1>8, OneNetwork, Zenon
<1>. QED  BY <1>3, <1>9, Zenon DEF NetInv

(* The network is removed at a daemon, through the engine of the entry or, *)
(* if it is global, through any: the answer comes, and the request goes on *)
(* to delete every entry that was right; or it is lost, and these entries  *)
(* are unheard of.                                                         *)
LEMMA RemoveThroughInv ==
  ASSUME NetInv, NEW n \in Networks, NEW e \in NetEngines \cup {Nobody},
         RemoveThrough(n, e), e = removing[n].engine \/ n \in Global,
         UNCHANGED <<scope, ever, cache, told, monitor, creating, late>>,
         NEW r \in RemoveRequests, removing' = [removing EXCEPT ![n] = r],
         r.pc = "others" => n \in Global,
         \/ r.pc = "forget" /\ r.engine = removing[n].engine /\ UNCHANGED unheard
         \/ r.pc # "forget" /\ unheard' = Entry(unheard, Showing(n), n, TRUE)
  PROVE  NetInv'
<1>1. /\ Exists(e, n)
      /\ at' = [at EXCEPT ![n] = Nobody]
      /\ events' = [events EXCEPT ![e] = @ \cup {n}]
  BY Zenon DEF RemoveThrough
<1>2. /\ at' \in [Networks -> NetEngines \cup {Nobody}]
      /\ events' \in [NetEngines -> SUBSET Networks]
      /\ removing' \in [Networks -> RemoveRequests]
  BY <1>1, Zenon DEF NetInv, NetTypeOK, RemoveRequests
<1>3. /\ removing'[n] = r /\ at'[n] = Nobody /\ at[n] # Nobody
      /\ \A m \in Networks \ {n} : removing'[m] = removing[m] /\ at'[m] = at[m]
  BY <1>1, Zenon DEF NetInv, NetTypeOK, Exists
<1>4. n \in ever /\ removing[n].pc # "forget"
  BY <1>3, Zenon DEF NetInv, RequestsRight, RequestRight
<1>5. /\ unheard' \in [NetEngines -> SUBSET Networks]
      /\ \A f \in NetEngines, m \in Networks : m # n => (m \in unheard'[f] <=> m \in unheard[f])
      /\ \A f \in NetEngines : n \in unheard[f] => n \in unheard'[f]
      /\ r.pc # "forget" => \A f \in Showing(n) : n \in unheard'[f]
  <2>1. Writes(Entry(unheard, Showing(n), n, TRUE), unheard, Showing(n), n, TRUE)
    BY EntryWritten, Zenon DEF NetInv, NetTypeOK
  <2>. USE DEF Writes
  <2>2. unheard \in [NetEngines -> SUBSET Networks] /\ \A f \in Showing(n) : f \in NetEngines
    BY Zenon DEF NetInv, NetTypeOK, Showing
  <2>. QED  BY <2>1, <2>2, Zenon
<1>6. NetTypeOK'
  BY <1>2, <1>5, Zenon DEF NetInv, NetTypeOK, Inspected, RemoveRequests
<1>7. \A m \in Networks \ {n}, f \in NetEngines : SameEntry(f, m)
  BY <1>5, Zenon DEF SameEntry
<1>8. \A m \in Networks \ {n} : Alone(m)
  BY <1>3, Zenon DEF Alone
<1>9. ASSUME NEW f \in NetEngines PROVE ShownRight(f, n)'
  <2>. SUFFICES ASSUME n \in cache[f]
                PROVE  \/ n \in late[f] \/ n \in unheard'[f]
                       \/ r.pc = "forget" /\ (n \in Global \/ f = r.engine)
    BY <1>3 DEF ShownRight, Global
  <2>1. Exists(f, n) \/ n \in late[f] \/ n \in unheard[f]
    BY <1>4, Zenon DEF NetInv, EntriesRight, ShownRight
  <2>2. Exists(f, n) => f \in Showing(n) /\ (n \in Global \/ f = removing[n].engine)
    BY <1>1, Zenon DEF Exists, Showing
  <2>. QED  BY <1>5, <2>1, <2>2, Zenon
<1>10. \A f \in NetEngines : MissingRight(f, n)'
  BY <1>3, Zenon DEF MissingRight, Exists
<1>11. RequestRight(n)'
  BY <1>3, <1>4, Zenon DEF NetInv, RequestsRight, RequestRight, Global
<1>12. RequestsRight' /\ EntriesRight'
  BY <1>7, <1>8, <1>9, <1>10, <1>11, OneNetwork, Zenon
<1>. QED  BY <1>6, <1>12, Zenon DEF NetInv

(* The request goes on or gives up.                                        *)
LEMMA RemoveGoesOn ==
  ASSUME NetInv, NEW n \in Networks, removing[n].pc \in {"call", "others"},
         NEW e \in NetEngines \cup {Nobody}, NotRemoved(n, e),
         e = removing[n].engine \/ n \in Global,
         NEW r \in RemoveRequests, r.pc \in {"off", "others"},
         removing' = [removing EXCEPT ![n] = r], r.pc = "others" => n \in Global,
         UNCHANGED <<scope, ever, cache, told, monitor, creating, late>>
  PROVE  NetInv'
<1>1. CASE UNCHANGED <<at, events, unheard>>
  <2>1. NetTypeOK'
    BY <1>1, Zenon DEF NetInv, NetTypeOK, Inspected, RemoveRequests
  <2>2. removing'[n] = r /\ \A m \in Networks \ {n} : removing'[m] = removing[m]
    BY Zenon DEF NetInv, NetTypeOK
  <2>3. \A m \in Networks \ {n}, f \in NetEngines : SameEntry(f, m)
    BY <1>1, Zenon DEF SameEntry
  <2>4. \A m \in Networks \ {n} : Alone(m)
    BY <1>1, <2>2, Zenon DEF Alone
  <2>5. \A f \in NetEngines : ShownRight(f, n)' /\ MissingRight(f, n)'
    BY <1>1, <2>2 DEF NetInv, EntriesRight, ShownRight, MissingRight, Exists, Global
  <2>6. RequestRight(n)'
    BY <1>1, <2>2, Zenon DEF NetInv, RequestsRight, RequestRight, Global
  <2>7. RequestsRight' /\ EntriesRight'
    BY <2>3, <2>4, <2>5, <2>6, OneNetwork, Zenon
  <2>. QED  BY <2>1, <2>7, Zenon DEF NetInv
<1>2. CASE RemoveThrough(n, e) /\ unheard' = Entry(unheard, Showing(n), n, TRUE)
  <2>1. r.pc # "forget"
    BY Zenon
  <2>. QED  BY <1>2, <2>1, RemoveThroughInv, Zenon
<1>. QED  BY <1>1, <1>2, Zenon DEF NotRemoved

LEMMA RemovedInv ==
  ASSUME NetInv, NEW n \in Networks, NEW e \in NetEngines \cup {Nobody}, Removed(n, e),
         e = removing[n].engine \/ n \in Global,
         UNCHANGED <<scope, ever, cache, told, monitor, creating, late>>
  PROVE  NetInv'
<1>. DEFINE r == [removing[n] EXCEPT !.pc = "forget"]
<1>1. removing[n] \in RemoveRequests
  BY Zenon DEF NetInv, NetTypeOK, RemoveRequests
<1>2. r \in RemoveRequests /\ r.pc = "forget" /\ r.engine = removing[n].engine
  BY <1>1, SMTT(60) DEF RemoveRequests
<1>3. RemoveThrough(n, e) /\ removing' = [removing EXCEPT ![n] = r] /\ UNCHANGED unheard
  BY Zenon DEF Removed
<1>. HIDE DEF r
<1>4. r.pc = "others" => n \in Global
  BY <1>2, Zenon
<1>. QED  BY <1>2, <1>3, <1>4, RemoveThroughInv, Zenon

LEMMA RemoveCallInv ==
  ASSUME NetInv, NEW n \in Networks, RemoveCall(n)
  PROVE  NetInv'
<1>. DEFINE e == removing[n].engine
            r == [removing[n] EXCEPT !.pc = "others"]
<1>1. removing[n] \in RemoveRequests
  BY Zenon DEF NetInv, NetTypeOK, RemoveRequests
<1>2. /\ removing[n].pc = "call" /\ removing[n].pc \in {"call", "others"}
      /\ e \in NetEngines \cup {Nobody}
      /\ UNCHANGED <<scope, ever, cache, told, monitor, creating, late>>
  BY <1>1, Zenon DEF RemoveCall, RemoveRequests
<1>3. CASE Removed(n, e)
  BY <1>2, <1>3, RemovedInv, Zenon
<1>4. CASE NotRemoved(n, e) /\ removing' = [removing EXCEPT ![n] = Resting]
  <2>1. Resting \in RemoveRequests /\ Resting.pc \in {"off", "others"} /\ Resting.pc # "others"
    BY Zenon DEF Resting, RemoveRequests
  <2>. QED  BY <1>2, <1>4, <2>1, RemoveGoesOn, Zenon
<1>5. CASE NotRemoved(n, e) /\ n \in Global /\ removing' = [removing EXCEPT ![n].pc = "others"]
  <2>1. r \in RemoveRequests /\ r.pc \in {"off", "others"}
    BY <1>1, SMTT(60) DEF RemoveRequests
  <2>2. removing' = [removing EXCEPT ![n] = r]
    BY <1>5, Zenon
  <2>. HIDE DEF r
  <2>. QED  BY <1>2, <1>5, <2>1, <2>2, RemoveGoesOn, Zenon
<1>. QED  BY <1>3, <1>4, <1>5, Zenon DEF RemoveCall

LEMMA RemoveElsewhereInv ==
  ASSUME NetInv, NEW n \in Networks, RemoveElsewhere(n)
  PROVE  NetInv'
<1>1. removing[n] \in RemoveRequests
  BY Zenon DEF NetInv, NetTypeOK, RemoveRequests
<1>2. /\ removing[n].pc = "others" /\ removing[n].pc \in {"call", "others"} /\ n \in Global
      /\ UNCHANGED <<scope, ever, cache, told, monitor, creating, late>>
  BY Zenon DEF RemoveElsewhere, NetInv, RequestsRight, RequestRight
<1>3. ASSUME NEW e \in NetEngines, Removed(n, e) PROVE NetInv'
  BY <1>2, <1>3, RemovedInv, Zenon
<1>4. CASE removing' = [removing EXCEPT ![n] = Resting] /\ UNCHANGED <<at, events, unheard>>
  <2>1. Resting \in RemoveRequests /\ Resting.pc \in {"off", "others"} /\ Resting.pc # "others"
    BY Zenon DEF Resting, RemoveRequests
  <2>2. NotRemoved(n, Nobody)
    BY <1>4, Zenon DEF NotRemoved
  <2>. QED  BY <1>2, <1>4, <2>1, <2>2, RemoveGoesOn, Zenon
<1>5. ASSUME NEW e \in NetEngines, NotRemoved(n, e),
             removing' = [removing EXCEPT ![n].tried = @ \cup {e}]
      PROVE  NetInv'
  <2>. DEFINE r == [removing[n] EXCEPT !.tried = @ \cup {e}]
  <2>1. r \in RemoveRequests /\ r.pc = removing[n].pc
    BY <1>1, SMTT(60) DEF RemoveRequests
  <2>2. removing' = [removing EXCEPT ![n] = r]
    BY <1>5, Zenon
  <2>. HIDE DEF r
  <2>3. r.pc \in {"off", "others"}
    BY <1>2, <2>1, Zenon
  <2>. QED  BY <1>2, <1>5, <2>1, <2>2, <2>3, RemoveGoesOn, Zenon
<1>. QED  BY <1>3, <1>4, <1>5, Zenon DEF RemoveElsewhere

LEMMA RemoveForgetInv ==
  ASSUME NetInv, NEW n \in Networks, RemoveForget(n)
  PROVE  NetInv'
<1>. DEFINE es == IF n \in Global THEN NetEngines ELSE {removing[n].engine}
<1>1. /\ removing[n].pc = "forget"
      /\ cache' = Entry(cache, es, n, FALSE)
      /\ late' = Entry(late, es, n, FALSE)
      /\ unheard' = Entry(unheard, es, n, FALSE)
      /\ removing' = [removing EXCEPT ![n] = Resting]
      /\ UNCHANGED <<scope, at, ever, told, events, monitor, creating>>
  BY Zenon DEF RemoveForget
<1>2. /\ cache \in [NetEngines -> SUBSET Networks] /\ late \in [NetEngines -> SUBSET Networks]
      /\ unheard \in [NetEngines -> SUBSET Networks]
  BY Zenon DEF NetInv, NetTypeOK
<1>3. removing' \in [Networks -> RemoveRequests]
  BY <1>1, SMTT(60) DEF NetInv, NetTypeOK, Resting, RemoveRequests
<1>4. removing'[n].pc = "off" /\ \A m \in Networks \ {n} : removing'[m] = removing[m]
  BY <1>1, SMTT(60) DEF NetInv, NetTypeOK, Resting
<1>5. at[n] = Nobody /\ \A f \in NetEngines : ~Exists(f, n)
  BY <1>1, Zenon DEF NetInv, RequestsRight, RequestRight, Exists
<1>6. \A f \in NetEngines \ es : n \in cache[f] => n \in late[f] \/ n \in unheard[f]
  BY <1>1, <1>5, Zenon DEF NetInv, EntriesRight, ShownRight
<1>. HIDE DEF es
<1>7. Writes(cache', cache, es, n, FALSE)
  BY <1>1, <1>2, EntryWritten, Zenon
<1>8. Writes(late', late, es, n, FALSE)
  BY <1>1, <1>2, EntryWritten, Zenon
<1>9. Writes(unheard', unheard, es, n, FALSE)
  BY <1>1, <1>2, EntryWritten, Zenon
<1>. USE DEF Writes
<1>10. NetTypeOK'
  BY <1>1, <1>3, <1>7, <1>8, <1>9, Zenon DEF NetInv, NetTypeOK, Inspected, RemoveRequests
<1>11. \A m \in Networks \ {n}, f \in NetEngines : SameEntry(f, m)
  BY <1>7, <1>8, <1>9, Zenon DEF SameEntry
<1>12. \A m \in Networks \ {n} : Alone(m)
  BY <1>1, <1>4, Zenon DEF Alone
<1>13. \A f \in NetEngines : ShownRight(f, n)'
  BY <1>6, <1>7, <1>8, <1>9, Zenon DEF ShownRight
<1>14. \A f \in NetEngines : MissingRight(f, n)'
  BY <1>1, <1>5, Zenon DEF MissingRight, Exists
<1>15. RequestRight(n)'
  BY <1>1, <1>4, Zenon DEF NetInv, RequestsRight, RequestRight, Global
<1>16. RequestsRight' /\ EntriesRight'
  BY <1>1, <1>11, <1>12, <1>13, <1>14, <1>15, OneNetwork, Zenon
<1>. QED  BY <1>10, <1>16, Zenon DEF NetInv

LEMMA NetStep == NetInv /\ [NetNext]_netVars => NetInv'
<1>. SUFFICES ASSUME NetInv, [NetNext]_netVars PROVE NetInv'
  BY Zenon
<1>1. CASE UNCHANGED netVars
  BY <1>1 DEF netVars, NetInv, NetTypeOK, Inspected, RequestsRight, RequestRight, EntriesRight, ShownRight,
              MissingRight, Exists, Global
<1>2. ASSUME NEW e \in NetEngines,
             \/ RefreshNetworksList(e) \/ RefreshNetworksApply(e)
             \/ HandleInspect(e) \/ HandleApply(e)
      PROVE  NetInv'
  BY <1>2, ReadingInv, RefreshNetworksApplyInv, HandleApplyInv, Zenon
<1>3. ASSUME NEW n \in Networks,
             \/ CreateInspect(n) \/ CreateApply(n) \/ CreateShare(n) \/ StartRemove(n)
             \/ RemoveCall(n) \/ RemoveElsewhere(n) \/ RemoveForget(n)
      PROVE  NetInv'
  BY <1>3, CreateInspectInv, CreateApplyInv, CreateShareInv, StartRemoveInv, RemoveCallInv,
     RemoveElsewhereInv, RemoveForgetInv
<1>. QED  BY <1>1, <1>2, <1>3, CreateNetworkInv, Zenon DEF NetNext

(* RequestsRight that create and remove networks keep the lists of all engines  *)
(* right, whichever engine carries them out, however refreshes and events  *)
(* interleave and whichever answers are lost: an entry is wrong only if    *)
(* the answer written last was out of date, if an answer was lost before   *)
(* it could be written, or while a request has yet to write that entry.    *)
THEOREM NetworkLists == NetSpec => []ListsRight
<1>1. NetInv => ListsRight
  <2>. SUFFICES ASSUME NetInv, NEW e \in NetEngines, NEW n \in Networks
                PROVE  \/ (n \in cache[e]) = Exists(e, n)
                       \/ n \in late[e] \/ n \in unheard[e]
                       \/ Underway(e, n)
    BY Zenon DEF ListsRight
  <2>1. Exists(e, n) \in BOOLEAN
    BY Zenon DEF Exists
  <2>. QED  BY <2>1 DEF NetInv, EntriesRight, ShownRight, MissingRight, Underway
<1>. QED  BY <1>1, NetInitInv, NetStep, PTL DEF NetSpec

(* The lists, the requests that create and remove networks and the answers *)
(* that are on their way keep their types.                                 *)
THEOREM NetworksTyped == NetSpec => []NetTypeOK
<1>1. NetInv => NetTypeOK
  BY Zenon DEF NetInv
<1>. QED  BY <1>1, NetInitInv, NetStep, PTL DEF NetSpec
-----------------------------------------------------------------------------
(* Lookups.                                                                *)

\* What the daemons say is of one mind: an ID is of one network, of one name
\* and scope, and on one engine if it is local; of one container; of one
\* candidate of a listing.
OfOneMind ==
  /\ kind = "network" =>
       \A x, y \in there : x.id = y.id => x.name = y.name /\ (x.local => x = y)
  /\ kind \in {"container", "listing"} => \A x, y \in there : x.id = y.id => x = y

\* The lists are finite whatever the sets of names and IDs are, so that
\* counting what matches means something.
LookInv == LookTypeOK /\ OfOneMind /\ IsFiniteSet(known)

LEMMA NetworkFacts ==
  ASSUME kind = "network", there \in Facts("network")
  PROVE  there \subseteq NetworkEntries /\ OfOneMind
<1>1. PICK net \in [NetIDs -> [name : Names, local : BOOLEAN, home : Hosts]] :
        there = Everywhere(net)
  BY Zenon DEF Facts
<1>2. \A x \in there :
        \E i \in NetIDs : \E h \in (IF net[i].local THEN {net[i].home} ELSE Hosts) :
          x = [host |-> h, id |-> i, name |-> net[i].name, local |-> net[i].local]
  BY <1>1, Zenon DEF Everywhere
<1>3. \A i \in NetIDs : net[i].name \in Names /\ net[i].local \in BOOLEAN /\ net[i].home \in Hosts
  OBVIOUS
<1>4. there \subseteq NetworkEntries
  BY <1>2, <1>3 DEF NetworkEntries
<1>5. \A x, y \in there : x.id = y.id => x.name = y.name /\ (x.local => x = y)
  BY <1>2
<1>. QED  BY <1>4, <1>5 DEF OfOneMind

LEMMA VolumeFacts ==
  ASSUME kind = "volume", there \in Facts("volume")
  PROVE  there \subseteq VolumeEntries /\ OfOneMind
<1>1. PICK local \in [Hosts \X Names -> BOOLEAN] :
        there = {[host |-> p[1], name |-> p[2], local |-> local[p]] : p \in Hosts \X Names}
  BY Zenon DEF Facts
<1>. QED  BY <1>1 DEF VolumeEntries, OfOneMind

LEMMA ContainerFacts ==
  ASSUME kind = "container", there \in Facts("container")
  PROVE  there \subseteq ContainerEntries /\ OfOneMind
<1>1. PICK c \in [ConIDs -> [host : Hosts, swarm : SwarmIDs, names : SUBSET ConNames]] :
        there = {[host |-> c[i].host, id |-> i, swarm |-> c[i].swarm, names |-> c[i].names] :
                   i \in ConIDs}
  BY Zenon DEF Facts
<1>2. \A i \in ConIDs : c[i].host \in Hosts /\ c[i].swarm \in SwarmIDs /\ c[i].names \in SUBSET ConNames
  OBVIOUS
<1>3. there \subseteq ContainerEntries
  BY <1>1, <1>2 DEF ContainerEntries
<1>4. \A x, y \in there : x.id = y.id => x = y
  BY <1>1
<1>. QED  BY <1>3, <1>4 DEF OfOneMind

LEMMA ListingFacts ==
  ASSUME kind = "listing", there \in Facts("listing")
  PROVE  there \subseteq Candidates /\ OfOneMind
<1>1. PICK c \in [ListIDs -> [created : Times, class : Classes]] :
        there = {[id |-> i, created |-> c[i].created, class |-> c[i].class] : i \in ListIDs}
  BY Zenon DEF Facts
<1>2. \A i \in ListIDs : c[i].created \in Times /\ c[i].class \in Classes
  OBVIOUS
<1>3. there \subseteq Candidates
  BY <1>1, <1>2 DEF Candidates
<1>4. \A x, y \in there : x.id = y.id => x = y
  BY <1>1
<1>. QED  BY <1>3, <1>4 DEF OfOneMind

LEMMA Kinds ==
  /\ DOMAIN Entries = {"network", "volume", "container", "listing"}
  /\ Entries["network"] = NetworkEntries /\ Entries["volume"] = VolumeEntries
  /\ Entries["container"] = ContainerEntries /\ Entries["listing"] = Candidates
  BY DEF Entries

LEMMA LookInitInv == LookInit => LookInv
<1>. SUFFICES ASSUME LookInit PROVE LookInv
  BY Zenon
<1>1. there \subseteq Entries[kind] /\ OfOneMind
  BY Kinds, NetworkFacts, VolumeFacts, ContainerFacts, ListingFacts, Zenon DEF LookInit
<1>. QED  BY <1>1, FS_EmptySet, Zenon DEF LookInit, LookInv, LookTypeOK

\* A refresh only puts in the lists what the daemons say.
LEMMA LookStep == LookInv /\ [LookNext]_lookVars => LookInv'
<1>. SUFFICES ASSUME LookInv, [LookNext]_lookVars PROVE LookInv'
  BY Zenon
<1>1. UNCHANGED <<kind, hostName, there>>
  BY Zenon DEF LookNext, RefreshList, RefreshEntry, lookVars
<1>2. known' \subseteq there /\ IsFiniteSet(known')
  <2>. USE DEF LookInv, LookTypeOK
  <2>1. CASE UNCHANGED lookVars
    BY <2>1, Zenon DEF lookVars
  <2>2. ASSUME NEW h \in Hosts, RefreshList(h) PROVE known' \subseteq there /\ IsFiniteSet(known')
    <3>1. PICK list \in SUBSET HostEntries(h) : IsFiniteSet(list) /\ known' = (known \ HostEntries(h)) \cup list
      BY <2>2, Zenon DEF RefreshList
    <3>2. IsFiniteSet(known \ HostEntries(h))
      BY FS_Difference, Zenon
    <3>3. IsFiniteSet(known')
      BY <3>1, <3>2, FS_Union, Zenon
    <3>. QED  BY <3>1, <3>3, Zenon DEF HostEntries
  <2>3. ASSUME NEW x \in there, RefreshEntry(x) PROVE known' \subseteq there /\ IsFiniteSet(known')
    <3>1. known' = known \cup {x} \/ known' = known \ {x}
      BY <2>3, Zenon DEF RefreshEntry
    <3>2. IsFiniteSet(known \cup {x}) /\ IsFiniteSet(known \ {x})
      BY FS_AddElement, FS_RemoveElement
    <3>. QED  BY <3>1, <3>2, Zenon
  <2>. QED  BY <2>1, <2>2, <2>3, Zenon DEF LookNext
<1>. QED  BY <1>1, <1>2, Zenon DEF LookInv, LookTypeOK, OfOneMind

LEMMA LookInvariance == LookSpec => []LookInv
  BY LookInitInv, LookStep, PTL DEF LookSpec

\* A count of one is one element.
LEMMA One ==
  ASSUME NEW S, IsFiniteSet(S), NEW x \in S
  PROVE  Cardinality(S) = 1 <=> S = {x}
  BY FS_Singleton

\* Of several, one is another.
LEMMA Another ==
  ASSUME NEW S, IsFiniteSet(S), NEW x \in S, Cardinality(S) # 1
  PROVE  \E y \in S : y # x
  BY One

LEMMA FiniteIDs ==
  ASSUME NEW S, IsFiniteSet(S)
  PROVE  IsFiniteSet(IDs(S))
<1>. DEFINE f == [x \in S |-> x.id]
<1>1. f \in Surjection(S, IDs(S))
  BY Zenon DEF Surjection, IDs
<1>. QED  BY <1>1, FS_Surjection, Zenon

LEMMA QueryText ==
  ASSUME NEW text, NEW q \in Queries(text)
  PROVE  q.text = text
<1>1. PICK ids, begins : q = Query(text, ids, begins)
  BY Zenon DEF Queries
<1>. QED  BY <1>1 DEF Query

\* what a lookup may say of the name shown for x
Resolved(x, q, found) ==
  \/ found # {} /\ \A y \in found : SameThing(x, y)
  \/ found # {} /\ \A y \in found : GoesFirst(y, q)
  \/ found = {} /\ \E y \in known : ~SameThing(x, y) /\ Matches(y, q.text)

\* A network, by the name that getNetworks shows.
LEMMA NetworkResolves ==
  ASSUME LookInv, kind = "network"
  PROVE  ShownNamesResolve
<1>. SUFFICES ASSUME NEW x \in known, NEW shown \in ShownNames(x),
                     NEW q \in Queries(shown), NEW found \in Found(q)
              PROVE  Resolved(x, q, found)
  BY Zenon DEF ShownNamesResolve, Resolved, GivenBack
<1>1. PICK u \in Uniq(known) : found = GetNetwork(u, q)
  BY Zenon DEF Found
<1>. DEFINE byID == {y \in u : y.id \in q.ids}
            byName == {y \in u : NameMatches(y, q.text)}
<1>2. u \subseteq known /\ IDs(u) = IDs(known)
  BY Zenon DEF Uniq
<1>3. CASE byID # {}
  <2>1. found = byID
    BY <1>1, <1>3, Zenon DEF GetNetwork
  <2>. QED  BY <1>3, <2>1, Zenon DEF Resolved, GoesFirst, HasID
<1>4. CASE byID = {}
  <2>1. byName # {} => found = OnlyIf(Cardinality(IDs(byName)) = 1, byName)
    BY <1>1, <1>4, Zenon DEF GetNetwork
  <2>2. PICK z \in u : z.id = x.id
    BY <1>2 DEF IDs
  <2>3. NameMatches(z, q.text)
    <3>1. z.name = x.name /\ (x.local => z = x)
      BY <1>2, <2>2, Zenon DEF LookInv, LookTypeOK, OfOneMind
    <3>. QED  BY <3>1, QueryText, Zenon DEF ShownNames, NameMatches
  <2>4. z \in byName /\ x.id \in IDs(byName)
    BY <2>2, <2>3, Zenon DEF IDs
  <2>5. IsFiniteSet(IDs(byName))
    BY <1>2, FiniteIDs, FS_Subset, Zenon DEF LookInv
  <2>6. CASE Cardinality(IDs(byName)) = 1
    <3>1. IDs(byName) = {x.id}
      BY <2>4, <2>5, <2>6, One, Zenon
    <3>2. \A y \in byName : y.id = x.id
      BY <3>1, Zenon DEF IDs
    <3>. QED  BY <2>1, <2>4, <2>6, <3>2, Zenon DEF OnlyIf, SameThing, Resolved
  <2>7. CASE Cardinality(IDs(byName)) # 1
    <3>1. PICK i \in IDs(byName) : i # x.id
      BY <2>4, <2>5, <2>7, Another, Zenon
    <3>2. PICK y \in byName : y.id = i
      BY Zenon DEF IDs
    <3>. QED  BY <1>2, <2>1, <2>4, <2>7, <3>1, <3>2, Zenon DEF OnlyIf, SameThing, Matches, Resolved
  <2>. QED  BY <2>6, <2>7, Zenon
<1>. QED  BY <1>3, <1>4, Zenon

\* A volume, by the name that getVolumes shows.
LEMMA VolumeResolves ==
  ASSUME LookInv, kind = "volume"
  PROVE  ShownNamesResolve
<1>. SUFFICES ASSUME NEW x \in known, NEW shown \in ShownNames(x),
                     NEW q \in Queries(shown), NEW found \in Found(q)
              PROVE  Resolved(x, q, found)
  BY Zenon DEF ShownNamesResolve, Resolved, GivenBack
<1>. DEFINE byName == {y \in known : NameMatches(y, q.text)}
            global == {y \in byName : y.name = q.text /\ ~y.local}
<1>1. q.text = shown /\ x \in byName
  BY QueryText, Zenon DEF ShownNames, NameMatches
<1>2. found = IF Cardinality(byName) = 1 THEN byName ELSE global
  BY <1>1, Zenon DEF Found, GetVolume
<1>3. IsFiniteSet(byName)
  BY FS_Subset, Zenon DEF LookInv
<1>4. CASE Cardinality(byName) = 1
  <2>1. byName = {x}
    BY <1>1, <1>3, <1>4, One, Zenon
  <2>. QED  BY <1>2, <1>4, <2>1, Zenon DEF SameThing, Resolved
<1>5. CASE Cardinality(byName) # 1 /\ x.local
  <2>1. PICK y \in byName : y # x
    <3>. HIDE DEF byName
    <3>. QED  BY <1>1, <1>3, <1>5, Another
  <2>2. ~SameThing(x, y)
    BY <1>5, <2>1, Zenon DEF SameThing
  <2>3. CASE global = {}
    BY <1>2, <1>5, <2>1, <2>2, <2>3, Zenon DEF Matches, Resolved
  <2>4. CASE global # {}
    BY <1>2, <1>5, <2>4, Zenon DEF GoesFirst, Resolved
  <2>. QED  BY <2>3, <2>4, Zenon
<1>6. CASE Cardinality(byName) # 1 /\ ~x.local
  <2>1. x \in global
    BY <1>1, <1>6, Zenon DEF ShownNames
  <2>2. \A y \in global : SameThing(x, y)
    BY <2>1, Zenon DEF SameThing
  <2>. QED  BY <1>2, <1>6, <2>1, <2>2, Zenon DEF Resolved
<1>. QED  BY <1>4, <1>5, <1>6, Zenon

LEMMA Concatenated ==
  ASSUME NEW T, NEW p \in Seq(T), NEW n \in Seq(T)
  PROVE  /\ p \o n \in Seq(T) /\ Len(p \o n) = Len(p) + Len(n)
         /\ \A i \in 1 .. Len(p) : (p \o n)[i] = p[i]
         /\ \A i \in 1 .. Len(n) : (p \o n)[i + Len(p)] = n[i]
  OBVIOUS

LEMMA WithoutSlash ==
  ASSUME NEW T, NEW a \in T, NEW b \in T, NEW n \in Seq(T)
  PROVE  Tail(<<a, b>> \o n) = <<b>> \o n
<1>. DEFINE s == <<a, b>> \o n
            t == <<b>> \o n
<1>1. /\ <<a, b>> \in Seq(T) /\ Len(<<a, b>>) = 2 /\ <<a, b>>[2] = b
      /\ <<b>> \in Seq(T) /\ Len(<<b>>) = 1 /\ <<b>>[1] = b
      /\ 2 \in 1 .. 2 /\ 1 \in 1 .. 1 /\ Len(n) \in Nat
  OBVIOUS
<1>2. PICK p \in Seq(T) : p = <<a, b>> /\ Len(p) = 2 /\ p[2] = b
  BY <1>1, Zenon
<1>3. s \in Seq(T) /\ Len(s) = Len(n) + 2 /\ s[2] = b /\ \A i \in 1 .. Len(n) : s[i + 2] = n[i]
  <2>1. s = p \o n
    BY <1>2, Zenon
  <2>. HIDE DEF s
  <2>. QED  BY <1>1, <1>2, <2>1, Concatenated
<1>4. PICK r \in Seq(T) : r = <<b>> /\ Len(r) = 1 /\ r[1] = b
  BY <1>1, Zenon
<1>5. t \in Seq(T) /\ Len(t) = Len(n) + 1 /\ t[1] = b /\ \A i \in 1 .. Len(n) : t[i + 1] = n[i]
  <2>1. t = r \o n
    BY <1>4, Zenon
  <2>. HIDE DEF t
  <2>. QED  BY <1>1, <1>4, <2>1, Concatenated
<1>. HIDE DEF s, t
<1>6. Tail(s) \in Seq(T) /\ Len(Tail(s)) = Len(s) - 1 /\ \A i \in 1 .. Len(s) - 1 : Tail(s)[i] = s[i + 1]
  BY <1>3
<1>7. ASSUME NEW i \in 1 .. Len(n) + 1 PROVE Tail(s)[i] = t[i]
  <2>1. CASE i = 1
    BY <1>3, <1>5, <1>6, <2>1
  <2>2. CASE i # 1
    <3>1. i - 1 \in 1 .. Len(n) /\ (i - 1) + 2 = i + 1 /\ (i - 1) + 1 = i
      BY <2>2
    <3>2. s[(i - 1) + 2] = n[i - 1] /\ t[(i - 1) + 1] = n[i - 1]
      BY <1>3, <1>5, <3>1, Zenon
    <3>3. s[i + 1] = n[i - 1] /\ t[i] = n[i - 1]
      BY <3>1, <3>2, Zenon
    <3>. QED  BY <1>3, <1>6, <3>3
  <2>. QED  BY <2>1, <2>2, Zenon
<1>8. Tail(s) = t
  BY <1>3, <1>5, <1>6, <1>7
<1>. QED  BY <1>8, Zenon DEF s, t

\* A container, by the names that getContainersJSON shows.
LEMMA ContainerResolves ==
  ASSUME LookInv, kind = "container"
  PROVE  ShownNamesResolve
<1>. SUFFICES ASSUME NEW x \in known, NEW shown \in ShownNames(x),
                     NEW q \in Queries(Tail(shown)), NEW found \in Found(q)
              PROVE  Resolved(x, q, found)
  BY Zenon DEF ShownNamesResolve, Resolved, GivenBack
<1>. DEFINE byID == {y \in known : y.id \in q.ids}
            bySwarmID == {y \in known : y.swarm \in q.ids}
            byName == {y \in known : ContainerMatches(y, q.text)}
<1>1. CASE byID # {} \/ bySwarmID # {}
  <2>1. found = IF byID # {} THEN byID ELSE bySwarmID
    BY <1>1, Zenon DEF Found, GetContainer
  <2>. QED  BY <1>1, <2>1, Zenon DEF Resolved, GoesFirst, HasID
<1>2. CASE byID = {} /\ bySwarmID = {}
  <2>1. byName # {} => found = OnlyIf(Cardinality(byName) = 1, byName)
    BY <1>2, Zenon DEF Found, GetContainer
  <2>2. IsFiniteSet(byName)
    BY FS_Subset, Zenon DEF LookInv
  <2>3. x \in byName
    <3>1. PICK n \in x.names : shown = <<"/", hostName[x.host]>> \o n
      BY Zenon DEF ShownNames
    <3>2. x \in ContainerEntries
      BY Kinds, Zenon DEF LookInv, LookTypeOK
    <3>3. x.host \in Hosts /\ n \in ConNames
      BY <3>2 DEF ContainerEntries
    <3>4. /\ hostName[x.host] \in Words \cup {"/"} /\ "/" \in Words \cup {"/"}
          /\ n \in Seq(Words \cup {"/"})
      BY <3>3, NamesAssumption, Zenon DEF LookInv, LookTypeOK
    <3>5. Tail(shown) = <<hostName[x.host]>> \o n
      BY <3>1, <3>4, WithoutSlash, Zenon
    <3>. QED  BY <3>5, QueryText, Zenon DEF ContainerMatches
  <2>4. CASE Cardinality(byName) = 1
    <3>1. byName = {x}
      BY <2>2, <2>3, <2>4, One, Zenon
    <3>. QED  BY <2>1, <2>4, <3>1, Zenon DEF SameThing, OnlyIf, Resolved
  <2>5. CASE Cardinality(byName) # 1
    <3>1. PICK y \in byName : y # x
      <4>. HIDE DEF byName
      <4>. QED  BY <2>2, <2>3, <2>5, Another
    <3>. QED  BY <2>1, <2>3, <2>5, <3>1, Zenon DEF SameThing, OnlyIf, Matches, Resolved
  <2>. QED  BY <2>4, <2>5, Zenon
<1>. QED  BY <1>1, <1>2, Zenon

\* An ID comes before all else.
LEMMA IDsFirst == ASSUME LookInv PROVE IDsResolve
<1>. SUFFICES ASSUME kind \in {"network", "container"}, NEW x \in known, NEW text, NEW begins,
                     NEW found \in Found(Query(text, {x.id}, begins))
              PROVE  found # {} /\ \A y \in found : SameThing(x, y)
  BY Zenon DEF IDsResolve
<1>. DEFINE q == Query(text, {x.id}, begins)
<1>1. q.ids = {x.id}
  BY Zenon DEF Query
<1>2. CASE kind = "network"
  <2>1. PICK u \in Uniq(known) : found = GetNetwork(u, q)
    BY <1>2, Zenon DEF Found
  <2>2. PICK z \in u : z.id = x.id
    BY DEF Uniq, IDs
  <2>3. found = {y \in u : y.id \in q.ids}
    BY <1>1, <2>1, <2>2, Zenon DEF GetNetwork
  <2>. QED  BY <1>1, <1>2, <2>2, <2>3, Zenon DEF SameThing
<1>3. CASE kind = "container"
  <2>1. found = {y \in known : y.id \in q.ids}
    BY <1>1, <1>3, Zenon DEF Found, GetContainer
  <2>2. \A y \in found : y = x
    BY <1>1, <1>3, <2>1, Zenon DEF LookInv, LookTypeOK, OfOneMind
  <2>. QED  BY <1>1, <1>3, <2>1, <2>2, Zenon DEF SameThing
<1>. QED  BY <1>2, <1>3, Zenon

\* A number of matches that is not one is an answer of nothing.
LEMMA OnlyOne ==
  ASSUME NEW S, IsFiniteSet(S)
  PROVE  ~(Cardinality(OnlyIf(Cardinality(S) = 1, S)) > 1)
  BY FS_EmptySet DEF OnlyIf

\* An ID or a beginning of one that only one of the two sets has, once.
LEMMA OneOfTwo ==
  ASSUME NEW S, IsFiniteSet(S), NEW T, IsFiniteSet(T)
  PROVE  ~(Cardinality(OnlyIf(Cardinality(S) + Cardinality(T) = 1, S \cup T)) > 1)
<1>1. IsFiniteSet(S \cup T)
  BY FS_Union, Zenon
<1>2. Cardinality(S) \in Nat /\ Cardinality(T) \in Nat /\ Cardinality(S \cup T) \in Nat
  BY <1>1, FS_CardinalityType, Zenon
<1>3. Cardinality(S \cup T) <= Cardinality(S) + Cardinality(T)
  <2>1. Cardinality(S \cap T) \in Nat
    BY FS_Intersection, FS_CardinalityType, Zenon
  <2>2. Cardinality(S \cup T) = Cardinality(S) + Cardinality(T) - Cardinality(S \cap T)
    BY FS_Union, Zenon
  <2>. QED  BY <1>2, <2>1, <2>2
<1>. QED  BY <1>2, <1>3, FS_EmptySet DEF OnlyIf

\* Containers.Get: only an ID finds several.
LEMMA GuessesNever == ASSUME LookInv PROVE NeverGuesses
<1>. SUFFICES ASSUME kind = "container", NEW q, Cardinality(GetContainer(known, q)) > 1
              PROVE  \A x \in GetContainer(known, q) : HasID(x, q)
  BY Zenon DEF NeverGuesses
<1>. DEFINE found == GetContainer(known, q)
            byID == {x \in known : x.id \in q.ids}
            bySwarmID == {x \in known : x.swarm \in q.ids}
            byName == {x \in known : ContainerMatches(x, q.text)}
            idBegins == {x \in known : x.id \in q.begins}
            swarmBegins == {x \in known : x.swarm \in q.begins}
<1>1. found = IF byID # {} THEN byID
              ELSE IF bySwarmID # {} THEN bySwarmID
              ELSE IF byName # {} THEN OnlyIf(Cardinality(byName) = 1, byName)
              ELSE OnlyIf(Cardinality(idBegins) + Cardinality(swarmBegins) = 1,
                          idBegins \cup swarmBegins)
  BY Zenon DEF GetContainer
<1>2. IsFiniteSet(byName) /\ IsFiniteSet(idBegins) /\ IsFiniteSet(swarmBegins)
  BY FS_Subset, Zenon DEF LookInv
<1>3. byID # {} \/ bySwarmID # {}
  <2>. HIDE DEF idBegins, swarmBegins, byName, bySwarmID, byID
  <2>1. SUFFICES ASSUME byID = {}, bySwarmID = {} PROVE FALSE
    BY Zenon
  <2>2. CASE byName # {}
    BY <1>1, <1>2, <2>1, <2>2, OnlyOne, Zenon
  <2>3. CASE byName = {}
    BY <1>1, <1>2, <2>1, <2>3, OneOfTwo, Zenon
  <2>. QED  BY <2>2, <2>3, Zenon
<1>. QED  BY <1>1, <1>3, Zenon DEF HasID

\* What a client is shown finds what it was shown for, or nothing, or what an
\* ID or the whole name of a volume that is not local means first; an ID finds
\* its thing; and nothing but an ID finds one of several containers; whatever
\* the engines and the resources are called and however many there are
\* (Containers.Get, Networks.Get and Volumes.Get).
THEOREM LookupsCorrect == LookSpec => []LookupsRight
<1>1. LookInv => LookupsRight
  <2>1. ASSUME LookInv, kind = "listing" PROVE ShownNamesResolve
    BY <2>1, Zenon DEF ShownNamesResolve
  <2>2. LookInv => kind \in {"network", "volume", "container", "listing"}
    BY Kinds, Zenon DEF LookInv, LookTypeOK
  <2>. QED
    BY <2>1, <2>2, NetworkResolves, VolumeResolves, ContainerResolves, IDsFirst, GuessesNever, Zenon
    DEF LookupsRight
<1>. QED  BY <1>1, LookInvariance, PTL

(* The listing of containers.                                              *)

\* Of two texts the one that is not less is of a time that is not earlier,
\* unless they are of one second and the shorter fraction begins the other.
LEMMA TextOrder ==
  ASSUME NEW t \in Instants, NEW u \in Instants, ~Earlier(AsText(t), AsText(u))
  PROVE  ~Earlier(t, u) \/ Begins(t, u)
<1>1. /\ t[1] \in Nat /\ t[2] \in 0 .. 9 /\ t[3] \in 0 .. 9
      /\ u[1] \in Nat /\ u[2] \in 0 .. 9 /\ u[3] \in 0 .. 9
  BY DEF Instants
<1>2. /\ AsText(t)[1] = t[1] /\ AsText(u)[1] = u[1]
      /\ AsText(t)[2] = (IF t[2] = 0 /\ t[3] = 0 THEN 10 ELSE t[2])
      /\ AsText(u)[2] = (IF u[2] = 0 /\ u[3] = 0 THEN 10 ELSE u[2])
      /\ AsText(t)[3] = (IF t[3] = 0 THEN 10 ELSE t[3])
      /\ AsText(u)[3] = (IF u[3] = 0 THEN 10 ELSE u[3])
  BY DEF AsText, Z
<1>. QED  BY <1>1, <1>2 DEF Earlier, Begins

LEMMA NotBeforeItself ==
  ASSUME NEW c, c.created \in Instants
  PROVE  InOrder(c, c)
  BY DEF InOrder, Earlier, Instants

\* what is listed: finite, of one time each, of one ID each
Listable(S) ==
  /\ IsFiniteSet(S)
  /\ \A c \in S : c.created \in Instants

\* s has every element of S, once, in order
Sorted(s, S) ==
  /\ s \in Seq(S) /\ Len(s) = Cardinality(S) /\ Cardinality(S) \in Nat
  /\ \A c \in S : \E i \in 1 .. Cardinality(S) : s[i] = c
  /\ \A i, j \in 1 .. Cardinality(S) : i < j => s[i] # s[j] /\ InOrder(s[i], s[j])

LEMMA OneToOne ==
  ASSUME NEW S, NEW T, NEW f \in [S -> T], \A a, b \in S : f[a] = f[b] => a = b
  PROVE  f \in Injection(S, T)
<1>1. IsInjective(f)
  BY Zenon DEF IsInjective
<1>. QED  BY <1>1, Zenon DEF Injection

\* sort.Sort(sort.Reverse(ContainerSorter)) loses nobody, and its order is
\* that of the times as far as the texts allow.
LEMMA SortedAll ==
  ASSUME NEW S, Listable(S), NEW s \in NewestFirst(S)
  PROVE  Sorted(s, S)
<1>. DEFINE n == Cardinality(S)
<1>1. n \in Nat
  BY FS_CardinalityType, Zenon DEF Listable
<1>2. s \in [1 .. n -> S] /\ \A i, j \in 1 .. n : i < j => s[i] # s[j] /\ ~Less(s[i], s[j])
  BY Zenon DEF NewestFirst
<1>. HIDE DEF n
<1>3. s \in Injection(1 .. n, S)
  <2>1. \A i, j \in 1 .. n : i # j => i < j \/ j < i
    BY <1>1
  <2>2. \A i, j \in 1 .. n : s[i] = s[j] => i = j
    BY <1>2, <2>1, Zenon
  <2>. QED  BY <1>2, <2>2, OneToOne, Zenon
<1>4. s \in Surjection(1 .. n, S)
  <2>1. Cardinality(1 .. n) = n
    BY <1>1, FS_Interval
  <2>. QED  BY <1>3, <2>1, FS_Injection, Zenon DEF Listable, n
<1>5. \A c \in S : \E i \in 1 .. n : s[i] = c
  BY <1>4, Zenon DEF Surjection
<1>6. ASSUME NEW i \in 1 .. n, NEW j \in 1 .. n, i < j PROVE InOrder(s[i], s[j])
  <2>1. s[i].created \in Instants /\ s[j].created \in Instants
    BY <1>2, Zenon DEF Listable
  <2>2. ~Earlier(AsText(s[i].created), AsText(s[j].created))
    BY <1>2, <1>6, Zenon DEF Less
  <2>. QED  BY <2>1, <2>2, TextOrder, Zenon DEF InOrder
<1>7. s \in Seq(S) /\ Len(s) = n
  BY <1>1, <1>2
<1>. QED  BY <1>1, <1>2, <1>5, <1>6, <1>7, Zenon DEF Sorted, n

\* out is what comes after the first k of the first m elements of s
Part(out, s, k, m) ==
  /\ k \in 0 .. m /\ DOMAIN out = 1 .. m - k /\ Len(out) = m - k
  /\ \A i \in 1 .. m - k : out[i] = s[i + k]

CutAt(limit, n) == IF limit > 0 /\ limit < n THEN limit ELSE n

Named(s, before) == {i \in DOMAIN s : before # Nothing /\ s[i].id = before.id}

\* where the listing starts: at the newest or after the container the client named
StartsAfter(s, before, k, m) ==
  /\ before = Nothing => k = 0
  /\ before # Nothing => \/ k \in 1 .. m /\ s[k].id = before.id
                         \/ k = m /\ \A i \in 1 .. m : s[i].id # before.id

\* The limit keeps the first,
LEMMA PartFirst ==
  ASSUME NEW T, NEW s \in Seq(T), NEW limit \in Nat
  PROVE  /\ Cut(s, limit) \in Seq(T) /\ CutAt(limit, Len(s)) \in 0 .. Len(s)
         /\ Part(Cut(s, limit), s, 0, CutAt(limit, Len(s)))
<1>1. CASE limit > 0 /\ limit < Len(s)
  BY <1>1 DEF Part, CutAt, Cut
<1>2. CASE ~(limit > 0 /\ limit < Len(s))
  BY <1>2 DEF Part, CutAt, Cut
<1>. QED  BY <1>1, <1>2, Zenon

\* and before skips some of them.
LEMMA PartRest ==
  ASSUME NEW T, NEW s, NEW kept \in Seq(T), NEW m \in Nat, Part(kept, s, 0, m), NEW k \in 0 .. m
  PROVE  Part(SubSeq(kept, k + 1, Len(kept)), s, k, m)
  BY DEF Part

LEMMA PartSkipped ==
  ASSUME NEW T, NEW s, NEW kept \in Seq(T), NEW m \in Nat, Part(kept, s, 0, m), NEW before
  PROVE  /\ After(kept, before) \in Seq(T)
         /\ \E k \in 0 .. m : Part(After(kept, before), s, k, m) /\ StartsAfter(s, before, k, m)
<1>1. DOMAIN kept = 1 .. m /\ \A i \in 1 .. m : kept[i] = s[i]
  BY DEF Part
<1>2. 0 \in 0 .. m /\ m \in 0 .. m
  OBVIOUS
<1>3. CASE before = Nothing
  BY <1>2, <1>3, Zenon DEF After, StartsAfter
<1>4. CASE before # Nothing /\ Named(kept, before) = {}
  <2>1. \A i \in 1 .. m : s[i].id # before.id
    BY <1>1, <1>4, Zenon DEF Named
  <2>2. Part(<<>>, s, m, m) /\ <<>> \in Seq(T)
    BY DEF Part
  <2>. QED  BY <1>2, <1>4, <2>1, <2>2, Zenon DEF After, StartsAfter, Named
<1>5. CASE before # Nothing /\ Named(kept, before) # {}
  <2>1. PICK k \in Named(kept, before) : k = CHOOSE i \in Named(kept, before) : TRUE
    BY <1>5, Zenon
  <2>2. k \in 1 .. m /\ s[k].id = before.id
    BY <1>1, <2>1, Zenon DEF Named
  <2>3. k \in 0 .. m
    BY <2>2
  <2>4. Part(SubSeq(kept, k + 1, Len(kept)), s, k, m)
    BY <2>3, PartRest, Zenon
  <2>6. SubSeq(kept, k + 1, Len(kept)) \in Seq(T)
    BY <2>3
  <2>5. After(kept, before) = SubSeq(kept, k + 1, Len(kept))
    BY <1>5, <2>1, Zenon DEF After, Named
  <2>. QED  BY <1>5, <2>2, <2>3, <2>4, <2>5, <2>6, Zenon DEF StartsAfter
<1>. QED  BY <1>3, <1>4, <1>5, Zenon

Listed(out) == {out[i] : i \in DOMAIN out}
Descending(out) == \A i, j \in DOMAIN out : i < j => out[i] # out[j] /\ InOrder(out[i], out[j])

\* which elements of S a part has: those at the places from k + 1 to m
Places(out, s, S, k, m) ==
  \A c \in S : \E i \in 1 .. Cardinality(S) : c = s[i] /\ (c \in Listed(out) <=> i > k /\ i <= m)

\* A part of a sorted list is sorted, and has the candidates of its places.
LEMMA PartSorted ==
  ASSUME NEW S, NEW s, Sorted(s, S), NEW m \in 0 .. Cardinality(S),
         NEW out, NEW k, Part(out, s, k, m)
  PROVE  Descending(out) /\ Listed(out) \subseteq S /\ Places(out, s, S, k, m)
<1>. DEFINE n == Cardinality(S)
<1>1. /\ n \in Nat /\ s \in Seq(S) /\ Len(s) = n
      /\ \A c \in S : \E i \in 1 .. n : s[i] = c
      /\ \A i, j \in 1 .. n : i < j => s[i] # s[j] /\ InOrder(s[i], s[j])
  BY Zenon DEF Sorted
<1>. HIDE DEF n
<1>2. m \in 0 .. n /\ k \in 0 .. m
  BY Zenon DEF n, Part
<1>3. \A i \in 1 .. n : s[i] \in S
  BY <1>1
<1>5. DOMAIN out = 1 .. m - k /\ \A i \in 1 .. m - k : out[i] = s[i + k]
  BY Zenon DEF Part
<1>6. \A i \in 1 .. m - k : i + k \in 1 .. n
  BY <1>1, <1>2
<1>7. Descending(out)
  <2>1. SUFFICES ASSUME NEW i \in 1 .. m - k, NEW j \in 1 .. m - k, i < j
                 PROVE  out[i] # out[j] /\ InOrder(out[i], out[j])
    BY <1>5, Zenon DEF Descending
  <2>2. i + k < j + k
    BY <1>2, <2>1
  <2>3. s[i + k] # s[j + k] /\ InOrder(s[i + k], s[j + k])
    BY <1>1, <1>6, <2>2, Zenon
  <2>. QED  BY <1>5, <2>3, Zenon
<1>8. Listed(out) \subseteq S
  BY <1>3, <1>5, <1>6, Zenon DEF Listed
<1>9. ASSUME NEW c \in S
      PROVE  \E i \in 1 .. n : c = s[i] /\ (c \in Listed(out) <=> i > k /\ i <= m)
  <2>1. PICK i \in 1 .. n : s[i] = c
    BY <1>1, Zenon
  <2>2. ASSUME c \in Listed(out) PROVE i > k /\ i <= m
    <3>1. PICK j \in 1 .. m - k : c = s[j + k] /\ j + k \in 1 .. n
      BY <1>5, <1>6, <2>2, Zenon DEF Listed
    <3>2. ~(i < j + k) /\ ~(j + k < i)
      BY <1>1, <2>1, <3>1, Zenon
    <3>. QED  BY <1>1, <1>2, <3>1, <3>2
  <2>3. ASSUME i > k /\ i <= m PROVE c \in Listed(out)
    <3>1. i - k \in 1 .. m - k /\ (i - k) + k = i
      BY <1>1, <1>2, <2>3
    <3>. QED  BY <1>5, <2>1, <3>1, Zenon DEF Listed
  <2>. QED  BY <2>1, <2>2, <2>3, Zenon
<1>. QED  BY <1>7, <1>8, <1>9, Zenon DEF Places, n

OnlyNewest(out, S) == \A c \in S \ Listed(out), d \in Listed(out) : InOrder(d, c)

\* The limit cuts off the oldest.
LEMMA CutOldest ==
  ASSUME NEW S, NEW s, Sorted(s, S), NEW m \in 0 .. Cardinality(S), NEW out, Part(out, s, 0, m)
  PROVE  Len(out) = m /\ OnlyNewest(out, S)
<1>1. Cardinality(S) \in Nat /\ m \in Nat
  BY DEF Sorted
<1>2. Len(out) = m
  BY <1>1 DEF Part
<1>3. Places(out, s, S, 0, m) /\ Listed(out) \subseteq S
  BY PartSorted, Zenon
<1>4. ASSUME NEW c \in S \ Listed(out), NEW d \in Listed(out) PROVE InOrder(d, c)
  <2>1. PICK i \in 1 .. Cardinality(S) : c = s[i] /\ ~(i > 0 /\ i <= m)
    BY <1>3, Zenon DEF Places
  <2>2. PICK j \in 1 .. Cardinality(S) : d = s[j] /\ j > 0 /\ j <= m
    BY <1>3, Zenon DEF Places
  <2>3. j < i
    BY <1>1, <2>1, <2>2
  <2>. QED  BY <2>1, <2>2, <2>3, Zenon DEF Sorted
<1>. QED  BY <1>2, <1>4, Zenon DEF OnlyNewest

\* what comes after the container the client named, and that limit counts from
\* the newest
OnlyOlder(out, S, limit, before) ==
  /\ \A d \in Listed(out) : d # before /\ InOrder(before, d)
  /\ \A c \in S \ (Listed(out) \cup {before}) :
       InOrder(c, before) \/ (limit > 0 /\ \A d \in Listed(out) : InOrder(d, c))
  /\ limit > 0 => Len(out) < limit
  /\ limit > 0 /\ Cardinality({c \in S : ~InOrder(before, c)}) >= limit => out = <<>>

LEMMA CutBounds ==
  ASSUME NEW n \in Nat, NEW limit \in Nat, NEW m, m = CutAt(limit, n)
  PROVE  m \in 0 .. n /\ (m < n => limit > 0) /\ (limit > 0 => m <= limit)
  BY DEF CutAt

LEMMA FirstOnes ==
  ASSUME NEW j \in Nat
  PROVE  IsFiniteSet(1 .. j) /\ Cardinality(1 .. j) = j
  BY FS_Interval

\* At most k - 1 come in front of the k-th.
LEMMA InFront ==
  ASSUME NEW S, NEW s, Sorted(s, S), Listable(S), NEW k \in 1 .. Cardinality(S)
  PROVE  /\ Cardinality({c \in S : ~InOrder(s[k], c)}) \in Nat
         /\ Cardinality({c \in S : ~InOrder(s[k], c)}) <= k - 1
<1>. DEFINE front == {c \in S : ~InOrder(s[k], c)}
            image == {s[i] : i \in 1 .. k - 1}
            f == [i \in 1 .. k - 1 |-> s[i]]
<1>1. Cardinality(S) \in Nat /\ k \in Nat /\ k - 1 \in Nat
  BY DEF Sorted
<1>2. front \subseteq image
  <2>1. SUFFICES ASSUME NEW c \in S, ~InOrder(s[k], c) PROVE \E i \in 1 .. k - 1 : c = s[i]
    BY Zenon
  <2>2. PICK i \in 1 .. Cardinality(S) : c = s[i]
    BY Zenon DEF Sorted
  <2>3. ~(k < i)
    BY <2>1, <2>2, Zenon DEF Sorted
  <2>4. i # k
    BY <2>1, <2>2, NotBeforeItself, Zenon DEF Listable
  <2>5. i \in 1 .. k - 1
    BY <1>1, <2>3, <2>4
  <2>. QED  BY <2>2, <2>5, Zenon
<1>3. f \in Surjection(1 .. k - 1, image)
  BY Zenon DEF Surjection
<1>. HIDE DEF front, image, f
<1>4. IsFiniteSet(1 .. k - 1) /\ Cardinality(1 .. k - 1) = k - 1
  BY <1>1, FirstOnes, Zenon
<1>5. IsFiniteSet(image) /\ Cardinality(image) <= k - 1
  <2>1. IsFiniteSet(image) /\ Cardinality(image) <= Cardinality(1 .. k - 1)
    BY <1>3, <1>4, FS_Surjection, Zenon
  <2>. QED  BY <1>4, <2>1, Zenon
<1>6. IsFiniteSet(front) /\ Cardinality(front) <= Cardinality(image)
  BY <1>2, <1>5, FS_Subset, Zenon
<1>7. Cardinality(front) \in Nat /\ Cardinality(image) \in Nat
  BY <1>5, <1>6, FS_CardinalityType, Zenon
<1>8. Cardinality(front) <= k - 1
  BY <1>1, <1>5, <1>6, <1>7
<1>. QED  BY <1>7, <1>8, Zenon DEF front

\* What follows the container the client named, which is listed, is not newer
\* than it, and what is missing is newer or was cut off.
LEMMA OlderFollow ==
  ASSUME NEW S, Listable(S), NEW s, Sorted(s, S), NEW limit \in Nat,
         NEW m, m = CutAt(limit, Cardinality(S)),
         NEW out, NEW k \in 1 .. m, Part(out, s, k, m)
  PROVE  OnlyOlder(out, S, limit, s[k])
<1>1. Cardinality(S) \in Nat
  BY Zenon DEF Sorted
<1>2. m \in 0 .. Cardinality(S) /\ (m < Cardinality(S) => limit > 0) /\ (limit > 0 => m <= limit)
  BY <1>1, CutBounds, Zenon
<1>3. Places(out, s, S, k, m) /\ Listed(out) \subseteq S
  BY <1>2, PartSorted, Zenon
<1>4. k \in 1 .. Cardinality(S) /\ k \in Nat /\ m \in Nat
  BY <1>1, <1>2
<1>5. ASSUME NEW d \in Listed(out) PROVE d # s[k] /\ InOrder(s[k], d)
  <2>1. PICK i \in 1 .. Cardinality(S) : d = s[i] /\ i > k
    BY <1>3, <1>5, Zenon DEF Places
  <2>2. k < i
    BY <1>4, <2>1
  <2>. QED  BY <1>4, <2>1, <2>2, Zenon DEF Sorted
<1>6. ASSUME NEW c \in S \ (Listed(out) \cup {s[k]})
      PROVE  InOrder(c, s[k]) \/ (limit > 0 /\ \A d \in Listed(out) : InOrder(d, c))
  <2>1. PICK i \in 1 .. Cardinality(S) : c = s[i] /\ ~(i > k /\ i <= m) /\ i # k
    BY <1>3, <1>6, Zenon DEF Places
  <2>2. CASE i < k
    BY <1>4, <2>1, <2>2, Zenon DEF Sorted
  <2>3. CASE i > m
    <3>1. limit > 0
      BY <1>1, <1>2, <1>4, <2>1, <2>3
    <3>2. ASSUME NEW d \in Listed(out) PROVE InOrder(d, c)
      <4>1. PICK j \in 1 .. Cardinality(S) : d = s[j] /\ j <= m
        BY <1>3, <3>2, Zenon DEF Places
      <4>2. j < i
        BY <1>4, <2>1, <2>3, <4>1
      <4>. QED  BY <2>1, <4>1, <4>2, Zenon DEF Sorted
    <3>. QED  BY <3>1, <3>2, Zenon
  <2>4. i < k \/ i > m
    BY <1>4, <2>1
  <2>. QED  BY <2>2, <2>3, <2>4, Zenon
<1>7. limit > 0 => Len(out) < limit
  BY <1>2, <1>4 DEF Part
<1>8. ~(limit > 0 /\ Cardinality({c \in S : ~InOrder(s[k], c)}) >= limit)
  <2>. DEFINE front == Cardinality({c \in S : ~InOrder(s[k], c)})
  <2>1. front \in Nat /\ front <= k - 1
    BY <1>4, InFront, Zenon
  <2>. HIDE DEF front
  <2>2. ~(limit > 0 /\ front >= limit)
    BY <1>2, <1>4, <2>1
  <2>. QED  BY <2>2, Zenon DEF front
<1>. QED  BY <1>5, <1>6, <1>7, <1>8, Zenon DEF OnlyOlder

\* If the container the client named is not among those kept, nothing is listed.
LEMMA NothingFollows ==
  ASSUME NEW S, NEW s, Sorted(s, S), NEW limit \in Nat,
         NEW m, m = CutAt(limit, Cardinality(S)), NEW before,
         \A i \in 1 .. m : s[i].id # before.id, NEW out, out = <<>>
  PROVE  before \in S => OnlyOlder(out, S, limit, before)
<1>. SUFFICES ASSUME before \in S PROVE OnlyOlder(out, S, limit, before)
  BY Zenon
<1>1. Cardinality(S) \in Nat
  BY Zenon DEF Sorted
<1>2. m \in 0 .. Cardinality(S) /\ (m < Cardinality(S) => limit > 0)
  BY <1>1, CutBounds, Zenon
<1>3. PICK p \in 1 .. Cardinality(S) : s[p] = before
  BY Zenon DEF Sorted
<1>4. p \notin 1 .. m
  BY <1>3, Zenon
<1>5. limit > 0
  BY <1>1, <1>2, <1>4
<1>6. Listed(out) = {} /\ Len(out) = 0
  BY DEF Listed
<1>7. Len(out) < limit
  BY <1>5, <1>6
<1>. QED  BY <1>5, <1>6, <1>7, Zenon DEF OnlyOlder

\* What getContainersJSON answers, in terms of the containers it selects.
LEMMA ListingState ==
  ASSUME LookInv, kind = "listing", NEW all, NEW limit \in Nat, NEW before \in there \cup {Nothing},
         NEW out \in getContainersJSON(all, limit, before),
         NEW S, S = Selected(all, limit, before)
  PROVE  AsAsked(out, S, limit, before)
<1>1. S \subseteq known /\ known \subseteq there /\ there \subseteq Candidates
  BY Kinds, Zenon DEF Selected, LookInv, LookTypeOK
<1>2. Listable(S)
  <2>1. IsFiniteSet(S)
    BY <1>1, FS_Subset, Zenon DEF LookInv
  <2>2. \A c \in Candidates : c.created \in Times
    BY DEF Candidates
  <2>. QED  BY <1>1, <2>1, <2>2, ListAssumption, Zenon DEF Listable
<1>3. PICK s \in NewestFirst(S) : out = After(Cut(s, limit), before)
  BY Zenon DEF getContainersJSON
<1>4. Sorted(s, S)
  BY <1>2, SortedAll, Zenon
<1>5. s \in Seq(S) /\ Len(s) = Cardinality(S) /\ Cardinality(S) \in Nat
  BY <1>4, Zenon DEF Sorted
<1>6. PICK m : m = CutAt(limit, Cardinality(S))
  BY Zenon
<1>7. Cut(s, limit) \in Seq(S) /\ m \in 0 .. Cardinality(S) /\ Part(Cut(s, limit), s, 0, m)
  BY <1>5, <1>6, PartFirst, Zenon
<1>8. m \in Nat
  BY <1>5, <1>7
<1>9. /\ out \in Seq(S)
      /\ \E k \in 0 .. m : Part(out, s, k, m) /\ StartsAfter(s, before, k, m)
  BY <1>3, <1>7, <1>8, PartSkipped, Zenon
<1>10. PICK k \in 0 .. m : Part(out, s, k, m) /\ StartsAfter(s, before, k, m)
  BY <1>9, Zenon
<1>11. Descending(out) /\ Listed(out) \subseteq S
  BY <1>4, <1>7, <1>10, PartSorted, Zenon
<1>12. CASE before = Nothing
  <2>1. k = 0
    BY <1>10, <1>12, Zenon DEF StartsAfter
  <2>2. Len(out) = m /\ OnlyNewest(out, S)
    BY <1>4, <1>7, <1>10, <2>1, CutOldest, Zenon
  <2>. QED  BY <1>6, <1>11, <1>12, <2>2, Zenon DEF AsAsked, Descending, Listed, OnlyNewest, CutAt
<1>13. CASE before # Nothing /\ k \in 1 .. m /\ s[k].id = before.id
  <2>1. s[k] \in S
    BY <1>5, <1>7, <1>8, <1>13
  <2>2. s[k] = before
    BY <1>1, <1>13, <2>1, Zenon DEF LookInv, OfOneMind
  <2>3. OnlyOlder(out, S, limit, before)
    BY <1>2, <1>4, <1>6, <1>10, <1>13, <2>2, OlderFollow, Zenon
  <2>. QED  BY <1>11, <1>13, <2>1, <2>2, <2>3, Zenon DEF AsAsked, Descending, Listed, OnlyOlder
<1>14. CASE before # Nothing /\ k = m /\ \A i \in 1 .. m : s[i].id # before.id
  <2>1. Len(out) = 0
    BY <1>8, <1>10, <1>14 DEF Part
  <2>2. out = <<>>
    BY <1>9, <2>1
  <2>3. before \in S => OnlyOlder(out, S, limit, before)
    BY <1>4, <1>6, <1>14, <2>2, NothingFollows, Zenon
  <2>. QED  BY <1>11, <1>14, <2>2, <2>3, Zenon DEF AsAsked, Descending, Listed, OnlyOlder
<1>. QED  BY <1>10, <1>12, <1>13, <1>14, Zenon DEF StartsAfter

\* The listing of containers is in order, as far as the texts it sorts tell the
\* times, and is of the selected ones; it has the newest ones if there is a
\* limit, and those after a container the client named, if that is itself
\* selected and the limit reaches it (getContainersJSON); for any number of
\* containers and any times.
THEOREM ListingCorrect == LookSpec => []ListingRight
<1>1. Cardinality(ListIDs) \in Nat
  BY ListAssumption, FS_CardinalityType, Zenon
<1>2. \A limit \in 0 .. Cardinality(ListIDs) : limit \in Nat
  BY <1>1
<1>3. LookInv => ListingRight
  BY <1>2, ListingState, Zenon DEF ListingRight
<1>. QED  BY <1>3, LookInvariance, PTL
-----------------------------------------------------------------------------
(* NetworkEndpoints.                                                       *)

(* What was inspected is about one network, and names nobody if the daemon *)
(* does not have it: nothing is attached to a network that does not exist. *)
InspectedRight ==
  inspected # NoAnswer =>
    /\ inspected.ends \subseteq To(inspected.net)
    /\ ~inspected.found => inspected.ends = {}

EndInv == EndTypeOK /\ InspectedRight

(* The initial states satisfy both.                                        *)
LEMMA EndInitInv == EndInit => EndInv
<1>. SUFFICES ASSUME EndInit PROVE EndInv
  BY Zenon
<1>1. /\ loop \in [pc : {"containers", "list", "apply", "update"}, list : SUBSET Nets]
      /\ request \in [pc : {"off", "list", "apply", "container", "update"},
                      list : SUBSET Nets, con : Containers \cup {NoAnswer}]
  BY Zenon DEF EndInit, Off
<1>2. requests \in 0 .. MaxRequests
  BY RequestsBound DEF EndInit
<1>3. InspectedRight
  BY Zenon DEF EndInit, InspectedRight
<1>. QED  BY <1>1, <1>2, <1>3, Zenon DEF EndInit, EndInv, EndTypeOK

(* UpdateNetworkContainers adds pairs of networks that are listed, and     *)
(* stops at the first that is not.                                         *)
LEMMA UpdateListed ==
  ASSUME EndTypeOK, NEW pairs, UpdateNetworkContainers(pairs)
  PROVE  ends' \subseteq Containers \X nets
BY Zenon DEF UpdateNetworkContainers, EndTypeOK

(* The loop and the requests: they replace the list and empty it, or add   *)
(* to it.                                                                  *)
LEMMA LoopInv ==
  ASSUME EndInv, LoopStep
  PROVE  EndInv'
<1>0. EndTypeOK /\ InspectedRight
  BY Zenon DEF EndInv
<1>1. UNCHANGED <<exists, attached, request, queue, inspected, requests>>
  BY Zenon DEF LoopStep, LoopContainers, LoopList, LoopApply, LoopUpdate
<1>2. /\ loop' \in [pc : {"containers", "list", "apply", "update"}, list : SUBSET Nets]
      /\ seen' \subseteq Containers \X Nets
      /\ nets' \subseteq Nets
  <2>1. loop \in [pc : {"containers", "list", "apply", "update"}, list : SUBSET Nets]
        /\ exists \subseteq Nets /\ attached \subseteq Containers \X exists
        /\ seen \subseteq Containers \X Nets /\ nets \subseteq Nets
    BY <1>0, Zenon DEF EndTypeOK
  <2>. QED  BY <2>1 DEF LoopStep, LoopContainers, LoopList, LoopApply, LoopUpdate, SetNetworks
<1>3. ends' \subseteq Containers \X nets'
  <2>1. CASE LoopUpdate
    BY <1>0, <2>1, UpdateListed, Zenon DEF LoopUpdate
  <2>2. CASE LoopApply
    BY <2>2, Zenon DEF LoopApply, SetNetworks
  <2>3. CASE LoopContainers \/ LoopList
    BY <1>0, <2>3, Zenon DEF LoopContainers, LoopList, EndTypeOK
  <2>. QED  BY <2>1, <2>2, <2>3, Zenon DEF LoopStep
<1>4. InspectedRight'
  BY <1>0, <1>1, Zenon DEF InspectedRight
<1>. QED  BY <1>0, <1>1, <1>2, <1>3, <1>4, Zenon DEF EndInv, EndTypeOK

(* Likewise.                                                               *)
LEMMA RequestInv ==
  ASSUME EndInv, RequestStep
  PROVE  EndInv'
<1>0. EndTypeOK /\ InspectedRight
  BY Zenon DEF EndInv
<1>1. UNCHANGED <<exists, attached, loop, queue, inspected, requests>>
  BY Zenon DEF RequestStep, RequestList, RequestApply, RequestContainer, RequestUpdate
<1>2. /\ request' \in [pc : {"off", "list", "apply", "container", "update"},
                       list : SUBSET Nets, con : Containers \cup {NoAnswer}]
      /\ seen' \subseteq Containers \X Nets
      /\ nets' \subseteq Nets
  <2>1. request \in [pc : {"off", "list", "apply", "container", "update"},
                     list : SUBSET Nets, con : Containers \cup {NoAnswer}]
        /\ exists \subseteq Nets /\ attached \subseteq Containers \X exists
        /\ seen \subseteq Containers \X Nets /\ nets \subseteq Nets
    BY <1>0, Zenon DEF EndTypeOK
  <2>2. CASE RequestList
    BY <2>1, <2>2, Zenon DEF RequestList
  <2>3. CASE RequestApply
    BY <2>1, <2>3, Zenon DEF RequestApply, SetNetworks
  <2>4. CASE RequestContainer
    <3>1. request' \in [pc : {"off", "list", "apply", "container", "update"},
                        list : SUBSET Nets, con : Containers \cup {NoAnswer}]
      BY <2>1, <2>4, Zenon DEF RequestContainer
    <3>2. nets' = nets /\ seen' \subseteq seen \cup attached
      BY <2>4, Zenon DEF RequestContainer
    <3>3. attached \subseteq Containers \X Nets
      BY <2>1, Zenon
    <3>. QED  BY <2>1, <3>1, <3>2, <3>3, Zenon
  <2>5. CASE RequestUpdate
    BY <2>1, <2>5, Zenon DEF RequestUpdate, Off
  <2>. QED  BY <2>2, <2>3, <2>4, <2>5, Zenon DEF RequestStep
<1>3. ends' \subseteq Containers \X nets'
  <2>1. CASE RequestUpdate
    BY <1>0, <2>1, UpdateListed, Zenon DEF RequestUpdate
  <2>2. CASE RequestApply
    BY <2>2, Zenon DEF RequestApply, SetNetworks
  <2>3. CASE RequestContainer \/ RequestList
    BY <1>0, <2>3, Zenon DEF RequestContainer, RequestList, EndTypeOK
  <2>. QED  BY <2>1, <2>2, <2>3, Zenon DEF RequestStep
<1>4. InspectedRight'
  BY <1>0, <1>1, Zenon DEF InspectedRight
<1>. QED  BY <1>0, <1>1, <1>2, <1>3, <1>4, Zenon DEF EndInv, EndTypeOK

(* Events: what was inspected is what the daemon had, and the network      *)
(* comes into the list, or goes, with what was found on it.                *)
LEMMA EventInv ==
  ASSUME EndInv, EventStep
  PROVE  EndInv'
<1>0. EndTypeOK /\ InspectedRight
  BY Zenon DEF EndInv
<1>1. UNCHANGED <<exists, attached, seen, loop, request, requests>>
  BY Zenon DEF EventStep, refreshNetwork, Inspect
<1>2. ASSUME NEW n \in Nets, Inspect(n)
      PROVE  EndInv'
  <2>1. /\ inspected' = [net |-> n, found |-> n \in exists, ends |-> attached \cap To(n)]
        /\ UNCHANGED <<nets, ends>> /\ queue' \subseteq Nets
    BY <1>0, <1>2, Zenon DEF Inspect, EndTypeOK
  <2>2. attached \cap To(n) \subseteq Containers \X Nets
    BY Zenon DEF To
  <2>3. n \notin exists => attached \cap To(n) = {}
    <3>1. \A p \in attached \cap To(n) : p[2] = n /\ p[2] \in exists
      BY <1>0, Zenon DEF EndTypeOK, To
    <3>. QED  BY <3>1, Zenon
  <2>4. inspected' \in [net : Nets, found : BOOLEAN, ends : SUBSET (Containers \X Nets)]
    BY <2>1, <2>2
  <2>5. InspectedRight'
    BY <2>1, <2>3, Zenon DEF InspectedRight, To
  <2>. QED  BY <1>0, <1>1, <2>1, <2>4, <2>5, Zenon DEF EndInv, EndTypeOK
<1>3. CASE refreshNetwork
  <2>1. /\ inspected # NoAnswer /\ inspected' = NoAnswer /\ queue' = queue
        /\ nets' = IF inspected.found THEN nets \cup {inspected.net}
                   ELSE nets \ {inspected.net}
        /\ ends' = (ends \ To(inspected.net)) \cup inspected.ends
    BY <1>3, Zenon DEF refreshNetwork
  <2>2. inspected.net \in Nets /\ inspected.ends \subseteq To(inspected.net)
        /\ (~inspected.found => inspected.ends = {})
    BY <1>0, <2>1, Zenon DEF EndTypeOK, InspectedRight
  <2>3. nets' \subseteq Nets
    BY <1>0, <2>1, <2>2, Zenon DEF EndTypeOK
  <2>4. ends' \subseteq Containers \X nets'
    <3>1. ASSUME NEW p \in ends, p \notin To(inspected.net)
          PROVE  p \in Containers \X nets'
      <4>1. p \in Containers \X nets /\ nets \subseteq Nets
        BY <1>0, Zenon DEF EndTypeOK
      <4>2. p[2] # inspected.net
        BY <3>1, <4>1, Zenon DEF To
      <4>. QED  BY <2>1, <4>1, <4>2, Zenon
    <3>2. ASSUME NEW p \in inspected.ends
          PROVE  p \in Containers \X nets'
      <4>1. p \in Containers \X Nets /\ p[2] = inspected.net /\ inspected.found
        BY <2>2, <3>2, Zenon DEF To
      <4>. QED  BY <2>1, <4>1, Zenon
    <3>. QED  BY <2>1, <3>1, <3>2, Zenon
  <2>5. InspectedRight'
    BY <2>1, Zenon DEF InspectedRight
  <2>. QED  BY <1>0, <1>1, <2>1, <2>3, <2>4, <2>5, Zenon DEF EndInv, EndTypeOK
<1>. QED  BY <1>2, <1>3, Zenon DEF EventStep

(* What clients do at the daemon: a network goes only when nothing is      *)
(* attached to it.                                                         *)
LEMMA DaemonInv ==
  ASSUME EndInv, NEW n \in Nets,
         CreateOrRemove(n) \/ \E c \in Containers : Connect(c, n) \/ Disconnect(c, n)
  PROVE  EndInv'
<1>0. EndTypeOK /\ InspectedRight
  BY Zenon DEF EndInv
<1>1. UNCHANGED <<seen, nets, ends, loop, inspected>>
  BY Zenon DEF CreateOrRemove, Connect, Disconnect
<1>2. requests' \in 0 .. MaxRequests
  <2>1. requests < MaxRequests /\ requests' = requests + 1 /\ requests \in 0 .. MaxRequests
    BY <1>0, Zenon DEF CreateOrRemove, Connect, Disconnect, Ask, EndTypeOK
  <2>. QED  BY <2>1, RequestsBound
<1>3. /\ exists' \subseteq Nets /\ queue' \subseteq Nets
  BY <1>0, Zenon DEF CreateOrRemove, Connect, Disconnect, EndTypeOK
<1>4. attached' \subseteq Containers \X exists'
  <2>1. CASE CreateOrRemove(n)
    <3>1. attached' = attached /\ attached \subseteq Containers \X exists /\ exists \subseteq Nets
      BY <1>0, <2>1, Zenon DEF CreateOrRemove, EndTypeOK
    <3>2. CASE exists' = exists \cup {n}
      BY <3>1, <3>2, Zenon
    <3>3. CASE attached \cap To(n) = {} /\ exists' = exists \ {n}
      <4>1. ASSUME NEW p \in attached PROVE p \in Containers \X exists'
        <5>1. p \in Containers \X exists /\ p \in Containers \X Nets
          BY <3>1, Zenon
        <5>2. p[2] # n
          BY <3>3, <5>1, Zenon DEF To
        <5>. QED  BY <3>3, <5>1, <5>2
      <4>. QED  BY <3>1, <4>1, Zenon
    <3>. QED  BY <2>1, <3>2, <3>3, Zenon DEF CreateOrRemove
  <2>2. ASSUME NEW c \in Containers, Connect(c, n) \/ Disconnect(c, n)
        PROVE  attached' \subseteq Containers \X exists'
    <3>1. /\ exists' = exists /\ attached \subseteq Containers \X exists
          /\ attached' \subseteq attached \/ (n \in exists /\ attached' = attached \cup {<<c, n>>})
      BY <1>0, <2>2, Zenon DEF Connect, Disconnect, EndTypeOK
    <3>. QED  BY <3>1
  <2>. QED  BY <2>1, <2>2, Zenon
<1>5. request' \in [pc : {"off", "list", "apply", "container", "update"},
                    list : SUBSET Nets, con : Containers \cup {NoAnswer}]
  BY <1>0, Zenon DEF CreateOrRemove, Connect, Disconnect, Off, EndTypeOK
<1>6. InspectedRight'
  BY <1>0, <1>1, Zenon DEF InspectedRight
<1>. QED  BY <1>0, <1>1, <1>2, <1>3, <1>4, <1>5, <1>6, Zenon DEF EndInv, EndTypeOK

(* However the refresh loop, a request and the events write the networks   *)
(* of an engine, with lists and inspections that may be old when they are  *)
(* applied, a container is shown only on networks that are listed, and no  *)
(* name of a container is left under a network that was taken out.         *)
THEOREM EndpointsListed == EndSpec => []EndTypeOK
<1>1. EndInv /\ [EndNext]_endVars => EndInv'
  <2>. SUFFICES ASSUME EndInv, [EndNext]_endVars PROVE EndInv'
    BY Zenon
  <2>1. CASE UNCHANGED endVars
    BY <2>1, Zenon DEF endVars, EndInv, EndTypeOK, InspectedRight
  <2>. QED  BY <2>1, LoopInv, RequestInv, EventInv, DaemonInv, Zenon DEF EndNext
<1>2. EndInv => EndTypeOK
  BY Zenon DEF EndInv
<1>. QED  BY <1>1, <1>2, EndInitInv, PTL DEF EndSpec
=============================================================================
