-------------------------- MODULE EngineCallsProofs --------------------------
(***************************************************************************)
(* What the goroutines that call the daemons of the engines achieve: the   *)
(* refreshes of a cache (ContainerCache), for any containers, goroutines   *)
(* and states of a container, and the requests that go to many engines     *)
(* (FanOut), for any number of engines and matching images.                *)
(***************************************************************************)
EXTENDS ContainerCache, FanOut, FiniteSetTheorems, TLAPS

(* What a goroutine holds at each point of its call.                       *)
Control ==
  \A p \in Procs :
    /\ pc[p] \in {"lookup", "inspect", "apply", "forget"} => target[p] \in Containers
    /\ pc[p] = "list" /\ p \in Updaters => target[p] \in Containers
    /\ pc[p] \in {"inspect", "apply"} => ref[p] \in Procs
    /\ pc[p] = "pick" => p \in Refreshers

(* Each object that can be reached has been inspected, or will be before   *)
(* its goroutine passes it on.                                             *)
Inspected(q, c) == store[q][c].info # 0

Seen ==
  /\ \A c \in Containers : cache[c] # None => Inspected(cache[c], c)
  /\ \A p \in Procs :
       /\ \A c \in Containers : merged[p][c] # None => Inspected(merged[p][c], c)
       /\ pc[p] \in {"inspect", "apply"} => deep[p] \/ Inspected(ref[p], target[p])
       /\ pc[p] = "apply" /\ deep[p] => info[p] # 0

(* What the cache and the goroutines know of has existed, and what a       *)
(* goroutine is about to delete is gone.                                   *)
Existed(c) == daemon[c] # Absent

Known ==
  /\ \A c \in Containers : cache[c] # None => Existed(c)
  /\ \A p \in Procs :
       /\ \A c \in Containers : merged[p][c] # None \/ listed[p][c] # Absent => Existed(c)
       /\ \A c \in missing[p] : Existed(c) /\ (pc[p] # "list" => daemon[c] = Gone)
       /\ p \in Updaters => missing[p] = {}
       /\ pc[p] \in {"lookup", "inspect", "apply"} => Existed(target[p])
       /\ pc[p] = "forget" => daemon[target[p]] = Gone

Inv == TypeOK /\ Control /\ Seen /\ Known

Drops == \A c \in Containers : cache[c] # None /\ cache'[c] = None => daemon[c] = Gone

-----------------------------------------------------------------------------
LEMMA Constants ==
  /\ Gone \in Nat /\ Gone \notin Live /\ Gone # Absent /\ Absent \notin Live /\ 0 \notin Live
  /\ \A v \in 0 .. Gone : v \notin Live => v = Absent \/ v = Gone
  /\ Live \subseteq Version /\ Absent \in Version /\ Live \subseteq 0 .. Gone
  /\ \A v \in 1 .. MaxVersion - 1 : v + 1 \in Live
  /\ 1 \in Live
  /\ None \notin Procs /\ None \notin Containers
  /\ Refreshers \subseteq Procs /\ Updaters \subseteq Procs /\ Apis \subseteq Updaters
  /\ Monitor \in Updaters /\ \A p \in Refreshers : p \notin Updaters
BY VersionAssumption, ProcAssumption DEF Gone, Live, Absent, Version, Procs, Updaters

(* A container that has existed has done so for ever, and one that is gone *)
(* does not come back.                                                     *)
LEMMA DaemonMoves ==
  ASSUME TypeOK, NEW c \in Containers, Created(c) \/ Changed(c) \/ Removed(c)
  PROVE  /\ daemon' \in [Containers -> 0 .. Gone]
         /\ \A d \in Containers : /\ daemon[d] # Absent => daemon'[d] # Absent
                                  /\ daemon[d] = Gone => daemon'[d] = Gone
<1>1. PICK v \in 0 .. Gone : daemon' = [daemon EXCEPT ![c] = v] /\ v # Absent /\ daemon[c] # Gone
  BY VersionAssumption DEF Created, Changed, Removed, Gone, Live, Absent, TypeOK
<1>. QED  BY <1>1, Zenon DEF TypeOK

LEMMA EventType ==
  \A c \in Containers : /\ <<c, TRUE>> \in Containers \X BOOLEAN
                        /\ <<c, FALSE>> \in Containers \X BOOLEAN
BY Zenon

LEMMA DaemonStep ==
  ASSUME Inv, NEW c \in Containers, Daemon(c)
  PROVE  Inv' /\ Drops
<1>0. /\ daemon' \in [Containers -> 0 .. Gone]
      /\ \A d \in Containers : /\ daemon[d] # Absent => daemon'[d] # Absent
                               /\ daemon[d] = Gone => daemon'[d] = Gone
  BY DaemonMoves, Zenon DEF Inv, Daemon
<1>. USE Constants DEF Daemon, local
<1>1. TypeOK'
  <2>1. events' \subseteq Containers \X BOOLEAN
    BY EventType, ZenonT(60) DEF Inv, TypeOK
  <2>2. pc' \in [Procs -> Pcs]
    BY Zenon DEF Inv, TypeOK, Pcs
  <2>. QED  BY <1>0, <2>1, <2>2, Zenon DEF Inv, TypeOK
<1>2. Control'
  BY Zenon DEF Inv, TypeOK, Control
<1>3. Seen'
  BY Zenon DEF Inv, TypeOK, Control, Seen, Inspected, NoObjects
<1>4. Known' /\ Drops
  BY <1>0, Zenon DEF Inv, TypeOK, Control, Known, Existed, Drops
<1>. QED  BY <1>1, <1>2, <1>3, <1>4, Zenon DEF Inv

LEMMA LoseEventsStep ==
  ASSUME Inv, LoseEvents
  PROVE  Inv' /\ Drops
<1>. USE Constants DEF LoseEvents, local
<1>1. TypeOK'
  BY Zenon DEF Inv, TypeOK, Control, Entry, Nothing, NoObjects, Pcs
<1>2. Control'
  BY Zenon DEF Inv, TypeOK, Control
<1>3. Seen'
  BY Zenon DEF Inv, TypeOK, Control, Seen, Inspected, NoObjects
<1>4. Known' /\ Drops
  BY Zenon DEF Inv, TypeOK, Control, Known, Existed, Drops, Nothing, NoObjects
<1>. QED  BY <1>1, <1>2, <1>3, <1>4, Zenon DEF Inv

LEMMA HandlerStep ==
  ASSUME Inv, NEW e \in events, handler(e)
  PROVE  Inv' /\ Drops
<1>. USE Constants DEF handler, refreshContainer
<1>1. TypeOK'
  BY Zenon DEF Inv, TypeOK, Control, Entry, Nothing, NoObjects, Pcs
<1>2. Control'
  BY Zenon DEF Inv, TypeOK, Control
<1>3. Seen'
  BY DEF Inv, TypeOK, Control, Seen, Inspected, NoObjects
<1>4. Known' /\ Drops
  BY Zenon DEF Inv, TypeOK, Control, Known, Existed, Drops, Nothing, NoObjects
<1>. QED  BY <1>1, <1>2, <1>3, <1>4, Zenon DEF Inv

LEMMA CreateContainerStep ==
  ASSUME Inv, NEW p \in Apis, NEW c \in Containers, CreateContainer(p, c)
  PROVE  Inv' /\ Drops
<1>0. /\ daemon' \in [Containers -> 0 .. Gone]
      /\ \A d \in Containers : /\ daemon[d] # Absent => daemon'[d] # Absent
                               /\ daemon[d] = Gone => daemon'[d] = Gone
  BY DaemonMoves, Zenon DEF Inv, CreateContainer
<1>. USE Constants DEF CreateContainer, refreshContainer
<1>1. TypeOK'
  <2>1. events' \subseteq Containers \X BOOLEAN
    BY EventType, Zenon DEF Inv, TypeOK
  <2>2. pc' \in [Procs -> Pcs]
    BY Zenon DEF Inv, TypeOK, Pcs
  <2>. QED  BY <1>0, <2>1, <2>2, Zenon DEF Inv, TypeOK
<1>2. Control'
  BY Zenon DEF Inv, TypeOK, Control
<1>3. Seen'
  BY DEF Inv, TypeOK, Control, Seen, Inspected, NoObjects
<1>4. Known' /\ Drops
  BY <1>0, Zenon DEF Inv, TypeOK, Control, Known, Existed, Drops
<1>. QED  BY <1>1, <1>2, <1>3, <1>4, Zenon DEF Inv

LEMMA StartContainerStep ==
  ASSUME Inv, NEW p \in Apis, NEW c \in Containers, StartContainer(p, c)
  PROVE  Inv' /\ Drops
<1>0. /\ daemon' \in [Containers -> 0 .. Gone]
      /\ \A d \in Containers : /\ daemon[d] # Absent => daemon'[d] # Absent
                               /\ daemon[d] = Gone => daemon'[d] = Gone
  BY DaemonMoves, Zenon DEF Inv, StartContainer
<1>. USE Constants DEF StartContainer, refreshContainer
<1>1. TypeOK'
  <2>1. events' \subseteq Containers \X BOOLEAN
    BY EventType, Zenon DEF Inv, TypeOK
  <2>2. pc' \in [Procs -> Pcs]
    BY Zenon DEF Inv, TypeOK, Pcs
  <2>. QED  BY <1>0, <2>1, <2>2, Zenon DEF Inv, TypeOK
<1>2. Control'
  BY Zenon DEF Inv, TypeOK, Control
<1>3. Seen'
  BY Zenon DEF Inv, TypeOK, Control, Seen, Inspected, NoObjects
<1>4. Known' /\ Drops
  BY <1>0 DEF Inv, TypeOK, Control, Known, Existed, Drops
<1>. QED  BY <1>1, <1>2, <1>3, <1>4, Zenon DEF Inv

LEMMA RemoveContainerStep ==
  ASSUME Inv, NEW p \in Apis, NEW c \in Containers, RemoveContainer(p, c)
  PROVE  Inv' /\ Drops
<1>0. /\ daemon' \in [Containers -> 0 .. Gone]
      /\ \A d \in Containers : /\ daemon[d] # Absent => daemon'[d] # Absent
                               /\ daemon[d] = Gone => daemon'[d] = Gone
  BY DaemonMoves, Zenon DEF Inv, RemoveContainer
<1>. USE Constants DEF RemoveContainer
<1>1. TypeOK'
  <2>1. events' \subseteq Containers \X BOOLEAN
    BY EventType, Zenon DEF Inv, TypeOK
  <2>2. pc' \in [Procs -> Pcs]
    BY Zenon DEF Inv, TypeOK, Pcs
  <2>. QED  BY <1>0, <2>1, <2>2, Zenon DEF Inv, TypeOK
<1>2. Control'
  BY Zenon DEF Inv, TypeOK, Control
<1>3. Seen'
  BY Zenon DEF Inv, TypeOK, Control, Seen, Inspected, NoObjects
<1>4. Known' /\ Drops
  BY <1>0 DEF Inv, TypeOK, Control, Known, Existed, Drops, Removed
<1>. QED  BY <1>1, <1>2, <1>3, <1>4, Zenon DEF Inv

LEMMA RefreshContainersStep ==
  ASSUME Inv, NEW p \in Refreshers, RefreshContainers(p)
  PROVE  Inv' /\ Drops
<1>. USE Constants DEF RefreshContainers
<1>1. TypeOK'
  BY DEF Inv, TypeOK, Control, Entry, Nothing, NoObjects, Pcs
<1>2. Control'
  BY DEF Inv, TypeOK, Control
<1>3. Seen'
  BY DEF Inv, TypeOK, Control, Seen, Inspected, NoObjects
<1>4. Known' /\ Drops
  BY DEF Inv, TypeOK, Control, Known, Existed, Drops, Nothing, NoObjects
<1>. QED  BY <1>1, <1>2, <1>3, <1>4, Zenon DEF Inv

LEMMA ForgetStep ==
  ASSUME Inv, NEW p \in Procs, Forget(p)
  PROVE  Inv' /\ Drops
<1>. USE Constants DEF Forget, Reset
<1>1. TypeOK'
  BY Zenon DEF Inv, TypeOK, Control, Entry, Nothing, NoObjects, Pcs
<1>2. Control'
  BY Zenon DEF Inv, TypeOK, Control
<1>3. Seen'
  BY DEF Inv, TypeOK, Control, Seen, Inspected, NoObjects
<1>4. Known' /\ Drops
  BY DEF Inv, TypeOK, Control, Known, Existed, Drops, Nothing, NoObjects
<1>. QED  BY <1>1, <1>2, <1>3, <1>4, Zenon DEF Inv

LEMMA ListAllStep ==
  ASSUME Inv, NEW p \in Procs, ListAll(p)
  PROVE  Inv' /\ Drops
<1>. USE Constants DEF ListAll, IsLive
<1>1. TypeOK'
  BY Zenon DEF Inv, TypeOK, Control, Entry, Nothing, NoObjects, Pcs
<1>2. Control'
  BY Zenon DEF Inv, TypeOK, Control
<1>3. Seen'
  BY Zenon DEF Inv, TypeOK, Control, Seen, Inspected, NoObjects
<1>4. Known' /\ Drops
  BY ZenonT(60) DEF Inv, TypeOK, Control, Known, Existed, Drops, Nothing, NoObjects
<1>. QED  BY <1>1, <1>2, <1>3, <1>4, Zenon DEF Inv

LEMMA ListOneStep ==
  ASSUME Inv, NEW p \in Procs, ListOne(p)
  PROVE  Inv' /\ Drops
<1>. USE Constants
<1>1. p \in Updaters /\ target[p] \in Containers
  BY Zenon DEF ListOne, Inv, Control
<1>2. CASE IsLive(target[p])
  <2>. USE <1>1, <1>2 DEF ListOne, IsLive
  <2>1. listed' = [listed EXCEPT ![p] = [listed[p] EXCEPT ![target[p]] = daemon[target[p]]]]
    BY Zenon DEF Inv, TypeOK
  <2>2. listed' \in [Procs -> [Containers -> Version]]
    BY <2>1, Zenon DEF Inv, TypeOK
  <2>3. TypeOK'
    BY <2>2, ZenonT(60) DEF Inv, TypeOK, Pcs
  <2>4. Control' /\ Seen'
    BY DEF Inv, TypeOK, Control, Seen, Inspected
  <2>5. Known' /\ Drops
    BY <2>1 DEF Inv, TypeOK, Known, Existed, Drops
  <2>. QED  BY <2>3, <2>4, <2>5, Zenon DEF Inv
<1>3. CASE ~IsLive(target[p])
  <2>1. /\ cache' = [cache EXCEPT ![target[p]] = None]
        /\ Reset(p)
        /\ UNCHANGED <<daemon, events, store>>
    BY <1>3, Zenon DEF ListOne
  <2>2. TypeOK'
    BY <2>1, Zenon DEF Reset, Inv, TypeOK, Pcs, Nothing, NoObjects
  <2>3. Control'
    BY <2>1 DEF Reset, Inv, TypeOK, Control
  <2>4. Seen'
    BY <1>1, <2>1, Zenon DEF Reset, Inv, TypeOK, Control, Seen, Inspected, NoObjects
  <2>5. Known'
    BY <1>1, <2>1 DEF Reset, Inv, TypeOK, Known, Existed, Nothing, NoObjects
  <2>6. Drops
    BY <1>1, <1>3, <2>1, Zenon DEF Inv, TypeOK, Known, Existed, Drops, IsLive
  <2>. QED  BY <2>2, <2>3, <2>4, <2>5, <2>6, Zenon DEF Inv
<1>. QED  BY <1>2, <1>3, Zenon

LEMMA ListFailsStep ==
  ASSUME Inv, NEW p \in Procs, ListFails(p)
  PROVE  Inv' /\ Drops
<1>. USE Constants DEF ListFails, Reset
<1>1. TypeOK'
  BY Zenon DEF Inv, TypeOK, Control, Entry, Nothing, NoObjects, Pcs
<1>2. Control'
  BY Zenon DEF Inv, TypeOK, Control
<1>3. Seen'
  BY DEF Inv, TypeOK, Control, Seen, Inspected, NoObjects
<1>4. Known' /\ Drops
  BY ZenonT(60) DEF Inv, TypeOK, Control, Known, Existed, Drops, Nothing, NoObjects
<1>. QED  BY <1>1, <1>2, <1>3, <1>4, Zenon DEF Inv

LEMMA PickStep ==
  ASSUME Inv, NEW p \in Procs, NEW c \in Containers, Pick(p, c)
  PROVE  Inv' /\ Drops
<1>. USE Constants DEF Pick
<1>1. TypeOK'
  BY Zenon DEF Inv, TypeOK, Control, Entry, Nothing, NoObjects, Pcs
<1>2. Control'
  BY Zenon DEF Inv, TypeOK, Control
<1>3. Seen'
  BY Zenon DEF Inv, TypeOK, Control, Seen, Inspected, NoObjects
<1>4. Known' /\ Drops
  BY DEF Inv, TypeOK, Control, Known, Existed, Drops, Nothing, NoObjects
<1>. QED  BY <1>1, <1>2, <1>3, <1>4, Zenon DEF Inv

LEMMA CommitStep ==
  ASSUME Inv, NEW p \in Procs, Commit(p)
  PROVE  Inv' /\ Drops
<1>. USE Constants DEF Commit, Reset
<1>1. TypeOK'
  BY DEF Inv, TypeOK, Control, Entry, Nothing, NoObjects, Pcs
<1>2. Control'
  BY ZenonT(60) DEF Inv, TypeOK, Control
<1>3. Seen'
  BY DEF Inv, TypeOK, Control, Seen, Inspected, NoObjects
<1>4. Known' /\ Drops
  BY ZenonT(60) DEF Inv, TypeOK, Control, Known, Existed, Drops, Nothing, NoObjects
<1>. QED  BY <1>1, <1>2, <1>3, <1>4, Zenon DEF Inv

LEMMA LookupStep ==
  ASSUME Inv, NEW p \in Procs, Lookup(p)
  PROVE  Inv' /\ Drops
<1>. USE Constants DEF Lookup, MustInspect
<1>1. TypeOK'
  BY Zenon DEF Inv, TypeOK, Control, Entry, Nothing, NoObjects, Pcs
<1>2. Control'
  BY Zenon DEF Inv, TypeOK, Control
<1>3. Seen'
  BY ZenonT(60) DEF Inv, TypeOK, Control, Seen, Inspected, NoObjects
<1>4. Known' /\ Drops
  BY ZenonT(60) DEF Inv, TypeOK, Control, Known, Existed, Drops, Nothing, NoObjects
<1>. QED  BY <1>1, <1>2, <1>3, <1>4, Zenon DEF Inv

LEMMA InspectStep ==
  ASSUME Inv, NEW p \in Procs, Inspect(p)
  PROVE  Inv' /\ Drops
<1>. USE Constants DEF Inspect, IsLive
<1>1. TypeOK'
  BY Zenon DEF Inv, TypeOK, Control, Entry, Nothing, NoObjects, Pcs
<1>2. Control'
  BY Zenon DEF Inv, TypeOK, Control
<1>3. Seen'
  BY DEF Inv, TypeOK, Control, Seen, Inspected, NoObjects
<1>4. Known' /\ Drops
  BY Zenon DEF Inv, TypeOK, Control, Known, Existed, Drops, Nothing, NoObjects
<1>. QED  BY <1>1, <1>2, <1>3, <1>4, Zenon DEF Inv

LEMMA InspectFailsStep ==
  ASSUME Inv, NEW p \in Procs, InspectFails(p)
  PROVE  Inv' /\ Drops
<1>. USE Constants DEF InspectFails, NextContainer, Reset, local, IsLive
<1>1. TypeOK'
  <2>1. CASE NextContainer(p) /\ UNCHANGED merged
    <3>1. listed' = [listed EXCEPT ![p] = [listed[p] EXCEPT ![target[p]] = Absent]]
      BY <2>1, Zenon DEF Inv, TypeOK
    <3>2. listed' \in [Procs -> [Containers -> Version]]
      BY <3>1, Zenon DEF Inv, TypeOK, Control
    <3>. QED  BY <2>1, <3>2, Zenon DEF Inv, TypeOK, Pcs
  <2>2. CASE Reset(p)
    BY <2>2, Zenon DEF Inv, TypeOK, Pcs, Nothing, NoObjects
  <2>3. CASE pc' = [pc EXCEPT ![p] = "forget"] /\ UNCHANGED local
    BY <2>3, Zenon DEF Inv, TypeOK, Pcs
  <2>. QED  BY <2>1, <2>2, <2>3, Zenon
<1>2. Control'
  BY SMTT(60) DEF Inv, TypeOK, Control
<1>3. Seen'
  BY DEF Inv, TypeOK, Control, Seen, Inspected, NoObjects
<1>4. Known' /\ Drops
  <2>1. CASE NextContainer(p) /\ UNCHANGED merged
    <3>1. listed' = [listed EXCEPT ![p] = [listed[p] EXCEPT ![target[p]] = Absent]]
      BY <2>1, Zenon DEF Inv, TypeOK
    <3>. QED  BY <2>1, <3>1, SMTT(60) DEF Inv, TypeOK, Control, Known, Existed, Drops
  <2>2. CASE Reset(p)
    BY <2>2, SMTT(60) DEF Inv, TypeOK, Known, Existed, Drops, Nothing, NoObjects
  <2>3. CASE ~IsLive(target[p]) /\ pc' = [pc EXCEPT ![p] = "forget"] /\ UNCHANGED local
    BY <2>3, ZenonT(60) DEF Inv, TypeOK, Control, Known, Existed, Drops
  <2>. QED  BY <2>1, <2>2, <2>3, Zenon
<1>. QED  BY <1>1, <1>2, <1>3, <1>4, Zenon DEF Inv

LEMMA ApplyStep ==
  ASSUME Inv, NEW p \in Procs, Apply(p)
  PROVE  Inv' /\ Drops
<1>. USE Constants
<1>. PICK c \in Containers : c = target[p]
  BY Zenon DEF Apply, Inv, Control
<1>. PICK q \in Procs : q = ref[p]
  BY Zenon DEF Apply, Inv, Control
<1>1. /\ Existed(c) /\ listed[p][c] \in Version /\ info[p] \in Version
      /\ store[q][c] \in Entry
      /\ deep[p] \/ store[q][c].info # 0
      /\ deep[p] => info[p] # 0
  BY SMTT(60) DEF Apply, Inv, TypeOK, Seen, Known, Inspected
<1>. DEFINE e == [sum |-> listed[p][c], info |-> IF deep[p] THEN info[p] ELSE store[q][c].info]
<1>2. e \in Entry /\ e.info # 0
  BY <1>1, Zenon DEF Entry
<1>3. store' = [store EXCEPT ![q] = [store[q] EXCEPT ![c] = e]]
  BY Zenon DEF Apply
<1>. HIDE DEF e
<1>4. store' \in [Procs -> [Containers -> Entry]]
  BY <1>2, <1>3, Zenon DEF Inv, TypeOK
<1>5. /\ \A r \in Procs, d \in Containers : store[r][d].info # 0 => store'[r][d].info # 0
      /\ store'[q][c].info # 0
  BY <1>2, <1>3, Zenon DEF Inv, TypeOK
<1>6. CASE p \in Refreshers
  <2>0. /\ merged' = [merged EXCEPT ![p][c] = q]
        /\ NextContainer(p)
        /\ UNCHANGED <<cache, daemon, events>>
    BY <1>6, Zenon DEF Apply
  <2>1. merged' = [merged EXCEPT ![p] = [merged[p] EXCEPT ![c] = q]]
    BY <2>0, Zenon DEF Inv, TypeOK
  <2>2. merged' \in [Procs -> [Containers -> Procs \cup {None}]]
    BY <2>1, Zenon DEF Inv, TypeOK
  <2>3. listed' = [listed EXCEPT ![p] = [listed[p] EXCEPT ![c] = Absent]]
    BY <2>0, Zenon DEF NextContainer, Inv, TypeOK
  <2>4. listed' \in [Procs -> [Containers -> Version]]
    BY <2>3, Zenon DEF Inv, TypeOK
  <2>5. TypeOK'
    BY <1>4, <2>0, <2>2, <2>4, Zenon DEF NextContainer, Inv, TypeOK, Pcs
  <2>6. Control'
    BY <1>6, <2>0 DEF NextContainer, Inv, TypeOK, Control
  <2>7. \A d \in Containers : cache'[d] # None => store'[cache'[d]][d].info # 0
    BY <1>5, <2>0, Zenon DEF Inv, TypeOK, Seen, Inspected
  <2>8. \A r \in Procs, d \in Containers :
          merged'[r][d] # None => store'[merged'[r][d]][d].info # 0
    <3>. TAKE r \in Procs, d \in Containers
    <3>1. merged[r][d] # None => store'[merged[r][d]][d].info # 0
      <4>1. merged[r][d] \in Procs \cup {None}
        BY DEF Inv, TypeOK
      <4>2. merged[r][d] # None => store[merged[r][d]][d].info # 0
        BY Zenon DEF Inv, Seen, Inspected
      <4>. QED  BY <1>5, <4>1, <4>2, Zenon
    <3>2. merged'[r][d] = IF r = p /\ d = c THEN q ELSE merged[r][d]
      BY <2>1, Zenon DEF Inv, TypeOK
    <3>. QED  BY <1>5, <3>1, <3>2, Zenon
  <2>9. \A r \in Procs :
          /\ pc'[r] \in {"inspect", "apply"} => deep'[r] \/ store'[ref'[r]][target'[r]].info # 0
          /\ pc'[r] = "apply" /\ deep'[r] => info'[r] # 0
    BY <1>5, <2>0, ZenonT(60) DEF NextContainer, Inv, TypeOK, Control, Seen, Inspected
  <2>10. Seen'
    BY <2>7, <2>8, <2>9, Zenon DEF Seen, Inspected
  <2>11. Known' /\ Drops
    <3>1. \A r \in Procs, d \in Containers :
            merged'[r][d] # None \/ listed'[r][d] # Absent => Existed(d)
      <4>. TAKE r \in Procs, d \in Containers
      <4>1. /\ merged'[r][d] = IF r = p /\ d = c THEN q ELSE merged[r][d]
            /\ listed'[r][d] = IF r = p /\ d = c THEN Absent ELSE listed[r][d]
        BY <2>1, <2>3 DEF Inv, TypeOK
      <4>. QED  BY <1>1, <4>1, Zenon DEF Inv, Known
    <3>2. /\ pc' = [pc EXCEPT ![p] = "pick"] /\ target' = [target EXCEPT ![p] = None]
          /\ UNCHANGED <<missing, daemon, cache>>
      BY <2>0, Zenon DEF NextContainer
    <3>3. \A r \in Procs :
            /\ \A d \in missing'[r] : Existed(d) /\ (pc'[r] # "list" => daemon[d] = Gone)
            /\ r \in Updaters => missing'[r] = {}
      BY <1>6, <3>2, Zenon DEF Apply, Inv, TypeOK, Known
    <3>4. \A r \in Procs :
            /\ pc'[r] \in {"lookup", "inspect", "apply"} => Existed(target'[r])
            /\ pc'[r] = "forget" => daemon[target'[r]] = Gone
      BY <3>2 DEF Inv, TypeOK, Known
    <3>. QED  BY <3>1, <3>2, <3>3, <3>4, ZenonT(60) DEF Inv, Known, Existed, Drops
  <2>. QED  BY <2>5, <2>6, <2>10, <2>11, Zenon DEF Inv
<1>7. CASE p \notin Refreshers
  <2>0. /\ cache' = [cache EXCEPT ![c] = q]
        /\ Reset(p)
        /\ UNCHANGED <<daemon, events>>
    BY <1>7, Zenon DEF Apply
  <2>1. TypeOK'
    BY <1>4, <2>0, Zenon DEF Reset, Inv, TypeOK, Pcs, Nothing, NoObjects
  <2>2. Control'
    BY <2>0, Zenon DEF Reset, Inv, TypeOK, Control
  <2>3. \A d \in Containers : cache'[d] # None => store'[cache'[d]][d].info # 0
    BY <1>5, <2>0, ZenonT(60) DEF Inv, TypeOK, Seen, Inspected
  <2>4. \A r \in Procs, d \in Containers :
          merged'[r][d] # None => store'[merged'[r][d]][d].info # 0
    <3>. TAKE r \in Procs, d \in Containers
    <3>1. merged[r][d] # None => store'[merged[r][d]][d].info # 0
      <4>1. merged[r][d] \in Procs \cup {None}
        BY DEF Inv, TypeOK
      <4>2. merged[r][d] # None => store[merged[r][d]][d].info # 0
        BY Zenon DEF Inv, Seen, Inspected
      <4>. QED  BY <1>5, <4>1, <4>2, Zenon
    <3>2. merged'[r][d] = IF r = p THEN None ELSE merged[r][d]
      BY <2>0, Zenon DEF Reset, NoObjects, Inv, TypeOK
    <3>. QED  BY <3>1, <3>2, Zenon
  <2>5. \A r \in Procs :
          /\ pc'[r] \in {"inspect", "apply"} => deep'[r] \/ store'[ref'[r]][target'[r]].info # 0
          /\ pc'[r] = "apply" /\ deep'[r] => info'[r] # 0
    BY <1>5, <2>0, ZenonT(60) DEF Reset, Inv, TypeOK, Control, Seen, Inspected
  <2>6. Seen'
    BY <2>3, <2>4, <2>5, Zenon DEF Seen, Inspected
  <2>7. Known' /\ Drops
    BY <1>1, <2>0 DEF Reset, Inv, TypeOK, Control, Known, Existed, Drops, Nothing, NoObjects
  <2>. QED  BY <2>1, <2>2, <2>6, <2>7, Zenon DEF Inv
<1>. QED  BY <1>6, <1>7, Zenon

LEMMA Initially == Init => Inv
<1>. SUFFICES ASSUME Init PROVE Inv
  BY Zenon
<1>. USE Constants DEF Init, Nothing, NoObjects
<1>1. TypeOK
  BY DEF TypeOK, Entry, Pcs, Version
<1>2. Control /\ Seen /\ Known
  BY ZenonT(60) DEF Control, Seen, Known
<1>. QED  BY <1>1, <1>2, Zenon DEF Inv

LEMMA Stutter == Inv /\ UNCHANGED vars => Inv' /\ Drops
BY DEF vars, local, Inv, TypeOK, Control, Seen, Inspected, Known, Existed, Drops

LEMMA NextStep == Inv /\ [Next]_vars => Inv' /\ Drops
<1>. SUFFICES ASSUME Inv, [Next]_vars PROVE Inv' /\ Drops
  BY Zenon
<1>1. ASSUME NEW p \in Procs, Step(p) PROVE Inv' /\ Drops
  BY <1>1, ForgetStep, ListAllStep, ListOneStep, ListFailsStep, CommitStep, LookupStep,
     InspectStep, InspectFailsStep, ApplyStep, PickStep DEF Step
<1>2. CASE Next
  BY <1>1, <1>2, LoseEventsStep, DaemonStep, HandlerStep, CreateContainerStep,
     StartContainerStep, RemoveContainerStep, RefreshContainersStep DEF Next
<1>. QED  BY <1>2, Stutter, Zenon

LEMMA Invariance == Spec => []Inv
BY Initially, NextStep, PTL DEF Spec

-----------------------------------------------------------------------------
(* The cache and the locals of its goroutines have their types.            *)
THEOREM TypeCorrect == Spec => []TypeOK
<1>1. Inv => TypeOK
  BY Zenon DEF Inv
<1>. QED  BY <1>1, Invariance, PTL

(* Whatever goroutines update the cache, the Config of a cached container  *)
(* is never nil.                                                           *)
THEOREM ConfigPresent == Spec => []CachedIsInspected
<1>1. Inv => CachedIsInspected
  BY Zenon DEF Inv, Seen, Inspected, CachedIsInspected
<1>. QED  BY <1>1, Invariance, PTL

(* RefreshContainers, refreshContainer, RemoveContainer and StartContainer *)
(* delete from the cache only what the daemon has removed.                 *)
THEOREM NoLiveDropped == Spec => LiveStays
<1>1. Inv /\ [Next]_vars =>
        [\A c \in Containers : cache[c] # None /\ cache'[c] = None => daemon[c] = Gone]_vars
  BY NextStep, Zenon DEF Drops
<1>. QED  BY <1>1, Invariance, PTL DEF Spec, LiveStays

-----------------------------------------------------------------------------

(* FanOut.  The inductive invariant: what the variables hold that decide   *)
(* the answer;                                                             *)
FanTypes ==
  /\ op \in FanKinds \cup {"none"}
  /\ step \in [Tasks -> {"off", "call", "list", "apply", "report", "done"}]
  /\ has \in [Engines -> BOOLEAN] /\ lists \in [Engines -> BOOLEAN]
  /\ found \in [Tasks -> BOOLEAN]
  /\ result \in [Tasks -> {"none", "ok", "failed", "mismatch"}]
  /\ unlisted \subseteq Engines
  /\ flags \subseteq {"errorFound", "nonOSErrorFound", "success"}
  /\ answer \in {"none", "ok", "error", "notfound"}

(* a goroutine has the result of its engine once it has called it, and an  *)
(* engine of the wrong operating system is met with images only;           *)
ResultsKnown ==
  /\ op = "none" => Running = {}
  /\ \A t \in Tasks :
       /\ step[t] \in {"off", "call"} <=> result[t] = "none"
       /\ result[t] = "mismatch" =>
            op \in Streams \cup {"pull"} /\ step[t] \in {"report", "done"}

(* what the flags say is what the goroutines that are done have noted;     *)
NotedBy(t) ==
  CASE op = "pull" -> PullCallback(result[t])
    [] op \in Streams -> StreamCallback(result[t])
    [] OTHER -> Noted(result[t])

FlagsRight ==
  /\ \A t \in Tasks : step[t] = "done" => NotedBy(t) \subseteq flags
  /\ \A x \in flags : \E t \in Tasks : step[t] = "done" /\ x \in NotedBy(t)

(* the answer is given when all are done, and once; a volume is created    *)
(* somewhere, an image pulled everywhere;                                  *)
AnswerRight ==
  /\ op = "mkvolume" => Running # {} \/ Engines = {} \/ answer = "error"
  /\ op = "pull" => Running # {} \/ Engines = {}
  /\ answer # "none" => /\ op # "none" /\ \A t \in Running : step[t] = "done"
                        /\ answer = Verdict \/ (answer = "error" /\ Running = {})

(* and where a call has succeeded the daemon holds what the request asked  *)
(* for, and so does the list, unless another goroutine of the same engine  *)
(* has failed, and found the images before.                               *)
Target == op \notin {"rmimage", "rmvolume"}

ListsFollow ==
  \A t \in Tasks : result[t] = "ok" =>
    /\ has[t[1]] = Target
    /\ step[t] = "apply" => found[t] = Target
    /\ step[t] \in {"report", "done"} =>
         \/ lists[t[1]] = Target \/ t[1] \in unlisted
         \/ \E u \in Tasks : u[1] = t[1] /\ result[u] = "failed"

FanInv == FanTypes /\ ResultsKnown /\ FlagsRight /\ AnswerRight /\ ListsFollow

LEMMA TaskEngines ==
  /\ \A t \in Tasks : t[1] \in Engines
  /\ \A e \in Engines : <<e, 1>> \in Tasks
<1>1. ASSUME NEW t \in Tasks PROVE t[1] \in Engines
  BY DEF Tasks
<1>2. ASSUME NEW e \in Engines PROVE <<e, 1>> \in Tasks
  <2>1. 1 \in 1 .. MaxMatches[e]
    BY FanOutAssumption
  <2>. QED  BY <2>1 DEF Tasks
<1>. QED  BY <1>1, <1>2, Zenon

LEMMA FanInitInv == FanInit => FanInv
<1>. SUFFICES ASSUME FanInit PROVE FanInv
  BY Zenon
<1>1. FanTypes
  BY Zenon DEF FanInit, FanTypes
<1>2. ResultsKnown /\ FlagsRight
  BY Zenon DEF FanInit, ResultsKnown, FlagsRight, Running
<1>3. AnswerRight /\ ListsFollow
  BY Zenon DEF FanInit, AnswerRight, ListsFollow
<1>. QED  BY <1>1, <1>2, <1>3, Zenon DEF FanInv

(* The copy of the client's stream decides nothing of this, nor does an    *)
(* engine that goes silent.                                                *)
LEMMA CopyInv ==
  ASSUME FanInv, UNCHANGED <<op, step, has, lists, found, result, unlisted, flags, answer>>
  PROVE  FanInv'
<1>1. FanTypes' /\ ResultsKnown'
  BY Zenon DEF FanInv, FanTypes, ResultsKnown, Running
<1>2. \A t \in Tasks : NotedBy(t)' = NotedBy(t)
  BY Zenon DEF NotedBy
<1>3. FlagsRight'
  BY <1>2, Zenon DEF FanInv, FlagsRight
<1>4. Verdict' = Verdict
  BY Zenon DEF Verdict, PullVerdict, ErrorVerdict, FoundVerdict
<1>5. AnswerRight'
  BY <1>4, Zenon DEF FanInv, AnswerRight, Running
<1>6. ListsFollow'
  BY Zenon DEF FanInv, ListsFollow, Target
<1>. QED  BY <1>1, <1>3, <1>5, <1>6, Zenon DEF FanInv

LEMMA StartInv == ASSUME FanInv, Start PROVE FanInv'
<1>1. PICK kind \in FanKinds : \E ts \in TasksOf(kind) :
        op' = kind /\ step' = [t \in Tasks |-> IF t \in ts THEN "call" ELSE "off"]
  BY Zenon DEF Start
<1>2. PICK ts \in TasksOf(kind) :
        op' = kind /\ step' = [t \in Tasks |-> IF t \in ts THEN "call" ELSE "off"]
  BY <1>1, Zenon
<1>3. /\ op = "none"
      /\ UNCHANGED <<has, lists, found, result, unlisted, flags, answer>>
  BY Zenon DEF Start
<1>4. \A t \in Tasks : step[t] = "off" /\ result[t] = "none"
  BY <1>3, Zenon DEF FanInv, FanTypes, ResultsKnown, Running
<1>5. flags = {} /\ answer = "none"
  BY <1>3, <1>4, Zenon DEF FanInv, FlagsRight, AnswerRight
<1>6. FanTypes'
  BY <1>2, <1>3, Zenon DEF FanInv, FanTypes
<1>7. ResultsKnown'
  BY <1>2, <1>3, <1>4, Zenon DEF ResultsKnown, FanKinds, Streams
<1>8. FlagsRight' /\ ListsFollow'
  BY <1>2, <1>3, <1>4, <1>5, Zenon DEF FlagsRight, ListsFollow
<1>9. AnswerRight'
  <2>1. CASE op' = "mkvolume"
    <3>1. ts \in CreateVolumeTasks
      BY <1>2, <2>1, Zenon DEF TasksOf
    <3>2. Engines = {} \/ \E e \in Engines : <<e, 1>> \in ts
      BY <3>1 DEF CreateVolumeTasks, OneEach
    <3>3. Engines = {} \/ Running' # {}
      BY <1>2, <3>2, TaskEngines, Zenon DEF Running
    <3>. QED  BY <1>3, <1>5, <2>1, <3>3, Zenon DEF AnswerRight
  <2>2. CASE op' = "pull"
    <3>1. ts = OneEach(Engines)
      BY <1>2, <2>2, Zenon DEF TasksOf
    <3>2. \A e \in Engines : <<e, 1>> \in Running'
      BY <1>2, <3>1, TaskEngines, Zenon DEF Running, OneEach
    <3>. QED  BY <1>3, <1>5, <2>2, <3>2, Zenon DEF AnswerRight
  <2>. QED  BY <1>3, <1>5, <2>1, <2>2, Zenon DEF AnswerRight
<1>. QED  BY <1>6, <1>7, <1>8, <1>9, Zenon DEF FanInv

LEMMA StartNowhereInv == ASSUME FanInv, StartNowhere PROVE FanInv'
<1>1. \A t \in Tasks : step[t] = "off" /\ result[t] = "none"
  BY Zenon DEF StartNowhere, FanInv, FanTypes, ResultsKnown, Running
<1>2. flags = {}
  BY <1>1, Zenon DEF FanInv, FlagsRight
<1>3. FanTypes'
  BY Zenon DEF StartNowhere, FanInv, FanTypes, FanKinds
<1>4. ResultsKnown' /\ FlagsRight' /\ ListsFollow'
  BY <1>1, <1>2, Zenon DEF StartNowhere, ResultsKnown, FlagsRight, ListsFollow
<1>5. AnswerRight'
  BY <1>1, ZenonT(60) DEF StartNowhere, AnswerRight, Running
<1>. QED  BY <1>3, <1>4, <1>5, Zenon DEF FanInv

(* What the call of an engine does, whatever the request.                  *)
CallEnds(t, r, to) ==
  /\ step[t] = "call"
  /\ result' = [result EXCEPT ![t] = r] /\ step' = [step EXCEPT ![t] = to]
  /\ has' = has \/ has' = [has EXCEPT ![t[1]] = Target]
  /\ lists' = lists \/ (lists' = [lists EXCEPT ![t[1]] = Target] /\ to = "report")
  /\ r = "ok" => /\ has' = [has EXCEPT ![t[1]] = Target]
                 /\ to = "report" => lists' = [lists EXCEPT ![t[1]] = Target]
  /\ r = "mismatch" => op \in Streams \cup {"pull"} /\ to = "report"
  /\ UNCHANGED <<op, found, unlisted, flags, answer>>

LEMMA CallEffect ==
  ASSUME NEW t \in Tasks, Call(t)
  PROVE  \E r \in {"ok", "failed", "mismatch"}, to \in {"list", "report"} : CallEnds(t, r, to)
<1>. USE DEF Call, Goto, Result, Has, Fails, Succeeds, Mismatch, CallEnds, Target, Streams
<1>1. CASE RemoveImage(t)
  BY <1>1, Zenon DEF RemoveImage
<1>2. CASE RemoveVolume(t)
  BY <1>2, Zenon DEF RemoveVolume
<1>3. CASE CreateVolume(t)
  BY <1>3, Zenon DEF CreateVolume
<1>4. CASE Pull(t)
  BY <1>4, Zenon DEF Pull
<1>5. CASE LoadOrImport(t)
  BY <1>5, Zenon DEF LoadOrImport
<1>6. CASE TagImage(t)
  BY <1>6, Zenon DEF TagImage
<1>. QED  BY <1>1, <1>2, <1>3, <1>4, <1>5, <1>6, Zenon

(* A goroutine that moves has not been waited for; it stays one of those   *)
(* that run, and until it is done it notes nothing.                        *)
LEMMA TaskMoves ==
  ASSUME FanInv, NEW t \in Tasks, step[t] \notin {"off", "done"},
         NEW to \in {"list", "apply", "report", "done"}, step' = [step EXCEPT ![t] = to],
         UNCHANGED <<op, answer>>
  PROVE  /\ answer = "none" /\ op # "none" /\ Running' = Running
         /\ AnswerRight'
<1>1. t \in Running
  BY Zenon DEF Running
<1>2. answer = "none" /\ op # "none"
  BY <1>1, Zenon DEF FanInv, AnswerRight, ResultsKnown
<1>3. Running' = Running
  BY Zenon DEF Running, FanInv, FanTypes
<1>. QED  BY <1>2, <1>3, Zenon DEF FanInv, AnswerRight

LEMMA NothingNoted ==
  ASSUME FanInv, NEW t \in Tasks, step[t] # "done",
         NEW to \in {"list", "apply", "report"}, step' = [step EXCEPT ![t] = to],
         \A u \in Tasks \ {t} : result'[u] = result[u], UNCHANGED <<op, flags>>
  PROVE  FlagsRight'
<1>1. \A u \in Tasks : step'[u] = "done" <=> step[u] = "done"
  BY Zenon DEF FanInv, FanTypes
<1>2. \A u \in Tasks : step[u] = "done" => NotedBy(u)' = NotedBy(u)
  BY Zenon DEF NotedBy
<1>. QED  BY <1>1, <1>2, Zenon DEF FanInv, FlagsRight

LEMMA CallInv == ASSUME FanInv, NEW t \in Tasks, Call(t) PROVE FanInv'
<1>1. PICK r \in {"ok", "failed", "mismatch"}, to \in {"list", "report"} : CallEnds(t, r, to)
  BY CallEffect, Zenon
<1>. USE DEF CallEnds
<1>2. AnswerRight' /\ op # "none" /\ Running' = Running
  BY <1>1, TaskMoves, Zenon
<1>3. \A u \in Tasks \ {t} : result'[u] = result[u] /\ step'[u] = step[u]
  BY <1>1, Zenon DEF FanInv, FanTypes
<1>4. step'[t] = to /\ result'[t] = r
  BY <1>1, Zenon DEF FanInv, FanTypes
<1>5. FlagsRight'
  BY <1>1, <1>3, NothingNoted, Zenon
<1>6. FanTypes'
  <2>1. Target \in BOOLEAN /\ t[1] \in Engines
    BY TaskEngines, Zenon DEF Target
  <2>2. has' \in [Engines -> BOOLEAN] /\ lists' \in [Engines -> BOOLEAN]
    BY <1>1, <2>1, Zenon DEF FanInv, FanTypes
  <2>3. step' \in [Tasks -> {"off", "call", "list", "apply", "report", "done"}]
    BY <1>1, Zenon DEF FanInv, FanTypes
  <2>4. result' \in [Tasks -> {"none", "ok", "failed", "mismatch"}]
    BY <1>1, Zenon DEF FanInv, FanTypes
  <2>. QED  BY <1>1, <2>2, <2>3, <2>4, Zenon DEF FanInv, FanTypes
<1>7. ResultsKnown'
  BY <1>1, <1>2, <1>3, <1>4, ZenonT(60) DEF FanInv, ResultsKnown
<1>8. ListsFollow'
  <2>. SUFFICES ASSUME NEW u \in Tasks, result'[u] = "ok"
                PROVE  /\ has'[u[1]] = Target
                       /\ step'[u] = "apply" => found[u] = Target
                       /\ step'[u] \in {"report", "done"} =>
                            \/ lists'[u[1]] = Target \/ u[1] \in unlisted
                            \/ \E v \in Tasks : v[1] = u[1] /\ result'[v] = "failed"
    BY <1>1, Zenon DEF ListsFollow, Target
  <2>1. \A e \in Engines : /\ has[e] = Target => has'[e] = Target
                           /\ lists[e] = Target => lists'[e] = Target
    BY <1>1, TaskEngines, Zenon DEF FanInv, FanTypes
  <2>2. u[1] \in Engines
    BY TaskEngines, Zenon
  <2>3. CASE u = t
    BY <1>1, <1>4, <2>2, <2>3, ZenonT(60) DEF FanInv, FanTypes
  <2>4. CASE u # t
    <3>1. \A v \in Tasks : result[v] = "failed" => result'[v] = "failed"
      BY <1>1, <1>3, Zenon DEF FanInv, ResultsKnown
    <3>. QED  BY <1>3, <2>1, <2>2, <2>4, <3>1, ZenonT(60) DEF FanInv, ListsFollow
  <2>. QED  BY <2>3, <2>4, Zenon
<1>. QED  BY <1>2, <1>5, <1>6, <1>7, <1>8, Zenon DEF FanInv

LEMMA ListingInv == ASSUME FanInv, NEW t \in Tasks, List(t) PROVE FanInv'
<1>1. step[t] = "list" /\ UNCHANGED <<op, has, lists, flags, answer>>
  BY ZenonT(60) DEF List
<1>2. PICK to \in {"apply", "report"} : step' = [step EXCEPT ![t] = to]
  BY Zenon DEF List
<1>3. AnswerRight' /\ op # "none" /\ Running' = Running
  BY <1>1, <1>2, TaskMoves, Zenon
<1>4. \A u \in Tasks \ {t} : /\ result'[u] = result[u] /\ step'[u] = step[u]
                             /\ found'[u] = found[u]
  BY Zenon DEF List, FanInv, FanTypes
<1>5. FlagsRight'
  BY <1>1, <1>2, <1>4, NothingNoted, Zenon
<1>6. FanTypes'
  <2>1. found' \in [Tasks -> BOOLEAN]
    BY TaskEngines, Zenon DEF List, FanInv, FanTypes
  <2>2. unlisted' \subseteq Engines
    BY TaskEngines DEF List, FanInv, FanTypes
  <2>3. result' \in [Tasks -> {"none", "ok", "failed", "mismatch"}]
    BY Zenon DEF List, FanInv, FanTypes
  <2>4. step' \in [Tasks -> {"off", "call", "list", "apply", "report", "done"}]
    BY <1>2, Zenon DEF FanInv, FanTypes
  <2>. QED  BY <1>1, <2>1, <2>2, <2>3, <2>4, Zenon DEF FanInv, FanTypes
<1>7. /\ step'[t] = to
      /\ result'[t] = result[t] \/ (op = "tag" /\ result'[t] = "failed")
      /\ to = "apply" => found'[t] = has[t[1]]
      /\ to = "report" => t[1] \in unlisted'
      /\ unlisted \subseteq unlisted'
  BY <1>2, Zenon DEF List, FanInv, FanTypes
<1>8. ResultsKnown'
  BY <1>1, <1>3, <1>4, <1>7, ZenonT(60) DEF FanInv, ResultsKnown
<1>9. ListsFollow'
  <2>. SUFFICES ASSUME NEW u \in Tasks, result'[u] = "ok"
                PROVE  /\ has[u[1]] = Target
                       /\ step'[u] = "apply" => found'[u] = Target
                       /\ step'[u] \in {"report", "done"} =>
                            \/ lists[u[1]] = Target \/ u[1] \in unlisted'
                            \/ \E v \in Tasks : v[1] = u[1] /\ result'[v] = "failed"
    BY <1>1, Zenon DEF ListsFollow, Target
  <2>1. CASE u = t
    BY <1>7, <2>1, Zenon DEF FanInv, ListsFollow
  <2>2. CASE u # t
    <3>1. \A v \in Tasks : result[v] = "failed" => result'[v] = "failed"
      BY <1>4, <1>7, Zenon
    <3>. QED  BY <1>4, <1>7, <2>2, <3>1, ZenonT(60) DEF FanInv, ListsFollow
  <2>. QED  BY <2>1, <2>2, Zenon
<1>. QED  BY <1>3, <1>5, <1>6, <1>8, <1>9, ZenonT(60) DEF FanInv

(* A list that another goroutine of the engine overwrites shows the same,  *)
(* unless that one has failed.                                             *)
LEMMA ApplyingInv == ASSUME FanInv, NEW t \in Tasks, ApplyListed(t) PROVE FanInv'
<1>1. /\ step[t] = "apply" /\ step' = [step EXCEPT ![t] = "report"]
      /\ lists' = [lists EXCEPT ![t[1]] = found[t]]
      /\ UNCHANGED <<op, has, found, result, unlisted, flags, answer>>
  BY Zenon DEF ApplyListed
<1>2. AnswerRight' /\ op # "none" /\ Running' = Running
  BY <1>1, TaskMoves, Zenon
<1>3. FlagsRight'
  BY <1>1, NothingNoted, Zenon
<1>4. FanTypes'
  <2>1. lists' \in [Engines -> BOOLEAN]
    BY <1>1, TaskEngines, Zenon DEF FanInv, FanTypes
  <2>2. step' \in [Tasks -> {"off", "call", "list", "apply", "report", "done"}]
    BY <1>1, Zenon DEF FanInv, FanTypes
  <2>. QED  BY <1>1, <2>1, <2>2, Zenon DEF FanInv, FanTypes
<1>5. ResultsKnown'
  BY <1>1, <1>2, ZenonT(60) DEF FanInv, FanTypes, ResultsKnown
<1>6. ListsFollow'
  <2>. SUFFICES ASSUME NEW u \in Tasks, result[u] = "ok"
                PROVE  /\ has[u[1]] = Target
                       /\ step'[u] = "apply" => found[u] = Target
                       /\ step'[u] \in {"report", "done"} =>
                            \/ lists'[u[1]] = Target \/ u[1] \in unlisted
                            \/ \E v \in Tasks : v[1] = u[1] /\ result[v] = "failed"
    BY <1>1 DEF ListsFollow, Target
  <2>1. result[t] \in {"ok", "failed"}
    BY <1>1, ZenonT(60) DEF FanInv, FanTypes, ResultsKnown
  <2>2. result[t] = "ok" => found[t] = Target
    BY <1>1, Zenon DEF FanInv, ListsFollow
  <2>3. u[1] \in Engines /\ t[1] \in Engines
    BY TaskEngines, Zenon
  <2>4. lists'[u[1]] = IF u[1] = t[1] THEN found[t] ELSE lists[u[1]]
    BY <1>1, <2>3, Zenon DEF FanInv, FanTypes
  <2>5. step'[u] = IF u = t THEN "report" ELSE step[u]
    BY <1>1, Zenon DEF FanInv, FanTypes
  <2>. QED  BY <1>1, <2>1, <2>2, <2>4, <2>5, SMTT(60) DEF FanInv, ListsFollow
<1>. QED  BY <1>2, <1>3, <1>4, <1>5, <1>6, Zenon DEF FanInv

LEMMA ReportInv == ASSUME FanInv, NEW t \in Tasks, Report(t) PROVE FanInv'
<1>1. /\ step[t] = "report" /\ step' = [step EXCEPT ![t] = "done"]
      /\ flags' = flags \cup NotedBy(t)
      /\ UNCHANGED <<op, has, lists, found, result, unlisted, answer>>
  BY Zenon DEF Report, NotedBy
<1>2. AnswerRight' /\ op # "none" /\ Running' = Running
  BY <1>1, TaskMoves, Zenon
<1>3. \A u \in Tasks : NotedBy(u)' = NotedBy(u)
  BY <1>1, Zenon DEF NotedBy
<1>4. \A u \in Tasks : step'[u] = IF u = t THEN "done" ELSE step[u]
  BY <1>1, Zenon DEF FanInv, FanTypes
<1>5. FlagsRight'
  BY <1>1, <1>3, <1>4, Zenon DEF FanInv, FlagsRight
<1>6. FanTypes'
  <2>1. result[t] \in {"ok", "failed", "mismatch"}
    BY <1>1, Zenon DEF FanInv, FanTypes, ResultsKnown
  <2>2. NotedBy(t) \subseteq {"errorFound", "nonOSErrorFound", "success"}
    BY <2>1, Zenon DEF NotedBy, PullCallback, StreamCallback, Noted
  <2>3. step' \in [Tasks -> {"off", "call", "list", "apply", "report", "done"}]
    BY <1>1, ZenonT(60) DEF FanInv, FanTypes
  <2>. QED  BY <1>1, <2>2, <2>3, Zenon DEF FanInv, FanTypes
<1>7. ResultsKnown'
  BY <1>1, <1>2, <1>4, SMTT(60) DEF FanInv, ResultsKnown
<1>8. ListsFollow'
  BY <1>1, <1>4, SMTT(60) DEF FanInv, ListsFollow, Target
<1>. QED  BY <1>2, <1>5, <1>6, <1>7, <1>8, Zenon DEF FanInv

LEMMA AnswerInv == ASSUME FanInv, Answer PROVE FanInv'
<1>1. /\ op # "none" /\ answer' = Verdict /\ answer = "none"
      /\ \A t \in Running : step[t] = "done"
      /\ UNCHANGED <<op, step, has, lists, found, result, unlisted, flags>>
  BY Zenon DEF Answer
<1>2. Verdict \in {"ok", "error", "notfound"} /\ Verdict' = Verdict
  BY <1>1, Zenon DEF Verdict, PullVerdict, ErrorVerdict, FoundVerdict
<1>3. FanTypes' /\ ResultsKnown' /\ ListsFollow'
  BY <1>1, <1>2 DEF FanInv, FanTypes, ResultsKnown, ListsFollow, Running, Target
<1>4. \A t \in Tasks : NotedBy(t)' = NotedBy(t)
  BY <1>1, Zenon DEF NotedBy
<1>5. FlagsRight'
  BY <1>1, <1>4, Zenon DEF FanInv, FlagsRight
<1>6. AnswerRight'
  BY <1>1, <1>2, Zenon DEF FanInv, AnswerRight, Running
<1>. QED  BY <1>3, <1>5, <1>6, Zenon DEF FanInv

LEMMA FanStep == FanInv /\ [FanNext]_fanVars => FanInv'
<1>. SUFFICES ASSUME FanInv, [FanNext]_fanVars PROVE FanInv'
  BY Zenon
<1>1. CASE Read \/ Write \/ UNCHANGED fanVars
  BY <1>1, CopyInv, Zenon DEF Read, Write, fanVars
<1>2. ASSUME NEW t \in Tasks, TaskStep(t) PROVE FanInv'
  BY <1>2, CallInv, ListingInv, ApplyingInv, ReportInv, Zenon DEF TaskStep
<1>3. ASSUME NEW t \in Tasks, Stall(t) PROVE FanInv'
  BY <1>3, CopyInv, Zenon DEF Stall
<1>. QED  BY <1>1, <1>2, <1>3, StartInv, StartNowhereInv, AnswerInv, Zenon DEF FanNext

(* A client is told what happened, for every kind of request, however the  *)
(* goroutines of the engines interleave: the callbacks and the handlers    *)
(* report a success only if no engine failed, an error only if one did or  *)
(* none could, and the lists of the engines agree with their daemons.      *)
THEOREM AnswersTrue == FanSpec => []ToldTheTruth
<1>1. FanInv => ToldTheTruth
  <2>. SUFFICES ASSUME FanInv, answer # "none" PROVE ToldTheTruth
    BY Zenon DEF ToldTheTruth
  <2>. DEFINE failed == {t \in Running : result[t] = "failed"}
              ok == {t \in Running : result[t] = "ok"}
  <2>1. /\ answer = Verdict \/ (answer = "error" /\ Running = {})
        /\ op \in FanKinds
        /\ op = "mkvolume" => Running # {} \/ Engines = {} \/ answer = "error"
        /\ op = "pull" => Running # {} \/ Engines = {}
    BY Zenon DEF FanInv, FanTypes, AnswerRight
  <2>2. \A t \in Running : /\ t \in Tasks /\ step[t] = "done"
                           /\ result[t] \in {"ok", "failed", "mismatch"}
                           /\ NotedBy(t) \subseteq flags
                           /\ result[t] = "mismatch" => op \in Streams \cup {"pull"}
    BY Zenon DEF FanInv, FanTypes, AnswerRight, ResultsKnown, FlagsRight, Running
  <2>3. \A x \in flags : \E t \in Running : x \in NotedBy(t)
    BY Zenon DEF FanInv, FlagsRight, Running
  <2>4. answer = "ok" => \A t \in ok : lists[t[1]] = has[t[1]] \/ t[1] \in unlisted \/ failed # {}
    <3>1. \A u \in Tasks : result[u] = "failed" => u \in Running
      BY Zenon DEF FanInv, ResultsKnown, Running
    <3>2. \A t \in ok : t \in Tasks /\ result[t] = "ok" /\ step[t] = "done"
      BY <2>2, Zenon
    <3>. QED  BY <3>1, <3>2, Zenon DEF FanInv, ListsFollow
  <2>5. SUFFICES /\ answer = "ok" => failed = {} /\ (ok = {} => op \in Streams \/ Engines = {})
                 /\ answer = "error" => \/ failed # {} \/ Running = {}
                                        \/ op = "pull" /\ ok = {}
                 /\ answer = "notfound" => Running = {}
    BY <2>4, Zenon DEF ToldTheTruth
  <2>6. CASE op = "pull"
    <3>1. \A t \in Running : NotedBy(t) = PullCallback(result[t])
      BY <2>6, Zenon DEF NotedBy, Streams
    <3>2. answer = PullVerdict \/ (answer = "error" /\ Running = {})
      BY <2>1, <2>6, Zenon DEF Verdict, Streams
    <3>3. \A t \in Running : /\ result[t] = "ok" => "success" \in flags
                             /\ result[t] = "failed" => {"errorFound", "nonOSErrorFound"} \subseteq flags
                             /\ result[t] = "mismatch" => "errorFound" \in flags
      BY <2>2, <3>1, Zenon DEF PullCallback
    <3>4. /\ "success" \in flags => ok # {}
          /\ "nonOSErrorFound" \in flags => failed # {}
      BY <2>2, <2>3, <3>1 DEF PullCallback
    <3>. QED  BY <2>1, <2>2, <2>6, <3>2, <3>3, <3>4, Zenon DEF PullVerdict
  <2>7. CASE op \in Streams
    <3>1. \A t \in Running : NotedBy(t) = StreamCallback(result[t])
      BY <2>7, Zenon DEF NotedBy, Streams
    <3>2. answer = ErrorVerdict \/ (answer = "error" /\ Running = {})
      BY <2>1, <2>7, Zenon DEF Verdict, Streams
    <3>3. "errorFound" \in flags <=> failed # {}
      BY <2>2, <2>3, <3>1, Zenon DEF StreamCallback
    <3>. QED  BY <2>7, <3>2, <3>3, Zenon DEF ErrorVerdict
  <2>8. CASE op \notin Streams \cup {"pull"}
    <3>1. \A t \in Running : NotedBy(t) = Noted(result[t]) /\ result[t] \in {"ok", "failed"}
      BY <2>2, <2>8, Zenon DEF NotedBy
    <3>2. ("errorFound" \in flags <=> failed # {}) /\ ("success" \in flags <=> ok # {})
      BY <2>2, <2>3, <3>1 DEF Noted
    <3>3. failed = {} /\ ok = {} => Running = {}
      BY <3>1, Zenon
    <3>4. CASE op = "mkvolume"
      BY <2>1, <3>2, <3>3, <3>4, Zenon DEF Verdict, ErrorVerdict
    <3>5. CASE op # "mkvolume"
      BY <2>1, <2>8, <3>2, <3>3, <3>5, Zenon DEF Verdict, FoundVerdict
    <3>. QED  BY <3>4, <3>5, Zenon
  <2>. QED  BY <2>6, <2>7, <2>8, Zenon
<1>. QED  BY <1>1, FanInitInv, FanStep, PTL DEF FanSpec
-----------------------------------------------------------------------------
(* The copy of the client's stream to the pipes.  Before a request there   *)
(* is none; while it reads, every engine has had all the chunks before the *)
(* one that is next, or fewer; while it writes, the engines from copy.at   *)
(* on have not had the chunk that is written.                              *)
Pipes == Cardinality(Engines)

CopyTypes ==
  /\ hung \subseteq Tasks
  /\ got \in [Tasks -> Nat] /\ closed \in [Tasks -> BOOLEAN]
  /\ copy \in [does : {"read", "write", "ended"}, chunk : Nat \ {0}, at : Nat \ {0}]

CopyBounds ==
  /\ op = "none" => /\ copy = [does |-> "ended", chunk |-> 1, at |-> 1]
                    /\ \A t \in Tasks : got[t] = 0
  /\ copy.chunk <= Chunks + 1 /\ copy.at <= Pipes + 1
  /\ copy.does = "read" => copy.at = 1 /\ \A t \in Tasks : got[t] < copy.chunk
  /\ copy.does = "write" =>
       /\ copy.at <= Pipes /\ copy.chunk <= Chunks
       /\ \A t \in Tasks : got[t] <= copy.chunk
       /\ \A i \in copy.at .. Pipes : got[<<PipeOrder[i], 1>>] < copy.chunk
  /\ \A t \in Tasks : got[t] <= Chunks

PipeInv == CopyTypes /\ CopyBounds

(* The pipes are in some order, one for every engine.                      *)
LEMMA PipesOrdered ==
  /\ Pipes \in Nat /\ (Pipes = 0 <=> Engines = {})
  /\ PipeOrder \in [1 .. Pipes -> Engines] /\ Len(PipeOrder) = Pipes
  /\ \A i, j \in 1 .. Pipes : PipeOrder[i] = PipeOrder[j] => i = j
<1>1. Pipes \in Nat /\ ExistsBijection(1 .. Pipes, Engines)
  BY FanOutAssumption, FS_CardinalityType, Zenon DEF Pipes
<1>2. Pipes = 0 <=> Engines = {}
  BY FanOutAssumption, FS_EmptySet, Zenon DEF Pipes
<1>3. \E s \in [1 .. Pipes -> Engines] : \A i, j \in DOMAIN s : s[i] = s[j] => i = j
  <2>1. PICK s \in Bijection(1 .. Pipes, Engines) : TRUE
    BY <1>1, Zenon DEF ExistsBijection
  <2>2. s \in [1 .. Pipes -> Engines] /\ \A i, j \in 1 .. Pipes : s[i] = s[j] => i = j
    BY <2>1, Zenon DEF Bijection, Injection, IsInjective
  <2>. QED  BY <2>2, Zenon
<1>4. /\ PipeOrder \in [1 .. Pipes -> Engines]
      /\ \A i, j \in DOMAIN PipeOrder : PipeOrder[i] = PipeOrder[j] => i = j
  BY <1>3, Zenon DEF PipeOrder, Pipes
<1>5. Len(PipeOrder) = Pipes
  BY <1>1, <1>4
<1>. QED  BY <1>1, <1>2, <1>4, <1>5, Zenon

(* The initial states satisfy PipeInv.                                     *)
LEMMA PipeInit == FanInit => PipeInv
<1>. SUFFICES ASSUME FanInit PROVE PipeInv
  BY Zenon
<1>1. CopyTypes
  BY DEF FanInit, CopyTypes
<1>2. CopyBounds
  BY PipesOrdered, FanOutAssumption DEF FanInit, CopyBounds
<1>. QED  BY <1>1, <1>2, Zenon DEF PipeInv

(* A request that arrives starts the copy or does without.                 *)
LEMMA PipeStart == ASSUME PipeInv, Start \/ StartNowhere PROVE PipeInv'
<1>1. /\ op = "none" /\ op' # "none" /\ UNCHANGED <<hung, got, closed>>
      /\ \/ copy' = copy
         \/ \E d \in {"read", "ended"} : copy' = [copy EXCEPT !.does = d]
  BY Zenon DEF Start, StartNowhere, FanKinds, Streams
<1>2. /\ copy = [does |-> "ended", chunk |-> 1, at |-> 1] /\ \A t \in Tasks : got[t] = 0
      /\ CopyTypes /\ CopyBounds
  BY <1>1, Zenon DEF PipeInv, CopyBounds
<1>3. \E d \in {"read", "ended"} : copy' = [does |-> d, chunk |-> 1, at |-> 1]
  BY <1>1, <1>2, Zenon
<1>4. /\ copy'.does \in {"read", "ended"} /\ copy'.chunk = 1 /\ copy'.at = 1
      /\ copy' \in [does : {"read", "write", "ended"}, chunk : Nat \ {0}, at : Nat \ {0}]
  BY <1>3
<1>5. CopyTypes'
  BY <1>1, <1>2, <1>4, Zenon DEF CopyTypes
<1>6. CopyBounds'
  <2>1. /\ \A t \in Tasks : got[t] <= Chunks /\ got[t] < 1
        /\ 1 <= Chunks + 1 /\ 1 <= Pipes + 1
    BY <1>2, PipesOrdered, FanOutAssumption DEF CopyBounds
  <2>. QED  BY <1>1, <1>4, <2>1, Zenon DEF CopyBounds, Pipes
<1>. QED  BY <1>5, <1>6, Zenon DEF PipeInv

(* The next chunk is read, or the stream is over.                          *)
LEMMA PipeRead == ASSUME PipeInv, Read PROVE PipeInv'
<1>1. /\ copy.does = "read" /\ UNCHANGED <<op, hung, got, closed>> /\ CopyTypes /\ CopyBounds
      /\ copy.at = 1 /\ \A t \in Tasks : got[t] < copy.chunk
  BY Zenon DEF PipeInv, CopyBounds, Read
<1>2. /\ copy \in [does : {"read", "write", "ended"}, chunk : Nat \ {0}, at : Nat \ {0}]
      /\ op # "none"
  BY <1>1 DEF CopyTypes, CopyBounds
<1>3. CASE copy' = [copy EXCEPT !.does = "ended"]
  <2>1. /\ copy'.does = "ended" /\ copy'.chunk = copy.chunk /\ copy'.at = copy.at
        /\ copy' \in [does : {"read", "write", "ended"}, chunk : Nat \ {0}, at : Nat \ {0}]
    BY <1>2, <1>3, Zenon
  <2>. QED  BY <1>1, <1>2, <2>1, Zenon DEF PipeInv, CopyTypes, CopyBounds, Pipes
<1>4. CASE copy.chunk <= Chunks /\ copy' = NextChunk
  <2>1. CASE Engines = {}
    <3>1. /\ copy'.does = "read" /\ copy'.chunk = copy.chunk + 1 /\ copy'.at = copy.at
          /\ copy' \in [does : {"read", "write", "ended"}, chunk : Nat \ {0}, at : Nat \ {0}]
      BY <1>1, <1>2, <1>4, <2>1 DEF NextChunk
    <3>2. copy.chunk + 1 <= Chunks + 1
      BY <1>2, <1>4, FanOutAssumption
    <3>3. Tasks = {}
      BY <2>1, TaskEngines, Zenon
    <3>. QED  BY <1>1, <1>2, <3>1, <3>2, <3>3, Zenon DEF PipeInv, CopyTypes, CopyBounds, Pipes
  <2>2. CASE Engines # {}
    <3>1. /\ copy'.does = "write" /\ copy'.chunk = copy.chunk /\ copy'.at = copy.at
          /\ copy' \in [does : {"read", "write", "ended"}, chunk : Nat \ {0}, at : Nat \ {0}]
      BY <1>1, <1>2, <1>4, <2>2, Zenon DEF NextChunk
    <3>2. 1 <= Pipes
      BY <2>2, PipesOrdered
    <3>3. \A t \in Tasks : got[t] <= copy.chunk
      BY <1>1, <1>2 DEF CopyTypes
    <3>4. \A i \in 1 .. Pipes : got[<<PipeOrder[i], 1>>] < copy.chunk
      <4>1. \A i \in 1 .. Pipes : PipeOrder[i] \in Engines
        BY PipesOrdered, Zenon
      <4>. QED  BY <1>1, <4>1, TaskEngines, Zenon
    <3>. QED  BY <1>1, <1>2, <1>4, <3>1, <3>2, <3>3, <3>4, Zenon
              DEF PipeInv, CopyTypes, CopyBounds, Pipes, PipeOrder
  <2>. QED  BY <2>1, <2>2, Zenon
<1>. QED  BY <1>3, <1>4, Zenon DEF Read

(* A chunk goes to the next pipe, or finds its reader closed.              *)
LEMMA PipeWrite == ASSUME PipeInv, Write PROVE PipeInv'
<1>. DEFINE e == PipeOrder[copy.at]
            t == <<e, 1>>
<1>1. /\ copy.does = "write" /\ UNCHANGED <<op, hung, closed>> /\ CopyTypes /\ CopyBounds
      /\ \/ got' = [got EXCEPT ![t] = @ + 1] /\ copy' = NextPipe
         \/ copy' = [copy EXCEPT !.does = "ended"] /\ got' = got
  BY Zenon DEF PipeInv, Write
<1>2. /\ copy \in [does : {"read", "write", "ended"}, chunk : Nat \ {0}, at : Nat \ {0}]
      /\ got \in [Tasks -> Nat]
      /\ op # "none"
  BY <1>1 DEF CopyTypes, CopyBounds
<1>3. /\ copy.at <= Pipes /\ copy.chunk <= Chunks
      /\ \A u \in Tasks : got[u] <= copy.chunk
      /\ \A i \in copy.at .. Pipes : got[<<PipeOrder[i], 1>>] < copy.chunk
      /\ \A u \in Tasks : got[u] <= Chunks
  BY <1>1, Zenon DEF CopyBounds
<1>4. CASE copy' = [copy EXCEPT !.does = "ended"] /\ got' = got
  <2>1. /\ copy'.does = "ended" /\ copy'.chunk = copy.chunk /\ copy'.at = copy.at
        /\ copy' \in [does : {"read", "write", "ended"}, chunk : Nat \ {0}, at : Nat \ {0}]
    BY <1>2, <1>4, Zenon
  <2>. QED  BY <1>1, <1>2, <1>4, <2>1, Zenon DEF PipeInv, CopyTypes, CopyBounds, Pipes
<1>5. CASE got' = [got EXCEPT ![t] = @ + 1] /\ copy' = NextPipe
  <2>0. Pipes \in Nat /\ Chunks \in Nat /\ copy.at \in 1 .. Pipes /\ copy.at \in copy.at .. Pipes
        /\ copy.chunk \in Nat \ {0}
    BY <1>2, <1>3, PipesOrdered, FanOutAssumption
  <2>1. /\ e \in Engines /\ t \in Tasks /\ got[t] < copy.chunk
        /\ \A i \in (copy.at + 1) .. Pipes :
             i \in 1 .. Pipes /\ i \in copy.at .. Pipes /\ i # copy.at
    <3>1. e \in Engines
      BY <2>0, PipesOrdered, Zenon
    <3>2. t \in Tasks
      BY <3>1, TaskEngines, Zenon
    <3>3. \A i \in (copy.at + 1) .. Pipes :
            i \in 1 .. Pipes /\ i \in copy.at .. Pipes /\ i # copy.at
      BY <2>0
    <3>. QED  BY <1>3, <2>0, <3>1, <3>2, <3>3, Zenon
  <2>2. \A i \in (copy.at + 1) .. Pipes : <<PipeOrder[i], 1>> \in Tasks /\ PipeOrder[i] # e
    BY <2>0, <2>1, PipesOrdered, TaskEngines, Zenon
  <2>. HIDE DEF e, t
  <2>3. /\ got' \in [Tasks -> Nat] /\ got'[t] = got[t] + 1
        /\ \A u \in Tasks : u # t => got'[u] = got[u]
    BY <1>2, <1>5, <2>1
  <2>4. /\ \A u \in Tasks : got'[u] <= copy.chunk
        /\ \A u \in Tasks : got'[u] <= Chunks
    BY <1>2, <1>3, <2>0, <2>1, <2>3
  <2>5. \A i \in (copy.at + 1) .. Pipes : got'[<<PipeOrder[i], 1>>] < copy.chunk
    <3>1. \A i \in (copy.at + 1) .. Pipes : <<PipeOrder[i], 1>> # t
      BY <2>2, Zenon DEF t
    <3>. QED  BY <1>3, <2>1, <2>2, <2>3, <3>1, Zenon
  <2>6. CASE copy.at < Pipes
    <3>1. copy' = [copy EXCEPT !.at = @ + 1]
      BY <1>5, <2>6, PipesOrdered, Zenon DEF NextPipe
    <3>2. /\ copy'.does = "write" /\ copy'.chunk = copy.chunk /\ copy'.at = copy.at + 1
          /\ copy' \in [does : {"read", "write", "ended"}, chunk : Nat \ {0}, at : Nat \ {0}]
      BY <1>1, <1>2, <3>1
    <3>3. copy.at + 1 <= Pipes /\ copy.at + 1 <= Pipes + 1 /\ copy.chunk <= Chunks + 1
      BY <1>3, <2>0, <2>6
    <3>4. CopyTypes'
      BY <1>1, <2>3, <3>2, Zenon DEF CopyTypes
    <3>5. CopyBounds'
      BY <1>1, <1>2, <1>3, <2>4, <2>5, <3>2, <3>3, ZenonT(60) DEF CopyBounds, Pipes, PipeOrder
    <3>. QED  BY <3>4, <3>5, Zenon DEF PipeInv
  <2>7. CASE ~(copy.at < Pipes)
    <3>1. copy' = [does |-> "read", chunk |-> copy.chunk + 1, at |-> 1]
      BY <1>5, <2>7, PipesOrdered, Zenon DEF NextPipe
    <3>2. /\ copy'.does = "read" /\ copy'.chunk = copy.chunk + 1 /\ copy'.at = 1
          /\ copy' \in [does : {"read", "write", "ended"}, chunk : Nat \ {0}, at : Nat \ {0}]
      BY <2>0, <3>1
    <3>3. 1 <= Pipes + 1 /\ copy.chunk + 1 <= Chunks + 1
      BY <1>3, <2>0
    <3>4. \A u \in Tasks : got'[u] < copy.chunk + 1
      BY <2>0, <2>3, <2>4
    <3>5. CopyTypes'
      BY <1>1, <2>3, <3>2, Zenon DEF CopyTypes
    <3>6. CopyBounds'
      BY <1>1, <1>2, <2>4, <3>2, <3>3, <3>4, Zenon DEF CopyBounds, Pipes
    <3>. QED  BY <3>5, <3>6, Zenon DEF PipeInv
  <2>. QED  BY <2>6, <2>7, Zenon
<1>. QED  BY <1>1, <1>4, <1>5, Zenon

(* The goroutines of the engines, and the answer, leave the copy alone; at *)
(* the end of its call a goroutine closes its reader.                      *)
LEMMA PipeTask ==
  ASSUME PipeInv, Answer \/ \E t \in Tasks : TaskStep(t) \/ Stall(t)
  PROVE  PipeInv'
<1>1. UNCHANGED <<op, got, copy>>
  BY Zenon DEF Answer, TaskStep, Stall, Call, List, ApplyListed, Report
<1>2. closed' = closed \/ \E t \in Tasks : closed' = [closed EXCEPT ![t] = TRUE]
  BY Zenon DEF Answer, TaskStep, Stall, Call, List, ApplyListed, Report
<1>3. closed' \in [Tasks -> BOOLEAN]
  BY <1>2, Zenon DEF PipeInv, CopyTypes
<1>4. hung' \subseteq Tasks
  BY Zenon DEF PipeInv, CopyTypes, Answer, TaskStep, Stall, Call, List, ApplyListed, Report
<1>. QED  BY <1>1, <1>3, <1>4, Zenon DEF PipeInv, CopyTypes, CopyBounds, Pipes, PipeOrder

(* Every step preserves PipeInv.                                           *)
LEMMA PipeStep == PipeInv /\ [FanNext]_fanVars => PipeInv'
<1>. SUFFICES ASSUME PipeInv, [FanNext]_fanVars PROVE PipeInv'
  BY Zenon
<1>1. CASE UNCHANGED fanVars
  BY <1>1, Zenon DEF fanVars, PipeInv, CopyTypes, CopyBounds, Pipes, PipeOrder
<1>. QED  BY <1>1, PipeStart, PipeRead, PipeWrite, PipeTask, Zenon DEF FanNext

(* Load and Import: the copy of the client's stream stays within the pipes *)
(* and the stream, and no engine is given more of an image than the client *)
(* has sent, whichever readers close while a chunk is on its way; without  *)
(* engines the stream is read for nobody.  The other variables keep their  *)
(* types too.                                                              *)
THEOREM StreamBounded == FanSpec => []FanTypeOK
<1>1. FanInv /\ PipeInv => FanTypeOK
  <2>. SUFFICES ASSUME FanInv, PipeInv PROVE FanTypeOK
    BY Zenon
  <2>1. FanTypes /\ CopyTypes /\ CopyBounds
    BY Zenon DEF FanInv, PipeInv
  <2>2. got \in [Tasks -> 0 .. Chunks]
    <3>1. \A t \in Tasks : got[t] \in 0 .. Chunks
      BY <2>1, FanOutAssumption DEF CopyTypes, CopyBounds
    <3>. QED  BY <2>1, <3>1, Zenon DEF CopyTypes
  <2>3. /\ copy \in [does : {"read", "write", "ended"}, chunk : 1 .. Chunks + 1,
                     at : 1 .. Pipes + 1]
        /\ copy.does = "write" => copy.at <= Pipes
    BY <2>1, PipesOrdered, FanOutAssumption DEF CopyTypes, CopyBounds
  <2>. QED  BY <2>1, <2>2, <2>3, Zenon DEF FanTypeOK, FanTypes, CopyTypes, Pipes
<1>. QED  BY <1>1, FanInitInv, FanStep, PipeInit, PipeStep, PTL DEF FanSpec
=============================================================================
