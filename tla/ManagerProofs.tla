--------------------------- MODULE ManagerProofs ----------------------------
(***************************************************************************)
(* What a manager does as long as it runs, for any number of everything:   *)
(* it follows the events of an installed engine, whatever attempts to      *)
(* connect it and streams break (EventsMonitor), it sends them to clients, *)
(* and one that is not cut off misses none (APIEvents), and it campaigns   *)
(* for the leadership, serving or forwarding requests (Replication).       *)
(***************************************************************************)
EXTENDS EventsMonitor, APIEvents, Replication, SequenceTheorems,
        FiniteSetTheorems, TLAPS

-----------------------------------------------------------------------------
(* EventsMonitor.                                                          *)

(* The types; an attempt that is past its dialling has given the engine a  *)
(* monitor.                                                                *)
MonTypes ==
  /\ MonTypeOK
  /\ \A a \in Attempts : connect[a] \in {"specs", "refresh"} => eventsMonitor \in Attempts

(* Nothing is stopped before the engine is disconnected, so that what      *)
(* follows it has not ended; an attempt that has started a monitor is such *)
(* a follower until then.                                                  *)
FollowInv ==
  /\ member \in {"pending", "installed"} =>
       stopChans = {} /\ \A a \in Attempts : follows[a].at # "ended"
  /\ \A a \in Attempts : connect[a] = "refresh" => follows[a].at # "off"
  /\ KeepsFollowing

(* The initial states satisfy both.                                        *)
LEMMA InitFollow == MonInit => MonTypes /\ FollowInv
BY MonitorAssumption, SMT
   DEF MonInit, MonTypes, FollowInv, KeepsFollowing, MonTypeOK, Attempts, Following

(* Steps keep the types: what an attempt or a follower becomes is one of   *)
(* the values listed.                                                      *)
LEMMA TypesStep == MonTypes /\ [MonNext]_monVars => MonTypes'
<1> SUFFICES ASSUME MonTypes, [MonNext]_monVars PROVE MonTypes'
  BY Zenon
<1>0. \A a \in Attempts : a \in 0..MaxAttempts
  BY MonitorAssumption, SMT DEF Attempts
<1>1. CASE UNCHANGED monVars
  BY <1>1, Zenon DEF monVars, MonTypes, MonTypeOK
<1>2. CASE DisconnectEngine
  <2>1. eventsMonitor = 0 \/ eventsMonitor \in Attempts
    BY MonitorAssumption, SMT DEF MonTypes, MonTypeOK, Attempts
  <2>2. /\ member' \in {"crashed", "removed"} /\ stopChans' \subseteq Attempts
        /\ atDisconnect' \in 0..MaxAttempts
    BY <1>2, <2>1 DEF DisconnectEngine, Disconnected, MonTypes, MonTypeOK
  <2>3. UNCHANGED <<connect, eventsMonitor, follows, breaks>>
    BY <1>2, Zenon DEF DisconnectEngine
  <2> QED
    BY <2>2, <2>3, Zenon DEF MonTypes, MonTypeOK
<1>3. ASSUME NEW a \in Attempts,
             Begin(a) \/ Fail(a) \/ ConnectWithClient(a) \/ Commit(a)
      PROVE  MonTypes'
  <2>1. CASE Begin(a) \/ Fail(a)
    BY <2>1, SMT DEF Begin, Fail, MonTypes, MonTypeOK
  <2>2. CASE ConnectWithClient(a)
    BY <1>0, <2>2, SMT DEF ConnectWithClient, MonTypes, MonTypeOK
  <2>3. CASE Commit(a)
    <3>1. eventsMonitor \in Attempts
      BY <2>3, Zenon DEF Commit, MonTypes
    <3>2. /\ member' \in {"pending", "installed", "removed", "crashed"}
          /\ stopChans' \subseteq Attempts /\ atDisconnect' \in 0..MaxAttempts
      BY <2>3, <3>1, Zenon DEF Commit, Disconnected, MonTypes, MonTypeOK
    <3>3. /\ connect' = [connect EXCEPT ![a] = "over"]
          /\ UNCHANGED <<eventsMonitor, follows, breaks>>
      BY <2>3, Zenon DEF Commit
    <3> QED
      BY <3>1, <3>2, <3>3, Zenon DEF MonTypes, MonTypeOK
  <2> QED
    BY <1>3, <2>1, <2>2, <2>3, Zenon
<1>4. ASSUME NEW a \in Attempts,
             StartMonitorEvents(a) \/ StopReceived(a) \/ Restart(a)
      PROVE  MonTypes'
  BY <1>4, SMT
     DEF StartMonitorEvents, StopReceived, Restart, Following, MonTypes, MonTypeOK
<1>5. ASSUME NEW a \in Attempts, StreamBreaks(a)
      PROVE  MonTypes'
  <2>1. breaks' \in 0..MaxBreaks
    BY <1>5, MonitorAssumption, SMT DEF StreamBreaks, MonTypes, MonTypeOK
  <2> QED
    BY <1>5, <2>1, SMT DEF StreamBreaks, MonTypes, MonTypeOK
<1> QED
  BY <1>1, <1>2, <1>3, <1>4, <1>5, Zenon DEF MonNext

(* Every step preserves FollowInv: a follower whose stream breaks starts   *)
(* again, and none ends while the engine is in the tables.                 *)
LEMMA NextFollow == MonTypes /\ FollowInv /\ [MonNext]_monVars => FollowInv'
<1> SUFFICES ASSUME MonTypes, FollowInv, [MonNext]_monVars
             PROVE  FollowInv'
  BY Zenon
<1>0. /\ DOMAIN connect = Attempts /\ DOMAIN follows = Attempts
      /\ \A b \in Attempts : /\ follows[b].at \in {"off", "select", "retry", "ended"}
                             /\ DOMAIN follows[b] = {"em", "at"}
  BY SMT DEF MonTypes, MonTypeOK
<1>1. CASE UNCHANGED monVars
  BY <1>1, Zenon DEF monVars, FollowInv, KeepsFollowing
<1>2. CASE DisconnectEngine
  BY <1>2, SMT DEF DisconnectEngine, Disconnected, FollowInv, KeepsFollowing
<1>3. ASSUME NEW a \in Attempts, Begin(a) \/ Fail(a) \/ ConnectWithClient(a)
      PROVE  FollowInv'
  BY <1>0, <1>3, SMT DEF Begin, Fail, ConnectWithClient, FollowInv, KeepsFollowing
<1>4. ASSUME NEW a \in Attempts, StartMonitorEvents(a) \/ Restart(a)
      PROVE  FollowInv'
  BY <1>0, <1>4, SMT DEF StartMonitorEvents, Restart, Following, FollowInv, KeepsFollowing
<1>5. ASSUME NEW a \in Attempts, Commit(a)
      PROVE  FollowInv'
  <2>1. member = "pending" => follows[a].at \in {"select", "retry"}
    BY <1>0, <1>5, Zenon DEF Commit, FollowInv
  <2> QED
    BY <1>0, <1>5, <2>1, SMT DEF Commit, Disconnected, FollowInv, KeepsFollowing
<1>6. ASSUME NEW a \in Attempts, StreamBreaks(a)
      PROVE  FollowInv'
  <2>1. /\ follows'[a].at = "retry"
        /\ \A b \in Attempts \ {a} : follows'[b] = follows[b]
        /\ UNCHANGED <<member, connect, stopChans>>
    BY <1>0, <1>6, SMT DEF StreamBreaks
  <2> QED
    BY <2>1, SMT DEF FollowInv, KeepsFollowing
<1>7. ASSUME NEW a \in Attempts, StopReceived(a)
      PROVE  FollowInv'
  <2>1. /\ member \notin {"pending", "installed"}
        /\ follows'[a].at = "ended"
        /\ \A b \in Attempts \ {a} : follows'[b] = follows[b]
        /\ UNCHANGED <<member, connect>>
    BY <1>0, <1>7, SMT DEF StopReceived, FollowInv
  <2> QED
    BY <2>1, SMT DEF FollowInv, KeepsFollowing
<1> QED
  BY <1>1, <1>2, <1>3, <1>4, <1>5, <1>6, <1>7, Zenon DEF MonNext

(* However often streams break and attempts replace the events monitor, an *)
(* installed engine has a goroutine of StartMonitorEvents that follows it  *)
(* or is about to.                                                         *)
THEOREM AlwaysFollowed == MonSpec => []KeepsFollowing
<1>1. FollowInv => KeepsFollowing
  BY Zenon DEF FollowInv
<1> QED
  BY <1>1, InitFollow, TypesStep, NextFollow, PTL DEF MonSpec

(* The attempts, the monitor and the goroutines that follow the engine     *)
(* keep their types.                                                       *)
THEOREM MonitorTyped == MonSpec => []MonTypeOK
<1>1. MonTypes => MonTypeOK
  BY Zenon DEF MonTypes
<1> QED
  BY <1>1, InitFollow, TypesStep, PTL DEF MonSpec
-----------------------------------------------------------------------------
(* APIEvents.                                                              *)

Listens(c) == getEvents[c] \in {"count", "select", "write"}
Whole(c) == sent[c] \o offered[c] \o writing[c] \o waiting[c]
Since(n, m) == [i \in 1..(m - n) |-> n + i]

(* The types that the argument needs.                                      *)
StreamTypes ==
  /\ published \in Nat
  /\ getEvents \in [Clients -> {"idle", "count", "select", "write", "cancel",
                                "unsubscribe", "done"}]
  /\ subscribed \in [Clients -> BOOLEAN]
  /\ cut \in [Clients -> BOOLEAN]
  /\ since \in [Clients -> Nat]
  /\ sent \in [Clients -> Seq(Nat)]
  /\ offered \in [Clients -> Seq(Nat)]
  /\ writing \in [Clients -> Seq(Nat)]
  /\ waiting \in [Clients -> Seq(Nat)]

(* A client that has not come yet has nothing; one that listens and is not *)
(* cut off has a queue that the broadcaster knows.                         *)
StreamOf(c) ==
  /\ since[c] <= published
  /\ getEvents[c] = "idle" =>
       /\ sent[c] = <<>> /\ offered[c] = <<>> /\ writing[c] = <<>> /\ waiting[c] = <<>>
       /\ ~cut[c] /\ ~subscribed[c]
  /\ Listens(c) /\ ~cut[c] => subscribed[c] /\ Whole(c) = Since(since[c], published)

StreamInv == StreamTypes /\ \A c \in Clients : StreamOf(c)

(* One more event makes the list of those since n one longer.              *)
LEMMA SinceGrows ==
  ASSUME NEW n \in Nat, NEW m \in Nat, n <= m
  PROVE  /\ Since(n, n) = <<>>
         /\ Since(n, m + 1) = Append(Since(n, m), m + 1)
<1>1. Since(n, n) = <<>>
  BY SMT DEF Since
<1>2. Since(n, m) \in Seq(Nat) /\ Len(Since(n, m)) = m - n
  BY SMT DEF Since
<1> QED
  BY <1>1, <1>2, SMT DEF Since

(* Taking the first waiting event into an empty hand keeps the whole.      *)
LEMMA HeadMoves ==
  ASSUME NEW s \in Seq(Nat), NEW w \in Seq(Nat), w # <<>>
  PROVE  s \o <<>> \o w = s \o <<Head(w)>> \o Tail(w)
<1>1. Head(w) \in Nat /\ Tail(w) \in Seq(Nat)
  BY HeadTailProperties, Zenon
<1>2. w = <<Head(w)>> \o Tail(w)
  BY <1>1, HeadTailProperties, SMT
<1>3. s \o <<>> = s
  BY ConcatEmptySeq, Zenon
<1>4. <<Head(w)>> \in Seq(Nat)
  BY <1>1, SMT
<1>5. (s \o <<Head(w)>>) \o Tail(w) = s \o (<<Head(w)>> \o Tail(w))
  BY <1>1, <1>4, ConcatAssociative
<1> QED
  BY <1>2, <1>3, <1>5, Zenon

(* An event that is appended to the queue is appended to the whole.        *)
LEMMA WholeGrows ==
  ASSUME NEW s \in Seq(Nat), NEW w \in Seq(Nat), NEW x \in Nat
  PROVE  s \o Append(w, x) = Append(s \o w, x)
<1>1. Append(w, x) = w \o <<x>> /\ <<x>> \in Seq(Nat)
  BY AppendIsConcat, SMT
<1>2. s \o w \in Seq(Nat)
  BY ConcatProperties, Zenon
<1>3. Append(s \o w, x) = (s \o w) \o <<x>>
  BY <1>2, AppendIsConcat, Zenon
<1>4. (s \o w) \o <<x>> = s \o (w \o <<x>>)
  BY <1>1, ConcatAssociative
<1> QED
  BY <1>1, <1>3, <1>4, Zenon

(* The initial states satisfy StreamInv.                                   *)
LEMMA InitStream == EvInit => StreamInv
<1> SUFFICES ASSUME EvInit PROVE StreamInv
  BY Zenon
<1>1. StreamTypes
  BY SMT DEF EvInit, StreamTypes
<1>2. \A c \in Clients : StreamOf(c)
  BY SMT DEF EvInit, StreamOf, Listens
<1> QED
  BY <1>1, <1>2, Zenon DEF StreamInv

(* An event is published: a client that listens gets it or is cut off.     *)
LEMMA HandleStream ==
  ASSUME StreamInv, Handle
  PROVE  StreamInv'
<1>1. StreamTypes'
  <2>1. published' \in Nat
    BY SMT DEF Handle, StreamInv, StreamTypes
  <2>2. \A c \in Clients : Append(waiting[c], published') \in Seq(Nat)
    BY <2>1, AppendProperties, Zenon DEF StreamInv, StreamTypes
  <2>3. waiting' \in [Clients -> Seq(Nat)]
    BY <2>2, Zenon DEF Handle, StreamInv, StreamTypes
  <2>4. cut' \in [Clients -> BOOLEAN]
    BY Zenon DEF Handle, StreamInv, StreamTypes
  <2> QED
    BY <2>1, <2>3, <2>4, Zenon DEF Handle, StreamInv, StreamTypes
<1>2. ASSUME NEW c \in Clients PROVE StreamOf(c)'
  <2>1. /\ sent[c] \in Seq(Nat) /\ offered[c] \in Seq(Nat)
        /\ writing[c] \in Seq(Nat) /\ waiting[c] \in Seq(Nat)
        /\ published \in Nat /\ since[c] \in Nat /\ published' = published + 1
        /\ since[c] <= published /\ StreamOf(c)
    BY Zenon DEF Handle, StreamInv, StreamTypes, StreamOf
  <2>2. /\ getEvents' = getEvents /\ subscribed' = subscribed /\ since' = since
        /\ writing' = writing /\ offered' = offered /\ sent' = sent
        /\ waiting'[c] = IF subscribed[c] /\ HasRoom(c)
                        THEN Append(waiting[c], published') ELSE waiting[c]
        /\ cut'[c] <=> cut[c] \/ (subscribed[c] /\ ~HasRoom(c))
    BY Zenon DEF Handle, StreamInv, StreamTypes
  <2>3. since'[c] <= published'
    BY <2>1, <2>2, SMT
  <2>4. (getEvents[c] = "idle")' =>
          /\ sent'[c] = <<>> /\ offered'[c] = <<>>
          /\ writing'[c] = <<>> /\ waiting'[c] = <<>>
          /\ ~cut'[c] /\ ~subscribed'[c]
    BY <2>1, <2>2, Zenon DEF StreamOf
  <2>5. ASSUME Listens(c)', ~cut'[c]
        PROVE  subscribed'[c] /\ Whole(c)' = Since(since'[c], published')
    <3>1. Listens(c) /\ ~cut[c] /\ subscribed[c] /\ HasRoom(c)
      BY <2>1, <2>2, <2>5, Zenon DEF Listens, StreamOf
    <3>2. Whole(c) = Since(since[c], published)
      BY <2>1, <3>1, Zenon DEF StreamOf
    <3>3. (sent[c] \o offered[c]) \o writing[c] \in Seq(Nat)
      BY <2>1, ConcatProperties, Zenon
    <3>4. Whole(c)' = ((sent[c] \o offered[c]) \o writing[c]) \o Append(waiting[c], published')
      BY <2>2, <3>1, Zenon DEF Whole
    <3>5. published' \in Nat
      BY <2>1, SMT
    <3>6. Whole(c)' = Append(Whole(c), published')
      BY <2>1, <3>3, <3>4, <3>5, WholeGrows, Zenon DEF Whole
    <3> QED
      BY <2>1, <2>2, <3>1, <3>2, <3>6, SinceGrows, Zenon
  <2> QED
    BY <2>3, <2>4, <2>5, Zenon DEF StreamOf
<1> QED
  BY <1>1, <1>2, Zenon DEF StreamInv

(* A step of one client's request or queue leaves the other clients alone. *)
LEMMA OtherStreams ==
  ASSUME StreamInv, NEW c \in Clients, EvStep(c), NEW d \in Clients, d # c
  PROVE  StreamOf(d)'
<1>1. /\ published' = published /\ getEvents'[d] = getEvents[d] /\ cut'[d] = cut[d]
      /\ subscribed'[d] = subscribed[d] /\ since'[d] = since[d] /\ sent'[d] = sent[d]
      /\ offered'[d] = offered[d] /\ writing'[d] = writing[d] /\ waiting'[d] = waiting[d]
  BY SMTT(60) DEF EvStep, Subscribe, Count, Take, Offer, Timeout, CloseOutChan, Receive, Written,
             EndOfStream, Leave, Uncount, Unsubscribe, GoOn, StreamInv, StreamTypes
<1>2. StreamOf(d)
  BY Zenon DEF StreamInv
<1> QED
  BY <1>1, <1>2, Zenon DEF StreamOf, Listens, Whole, Since

(* A client subscribes: it has missed nothing yet.                         *)
LEMMA SubscribeStream ==
  ASSUME StreamInv, NEW c \in Clients, Subscribe(c)
  PROVE  StreamTypes' /\ StreamOf(c)'
<1>1. StreamTypes'
  BY SMT DEF Subscribe, GoOn, StreamInv, StreamTypes
<1>2. /\ published \in Nat /\ published' = published /\ since'[c] = published
      /\ subscribed'[c] /\ getEvents'[c] = "count" /\ getEvents[c] = "idle"
      /\ sent' = sent /\ offered' = offered /\ writing' = writing /\ waiting' = waiting
  BY SMT DEF Subscribe, GoOn, StreamInv, StreamTypes
<1>3. sent[c] = <<>> /\ offered[c] = <<>> /\ writing[c] = <<>> /\ waiting[c] = <<>>
  BY <1>2, Zenon DEF StreamInv, StreamOf
<1>4. Whole(c)' = <<>>
  BY <1>2, <1>3, ConcatEmptySeq, EmptySeq, Zenon DEF Whole
<1>5. Since(since'[c], published') = <<>>
  <2>1. published <= published
    BY <1>2
  <2>2. Since(published, published) = <<>>
    BY <1>2, <2>1, SinceGrows, Zenon
  <2>. QED  BY <1>2, <2>2, Zenon
<1>6. since'[c] <= published'
  BY <1>2, SMT
<1> QED
  BY <1>1, <1>2, <1>4, <1>5, <1>6, Zenon DEF StreamOf

(* The next step of a request.                                             *)
LEMMA GoesOn ==
  ASSUME StreamTypes, NEW c \in Clients,
         NEW step \in {"idle", "count", "select", "write", "cancel", "unsubscribe", "done"},
         GoOn(c, step)
  PROVE  /\ getEvents'[c] = step
         /\ getEvents' \in [Clients -> {"idle", "count", "select", "write", "cancel",
                                       "unsubscribe", "done"}]
BY Zenon DEF StreamTypes, GoOn

(* An event passes from one hand to the next: the whole stays.             *)
LEMMA PassStream ==
  ASSUME StreamInv, NEW c \in Clients, Take(c) \/ Offer(c) \/ Receive(c)
  PROVE  StreamTypes' /\ StreamOf(c)'
<1>1. /\ sent[c] \in Seq(Nat) /\ offered[c] \in Seq(Nat)
      /\ writing[c] \in Seq(Nat) /\ waiting[c] \in Seq(Nat)
      /\ StreamOf(c)
  BY Zenon DEF StreamInv, StreamTypes
<1>2. published' = published /\ cut' = cut /\ subscribed' = subscribed /\ since' = since
  BY Zenon DEF Take, Offer, Receive
<1>3. sent[c] \o offered[c] \in Seq(Nat)
  BY <1>1, ConcatProperties, Zenon
<1>5. CASE Take(c)
  <2>1. Head(waiting[c]) \in Nat /\ Tail(waiting[c]) \in Seq(Nat)
    BY <1>1, <1>5, HeadTailProperties, Zenon DEF Take
  <2>2. <<Head(waiting[c])>> \in Seq(Nat)
    BY <2>1, SMT
  <2>3. /\ sent' = sent /\ offered' = offered /\ writing'[c] = <<Head(waiting[c])>>
        /\ waiting'[c] = Tail(waiting[c]) /\ getEvents' = getEvents
        /\ writing[c] = <<>> /\ waiting[c] # <<>>
    BY <1>5, Zenon DEF Take, StreamInv, StreamTypes
  <2>4. StreamTypes'
    BY <1>2, <1>5, <2>1, <2>2, Zenon DEF Take, StreamInv, StreamTypes
  <2>5. Whole(c)' = Whole(c)
    BY <1>1, <1>3, <2>3, HeadMoves, ZenonT(60) DEF Whole
  <2>6. getEvents[c] # "idle"
    BY <1>1, <2>3, Zenon DEF StreamOf
  <2> QED
    BY <1>1, <1>2, <2>3, <2>4, <2>5, <2>6 DEF StreamOf, Listens
<1>6. CASE Offer(c)
  <2>1. /\ sent' = sent /\ offered'[c] = writing[c] /\ writing'[c] = <<>>
        /\ waiting' = waiting /\ getEvents' = getEvents
        /\ offered[c] = <<>> /\ writing[c] # <<>>
    BY <1>6, Zenon DEF Offer, StreamInv, StreamTypes
  <2>2. StreamTypes'
    BY <1>1, <1>2, <1>6, EmptySeq, Zenon DEF Offer, StreamInv, StreamTypes
  <2>3. sent[c] \o writing[c] \in Seq(Nat)
    BY <1>1, ConcatProperties, Zenon
  <2>4. Whole(c)' = Whole(c)
    <3>1. sent[c] \o <<>> = sent[c] /\ (sent[c] \o writing[c]) \o <<>> = sent[c] \o writing[c]
      BY <1>1, <2>3, ConcatEmptySeq, Zenon
    <3>2. Whole(c) = ((sent[c] \o <<>>) \o writing[c]) \o waiting[c]
      BY <2>1, Zenon DEF Whole
    <3>3. Whole(c)' = ((sent[c] \o writing[c]) \o <<>>) \o waiting[c]
      BY <2>1, Zenon DEF Whole
    <3> QED
      BY <3>1, <3>2, <3>3, Zenon
  <2>5. getEvents[c] # "idle"
    BY <1>1, <2>1, Zenon DEF StreamOf
  <2> QED
    BY <1>1, <1>2, <2>1, <2>2, <2>4, <2>5 DEF StreamOf, Listens
<1>4. CASE Receive(c)
  <2>2. /\ sent'[c] = sent[c] \o offered[c] /\ offered'[c] = <<>>
        /\ writing' = writing /\ waiting' = waiting /\ getEvents'[c] = "write" /\ getEvents[c] = "select"
    BY <1>4, SMT DEF Receive, GoOn, StreamInv, StreamTypes
  <2>3. StreamTypes'
    <3>1. getEvents' \in [Clients -> {"idle", "count", "select", "write", "cancel",
                                     "unsubscribe", "done"}]
      BY <1>4, GoesOn, Zenon DEF Receive, StreamInv
    <3>2. sent' \in [Clients -> Seq(Nat)] /\ offered' \in [Clients -> Seq(Nat)]
      BY <1>3, <1>4, EmptySeq, Zenon DEF Receive, StreamInv, StreamTypes
    <3> QED
      BY <1>2, <2>2, <3>1, <3>2, Zenon DEF StreamInv, StreamTypes
  <2>4. Whole(c)' = Whole(c)
    BY <1>3, <2>2, ConcatEmptySeq, Zenon DEF Whole
  <2> QED
    BY <1>1, <1>2, <2>2, <2>3, <2>4, Zenon DEF StreamOf, Listens
<1> QED
  BY <1>4, <1>5, <1>6, Zenon

(* The other steps of a request and its queue: a client that goes on       *)
(* listening without being cut off is told nothing and loses nothing.      *)
LEMMA OwnStream ==
  ASSUME StreamInv, NEW c \in Clients,
         \/ Count(c) \/ Timeout(c) \/ CloseOutChan(c) \/ Written(c)
         \/ EndOfStream(c) \/ Leave(c) \/ Uncount(c) \/ Unsubscribe(c)
  PROVE  StreamTypes' /\ StreamOf(c)'
<1>1. StreamOf(c) /\ writing[c] \in Seq(Nat)
  BY Zenon DEF StreamInv, StreamTypes
<1>2. published' = published /\ since' = since /\ sent' = sent
  BY SMTT(60) DEF Count, Timeout, CloseOutChan, Written, EndOfStream, Leave, Uncount, Unsubscribe
<1>3. CASE Timeout(c)
  <2>1. <<>> \in Seq(Nat)
    BY EmptySeq, Zenon
  <2>2. StreamTypes'
    BY <1>1, <1>2, <1>3, <2>1, Zenon DEF Timeout, StreamInv, StreamTypes
  <2>3. cut'[c] /\ getEvents' = getEvents /\ getEvents[c] # "idle"
    BY <1>1, <1>3, SMTT(60) DEF Timeout, StreamInv, StreamTypes, StreamOf
  <2> QED
    BY <1>1, <1>2, <2>2, <2>3, SMTT(60) DEF StreamOf
<1>4. CASE CloseOutChan(c) \/ Unsubscribe(c)
  <2>1. StreamTypes'
    <3>1. getEvents' \in [Clients -> {"idle", "count", "select", "write", "cancel",
                                     "unsubscribe", "done"}]
      BY <1>4, GoesOn, Zenon DEF CloseOutChan, Unsubscribe, StreamInv, StreamTypes
    <3>2. /\ subscribed' = [subscribed EXCEPT ![c] = FALSE]
          /\ waiting' = [waiting EXCEPT ![c] = <<>>] /\ cut' = cut
          /\ writing' = [writing EXCEPT ![c] = <<>>] /\ offered' = offered
      BY <1>4, Zenon DEF CloseOutChan, Unsubscribe
    <3>3. <<>> \in Seq(Nat)
      BY EmptySeq, Zenon
    <3>4. waiting' \in [Clients -> Seq(Nat)] /\ writing' \in [Clients -> Seq(Nat)]
      BY <3>2, <3>3, Zenon DEF StreamInv, StreamTypes
    <3>5. subscribed' \in [Clients -> BOOLEAN]
      BY <3>2, Zenon DEF StreamInv, StreamTypes
    <3> QED
      BY <1>2, <3>1, <3>2, <3>4, <3>5, Zenon DEF StreamInv, StreamTypes
  <2>2. cut' = cut /\ (Listens(c)' => cut'[c]) /\ getEvents'[c] # "idle"
    BY <1>1, <1>4, SMTT(60)
       DEF CloseOutChan, Unsubscribe, GoOn, StreamInv, StreamTypes, StreamOf, Listens
  <2> QED
    BY <1>1, <1>2, <2>1, <2>2, Zenon DEF StreamOf
<1>5. CASE Count(c) \/ Written(c) \/ EndOfStream(c) \/ Leave(c) \/ Uncount(c)
  <2>1. /\ cut' = cut /\ subscribed' = subscribed
        /\ offered' = offered /\ writing' = writing /\ waiting' = waiting
    BY <1>5, Zenon DEF Count, Written, EndOfStream, Leave, Uncount
  <2>2. /\ getEvents' \in [Clients -> {"idle", "count", "select", "write", "cancel",
                                      "unsubscribe", "done"}]
        /\ Listens(c)' => Listens(c)
        /\ getEvents'[c] # "idle"
    <3>1. CASE Count(c)
      BY <3>1, GoesOn, Zenon DEF Count, StreamInv, Listens
    <3>2. CASE Written(c)
      BY <3>2, GoesOn, Zenon DEF Written, StreamInv, Listens
    <3>3. CASE EndOfStream(c)
      BY <3>3, GoesOn, Zenon DEF EndOfStream, StreamInv, Listens
    <3>4. CASE Leave(c)
      BY <3>4, GoesOn, Zenon DEF Leave, StreamInv, Listens
    <3>5. CASE Uncount(c)
      BY <3>5, GoesOn, Zenon DEF Uncount, StreamInv, Listens
    <3> QED
      BY <1>5, <3>1, <3>2, <3>3, <3>4, <3>5
  <2>3. Whole(c)' = Whole(c)
    BY <1>2, <2>1, Zenon DEF Whole
  <2>4. StreamTypes'
    BY <1>2, <2>1, <2>2, Zenon DEF StreamInv, StreamTypes
  <2> QED
    BY <1>1, <1>2, <2>1, <2>2, <2>3, <2>4, SMTT(60) DEF StreamOf
<1> QED
  BY <1>3, <1>4, <1>5, Zenon

(* Every step preserves StreamInv.                                         *)
LEMMA NextStream == StreamInv /\ [EvNext]_evVars => StreamInv'
<1> SUFFICES ASSUME StreamInv, [EvNext]_evVars PROVE StreamInv'
  BY Zenon
<1>1. CASE UNCHANGED evVars
  BY <1>1, Zenon DEF evVars, StreamInv, StreamTypes, StreamOf, Listens, Whole, Since
<1>2. CASE Handle
  BY <1>2, HandleStream, Zenon
<1>3. ASSUME NEW c \in Clients, EvStep(c)
      PROVE  StreamInv'
  <2>1. StreamTypes' /\ StreamOf(c)'
    BY <1>3, SubscribeStream, PassStream, OwnStream, Zenon DEF EvStep
  <2>2. \A d \in Clients : d # c => StreamOf(d)'
    BY <1>3, OtherStreams, Zenon
  <2> QED
    BY <2>1, <2>2, Zenon DEF StreamInv
<1> QED
  BY <1>1, <1>2, <1>3, Zenon DEF EvNext

(* Whatever the limit of the queues and the number of clients, a client    *)
(* of GET /events that was not cut off has been sent, or has waiting for   *)
(* it, exactly the events published since it subscribed, in their order.   *)
THEOREM NothingMissed == EvSpec => []NoGap
<1>1. StreamInv => NoGap
  BY Zenon DEF StreamInv, StreamOf, NoGap, Listens, Whole, Since
<1> QED
  BY <1>1, InitStream, NextStream, PTL DEF EvSpec

Places == {"idle", "count", "select", "write", "cancel", "unsubscribe", "done"}

(* The clients that listenerCount stands for, between the two atomic       *)
(* additions of Watch and of the function it returns.                      *)
Counted == {c \in Clients : getEvents[c] \in {"select", "write", "cancel"}}

(* The types of EvTypeOK but for the counter, with the queues as functions; *)
QueueTypes ==
  /\ published \in 0..MaxEvents
  /\ getEvents \in [Clients -> Places]
  /\ subscribed \in [Clients -> BOOLEAN]
  /\ since \in [Clients -> 0..MaxEvents]
  /\ cut \in [Clients -> BOOLEAN] /\ outClosed \in [Clients -> BOOLEAN]
  /\ waiting \in [Clients -> Seq(Numbers)]
  /\ writing \in [Clients -> Seq(Numbers)]
  /\ offered \in [Clients -> Seq(Numbers)]
  /\ sent \in [Clients -> Seq(Numbers)]

(* the bounds of the queues;                                               *)
QueueBounds ==
  \A c \in Clients :
    Len(waiting[c]) <= QueueLimit /\ Len(writing[c]) <= 1 /\ Len(offered[c]) <= 1

(* and the counter, which is exact.                                        *)
QueueInv == QueueTypes /\ QueueBounds /\ listenerCount = Cardinality(Counted)

(* The initial states satisfy QueueInv.                                    *)
LEMMA InitQueue == EvInit => QueueInv
<1> SUFFICES ASSUME EvInit PROVE QueueInv
  BY Zenon
<1>1. QueueTypes
  BY EventsAssumption, EmptySeq DEF EvInit, QueueTypes, Places
<1>2. QueueBounds
  BY EventsAssumption DEF EvInit, QueueBounds
<1>3. Counted = {}
  BY Zenon DEF EvInit, Counted
<1>4. Cardinality(Counted) = 0
  BY <1>3, FS_EmptySet, Zenon
<1> QED
  BY <1>1, <1>2, <1>4, Zenon DEF QueueInv, EvInit

(* A request that goes from one place to another, neither of them counted  *)
(* or both, leaves the set of those counted.                               *)
LEMMA CountedStays ==
  ASSUME QueueTypes, NEW c \in Clients, NEW p \in Places, GoOn(c, p),
         getEvents[c] \in {"select", "write", "cancel"}
           <=> p \in {"select", "write", "cancel"}
  PROVE  Counted' = Counted
<1>1. /\ getEvents'[c] = p
      /\ \A d \in Clients : d # c => getEvents'[d] = getEvents[d]
  BY Zenon DEF GoOn, QueueTypes
<1> QED
  BY <1>1, Zenon DEF Counted

(* The set of those counted is finite, and its size a number.              *)
LEMMA CountedSize == IsFiniteSet(Counted) /\ Cardinality(Counted) \in 0..Cardinality(Clients)
<1>1. Counted \subseteq Clients /\ IsFiniteSet(Clients)
  BY EventsAssumption, Zenon DEF Counted
<1>2. IsFiniteSet(Counted) /\ Cardinality(Counted) <= Cardinality(Clients)
  BY <1>1, FS_Subset, Zenon
<1>3. Cardinality(Counted) \in Nat /\ Cardinality(Clients) \in Nat
  BY <1>1, <1>2, FS_CardinalityType, Zenon
<1> QED
  BY <1>2, <1>3

(* The counter goes up when a client enters the set and down when it       *)
(* leaves.                                                                 *)
LEMMA CountedMoves ==
  ASSUME QueueInv, NEW c \in Clients, Count(c) \/ Uncount(c)
  PROVE  listenerCount' = Cardinality(Counted')
<1>0. /\ IsFiniteSet(Counted) /\ listenerCount = Cardinality(Counted)
      /\ Cardinality(Counted) \in Nat
  BY CountedSize DEF QueueInv
<1>1. CASE Count(c)
  <2>1. c \notin Counted /\ Counted' = Counted \cup {c}
    BY <1>1, Zenon DEF Count, GoOn, QueueInv, QueueTypes, Counted
  <2>2. Cardinality(Counted \cup {c}) = Cardinality(Counted) + 1
    BY <1>0, <2>1, FS_AddElement, Zenon
  <2> QED
    BY <1>0, <1>1, <2>1, <2>2 DEF Count
<1>2. CASE Uncount(c)
  <2>1. c \in Counted /\ Counted' = Counted \ {c}
    BY <1>2, Zenon DEF Uncount, GoOn, QueueInv, QueueTypes, Counted
  <2>2. Cardinality(Counted \ {c}) = Cardinality(Counted) - 1
    BY <1>0, <2>1, FS_RemoveElement, Zenon
  <2> QED
    BY <1>0, <1>2, <2>1, <2>2 DEF Uncount
<1> QED
  BY <1>1, <1>2, Zenon

(* The other steps leave it, and the set.                                  *)
LEMMA CountedKept ==
  ASSUME QueueInv, NEW c \in Clients, EvStep(c), ~Count(c), ~Uncount(c)
  PROVE  listenerCount' = Cardinality(Counted')
<1>1. listenerCount' = listenerCount
  BY Zenon DEF EvStep, Subscribe, Take, Offer, Timeout, CloseOutChan, Receive, Written, EndOfStream,
               Leave, Unsubscribe
<1>2. \/ getEvents' = getEvents
      \/ \E p \in Places :
           /\ GoOn(c, p)
           /\ getEvents[c] \in {"select", "write", "cancel"}
                <=> p \in {"select", "write", "cancel"}
  BY Zenon DEF EvStep, Subscribe, Take, Offer, Timeout, CloseOutChan, Receive, Written, EndOfStream,
               Leave, Unsubscribe, Places
<1>3. Counted' = Counted
  BY <1>2, CountedStays, Zenon DEF Counted, QueueInv
<1> QED
  BY <1>1, <1>3, Zenon DEF QueueInv

(* An event is published: it is appended where there is room.              *)
LEMMA HandleQueue ==
  ASSUME QueueInv, Handle
  PROVE  QueueInv'
<1>1. published' \in Numbers /\ published' \in 0..MaxEvents
  BY EventsAssumption DEF Handle, QueueInv, QueueTypes, Numbers
<1>2. ASSUME NEW c \in Clients
      PROVE  waiting'[c] \in Seq(Numbers) /\ Len(waiting'[c]) <= QueueLimit
  <2>1. waiting[c] \in Seq(Numbers) /\ Len(waiting[c]) <= QueueLimit
    BY Zenon DEF QueueInv, QueueTypes, QueueBounds
  <2>2. /\ Append(waiting[c], published') \in Seq(Numbers)
        /\ Len(Append(waiting[c], published')) = Len(waiting[c]) + 1
        /\ Len(waiting[c]) \in Nat
    BY <1>1, <2>1, AppendProperties, LenProperties
  <2>3. waiting'[c] = IF subscribed[c] /\ HasRoom(c)
                      THEN Append(waiting[c], published') ELSE waiting[c]
    BY Zenon DEF Handle
  <2> QED
    BY <2>1, <2>2, <2>3, EventsAssumption DEF HasRoom
<1>3. waiting' \in [Clients -> Seq(Numbers)]
  <2>1. DOMAIN waiting' = Clients /\ waiting' = [c \in Clients |-> waiting'[c]]
    BY Zenon DEF Handle
  <2> QED
    BY <1>2, <2>1, Zenon
<1>4. cut' \in [Clients -> BOOLEAN]
  BY Zenon DEF Handle, QueueInv, QueueTypes
<1>5. UNCHANGED <<listenerCount, getEvents, subscribed, since, writing, offered, outClosed, sent>>
  BY Zenon DEF Handle
<1>6. QueueTypes'
  BY <1>1, <1>3, <1>4, <1>5, Zenon DEF QueueInv, QueueTypes
<1>7. QueueBounds'
  BY <1>2, <1>5, Zenon DEF QueueInv, QueueBounds
<1>8. Counted' = Counted
  BY <1>5, Zenon DEF Counted
<1> QED
  BY <1>5, <1>6, <1>7, <1>8, Zenon DEF QueueInv

(* A request and its queue take a step: they keep their types and bounds,  *)
(* because the queue only gives events away and each of the two goroutines *)
(* between it and the client takes one only when it has none.              *)
LEMMA StepQueue ==
  ASSUME QueueInv, NEW c \in Clients, EvStep(c)
  PROVE  QueueTypes' /\ QueueBounds'
<1>0. /\ waiting[c] \in Seq(Numbers) /\ writing[c] \in Seq(Numbers)
      /\ offered[c] \in Seq(Numbers) /\ sent[c] \in Seq(Numbers)
      /\ Len(waiting[c]) <= QueueLimit /\ Len(writing[c]) <= 1 /\ QueueTypes /\ QueueBounds
  BY Zenon DEF QueueInv, QueueTypes, QueueBounds
<1>1. published' = published
  BY Zenon DEF EvStep, Subscribe, Count, Take, Offer, Timeout, CloseOutChan, Receive, Written,
               EndOfStream, Leave, Uncount, Unsubscribe
<1>2. getEvents' \in [Clients -> Places]
  <2>1. getEvents' = getEvents \/ \E p \in Places : GoOn(c, p)
    BY Zenon DEF EvStep, Subscribe, Count, Take, Offer, Timeout, CloseOutChan, Receive, Written,
                 EndOfStream, Leave, Uncount, Unsubscribe, Places
  <2> QED
    BY <1>0, <2>1, Zenon DEF GoOn, QueueTypes
<1>3. since' \in [Clients -> 0..MaxEvents]
  <2>1. since' = since \/ since' = [since EXCEPT ![c] = published]
    BY Zenon DEF EvStep, Subscribe, Count, Take, Offer, Timeout, CloseOutChan, Receive, Written,
                 EndOfStream, Leave, Uncount, Unsubscribe
  <2> QED
    BY <1>0, <2>1, Zenon DEF QueueTypes
<1>4. /\ subscribed' \in [Clients -> BOOLEAN] /\ cut' \in [Clients -> BOOLEAN]
      /\ outClosed' \in [Clients -> BOOLEAN]
  <2>1. /\ subscribed' = subscribed \/ \E b \in BOOLEAN : subscribed' = [subscribed EXCEPT ![c] = b]
        /\ cut' = cut \/ \E b \in BOOLEAN : cut' = [cut EXCEPT ![c] = b]
        /\ outClosed' = outClosed \/ \E b \in BOOLEAN : outClosed' = [outClosed EXCEPT ![c] = b]
    BY Zenon DEF EvStep, Subscribe, Count, Take, Offer, Timeout, CloseOutChan, Receive, Written,
                 EndOfStream, Leave, Uncount, Unsubscribe
  <2> QED
    BY <1>0, <2>1, Zenon DEF QueueTypes
<1>5. \/ UNCHANGED <<waiting, writing, offered, sent>>
      \/ /\ waiting' = [waiting EXCEPT ![c] = <<>>] /\ writing' = [writing EXCEPT ![c] = <<>>]
         /\ UNCHANGED <<offered, sent>>
      \/ Take(c) \/ Timeout(c) \/ Offer(c) \/ Receive(c)
  BY Zenon DEF EvStep, Subscribe, Count, CloseOutChan, Written, EndOfStream, Leave, Uncount,
               Unsubscribe
<1>6. /\ waiting' \in [Clients -> Seq(Numbers)] /\ writing' \in [Clients -> Seq(Numbers)]
      /\ offered' \in [Clients -> Seq(Numbers)] /\ sent' \in [Clients -> Seq(Numbers)]
      /\ QueueBounds'
  <2>0. <<>> \in Seq(Numbers) /\ Len(<<>>) = 0
    BY EmptySeq, Zenon
  <2>1. CASE UNCHANGED <<waiting, writing, offered, sent>>
    BY <1>0, <2>1, Zenon DEF QueueTypes, QueueBounds
  <2>2. ASSUME writing' = [writing EXCEPT ![c] = <<>>]
        PROVE  /\ writing' \in [Clients -> Seq(Numbers)]
               /\ \A d \in Clients : Len(writing'[d]) <= 1
    <3>1. writing' \in [Clients -> Seq(Numbers)] /\ writing'[c] = <<>>
          /\ \A d \in Clients : d # c => writing'[d] = writing[d]
      BY <1>0, <2>0, <2>2, Zenon DEF QueueTypes
    <3> QED
      BY <1>0, <2>0, <3>1 DEF QueueBounds
  <2>3. ASSUME writing' = [writing EXCEPT ![c] = <<>>],
               waiting' = [waiting EXCEPT ![c] = <<>>], UNCHANGED <<offered, sent>>
        PROVE  /\ waiting' \in [Clients -> Seq(Numbers)] /\ writing' \in [Clients -> Seq(Numbers)]
               /\ offered' \in [Clients -> Seq(Numbers)] /\ sent' \in [Clients -> Seq(Numbers)]
               /\ QueueBounds'
    <3>1. waiting' \in [Clients -> Seq(Numbers)] /\ waiting'[c] = <<>>
          /\ \A d \in Clients : d # c => waiting'[d] = waiting[d]
      BY <1>0, <2>0, <2>3, Zenon DEF QueueTypes
    <3>2. Len(waiting'[c]) <= QueueLimit
      BY <2>0, <3>1, EventsAssumption
    <3>3. \A d \in Clients : Len(waiting'[d]) <= QueueLimit
      BY <1>0, <3>1, <3>2, Zenon DEF QueueBounds
    <3> QED
      BY <1>0, <2>2, <2>3, <3>1, <3>3, Zenon DEF QueueTypes, QueueBounds
  <2>4. CASE Take(c)
    <3>1. /\ Head(waiting[c]) \in Numbers /\ Tail(waiting[c]) \in Seq(Numbers)
          /\ Len(Tail(waiting[c])) = Len(waiting[c]) - 1
      BY <1>0, <2>4, HeadTailProperties, Zenon DEF Take
    <3>2. Len(waiting[c]) \in Nat
      BY <1>0, LenProperties, Zenon
    <3>3. Len(Tail(waiting[c])) <= QueueLimit
      BY <1>0, <3>1, <3>2, EventsAssumption
    <3>4. <<Head(waiting[c])>> \in Seq(Numbers) /\ Len(<<Head(waiting[c])>>) = 1
      BY <3>1
    <3>5. /\ waiting' = [waiting EXCEPT ![c] = Tail(waiting[c])]
          /\ writing' = [writing EXCEPT ![c] = <<Head(waiting[c])>>]
          /\ UNCHANGED <<offered, sent>>
      BY <2>4, Zenon DEF Take
    <3>6. /\ waiting' \in [Clients -> Seq(Numbers)] /\ waiting'[c] = Tail(waiting[c])
          /\ writing' \in [Clients -> Seq(Numbers)] /\ writing'[c] = <<Head(waiting[c])>>
          /\ \A d \in Clients : d # c => waiting'[d] = waiting[d] /\ writing'[d] = writing[d]
      BY <1>0, <3>1, <3>4, <3>5, Zenon DEF QueueTypes
    <3> QED
      BY <1>0, <3>3, <3>4, <3>5, <3>6 DEF QueueTypes, QueueBounds
  <2>5. ASSUME offered' = [offered EXCEPT ![c] = writing[c]],
               writing' = [writing EXCEPT ![c] = <<>>], UNCHANGED <<waiting, sent>>
        PROVE  /\ waiting' \in [Clients -> Seq(Numbers)] /\ writing' \in [Clients -> Seq(Numbers)]
               /\ offered' \in [Clients -> Seq(Numbers)] /\ sent' \in [Clients -> Seq(Numbers)]
               /\ QueueBounds'
    <3>1. /\ offered' \in [Clients -> Seq(Numbers)] /\ offered'[c] = writing[c]
          /\ \A d \in Clients : d # c => offered'[d] = offered[d]
      BY <1>0, <2>5, Zenon DEF QueueTypes
    <3> QED
      BY <1>0, <2>2, <2>5, <3>1, Zenon DEF QueueTypes, QueueBounds
  <2>6. CASE Timeout(c) \/ Offer(c)
    <3>1. /\ writing' = [writing EXCEPT ![c] = <<>>] /\ UNCHANGED <<waiting, sent>>
          /\ UNCHANGED offered \/ offered' = [offered EXCEPT ![c] = writing[c]]
      BY <2>6, Zenon DEF Timeout, Offer
    <3>2. CASE UNCHANGED offered
      BY <1>0, <2>2, <3>1, <3>2, Zenon DEF QueueTypes, QueueBounds
    <3> QED
      BY <2>5, <3>1, <3>2, Zenon
  <2>7. CASE Receive(c)
    <3>1. sent[c] \o offered[c] \in Seq(Numbers) /\ <<>> \in Seq(Numbers) /\ Len(<<>>) = 0
      BY <1>0, ConcatProperties, EmptySeq, Zenon
    <3>2. /\ sent' = [sent EXCEPT ![c] = sent[c] \o offered[c]]
          /\ waiting' = waiting /\ writing' = writing /\ offered' = [offered EXCEPT ![c] = <<>>]
      BY <2>7, Zenon DEF Receive
    <3>3. /\ offered' \in [Clients -> Seq(Numbers)] /\ offered'[c] = <<>>
          /\ \A d \in Clients : d # c => offered'[d] = offered[d]
      BY <1>0, <3>1, <3>2, Zenon DEF QueueTypes
    <3>4. sent' \in [Clients -> Seq(Numbers)]
      BY <1>0, <3>1, <3>2, Zenon DEF QueueTypes
    <3> QED
      BY <1>0, <3>1, <3>2, <3>3, <3>4 DEF QueueTypes, QueueBounds
  <2> QED
    BY <1>5, <2>1, <2>3, <2>4, <2>6, <2>7, Zenon
<1> QED
  BY <1>0, <1>1, <1>2, <1>3, <1>4, <1>6, Zenon DEF QueueTypes

(* Every step preserves QueueInv.                                          *)
LEMMA NextQueue == QueueInv /\ [EvNext]_evVars => QueueInv'
<1> SUFFICES ASSUME QueueInv, [EvNext]_evVars PROVE QueueInv'
  BY Zenon
<1>1. CASE UNCHANGED evVars
  BY <1>1, Zenon DEF evVars, QueueInv, QueueTypes, QueueBounds, Counted
<1>2. ASSUME NEW c \in Clients, EvStep(c)
      PROVE  QueueInv'
  <2>1. listenerCount' = Cardinality(Counted')
    BY <1>2, CountedMoves, CountedKept, Zenon
  <2> QED
    BY <1>2, <2>1, StepQueue, Zenon DEF QueueInv
<1> QED
  BY <1>1, <1>2, HandleQueue, Zenon DEF EvNext

(* The counter of listeners, a uint64 that is raised and lowered by atomic *)
(* additions without a lock, is at every moment the number of requests     *)
(* between the two: it never falls below zero, which would wrap it around. *)
(* And no queue grows past its limit, whatever the number of clients.      *)
THEOREM ListenersCounted == EvSpec => [](EvTypeOK /\ listenerCount = Cardinality(Counted))
<1>1. QueueInv => EvTypeOK /\ listenerCount = Cardinality(Counted)
  BY CountedSize, Zenon DEF QueueInv, QueueTypes, QueueBounds, EvTypeOK, Places
<1> QED
  BY <1>1, InitQueue, NextQueue, PTL DEF EvSpec
-----------------------------------------------------------------------------
(* Replication.  A step changes what belongs to one manager, and the       *)
(* invariant says of each manager what its goroutines know of each other.  *)

(* What the properties rest on: a manager that is down runs nothing, and   *)
(* the news of a loss is handled before the next election is.              *)
LoopFollows ==
  \A m \in Managers :
    /\ setup[m] = "down" => campaign[m] = "off" /\ runLoop[m] = "idle"
    /\ runLoop[m] = "lost" => campaign[m] \in {"locking", "won"}

IInv == TypeOK /\ OneWatchdog /\ NoLostWakeup /\ LeaderServes /\ LoopFollows

(* The steps of main, of campaign and of the loop of run.                  *)
ElectionStep(m) ==
  setupReplication(m) \/ SetHandlerLast(m) \/ Election(m) \/ runError(m)
-----------------------------------------------------------------------------
(* The initial states satisfy the invariant.                               *)
LEMMA InitIInv == Init => IInv
BY SMT DEF Init, IInv, TypeOK, OneWatchdog, NoLostWakeup, LeaderServes, LoopFollows,
           Idle, At

-----------------------------------------------------------------------------
(* Steps of the goroutines that campaign preserve the invariant: what they *)
(* change is of one manager, and requests and primaries stay.              *)
LEMMA ElectionSteps ==
  ASSUME IInv, NEW m \in Managers, ElectionStep(m)
  PROVE  IInv'
<1>1. /\ primary' = primary /\ req' = req /\ seen' = seen
      /\ cancelled' = cancelled /\ crashes' = crashes
  BY DEF ElectionStep, setupReplication, SetHandlerLast, Election, runError, Lock,
         LoseLock, runElected, runLost, runSetHandler, follower, serving
<1>2. NoLostWakeup'
  BY <1>1, Zenon DEF IInv, NoLostWakeup
<1>3. CASE setupReplication(m)
  BY <1>1, <1>2, <1>3, SMT
     DEF IInv, TypeOK, OneWatchdog, LeaderServes, LoopFollows, setupReplication
<1>4. CASE SetHandlerLast(m)
  BY <1>1, <1>2, <1>4, SMT
     DEF IInv, TypeOK, OneWatchdog, LeaderServes, LoopFollows, SetHandlerLast, election
<1>5. CASE Lock(m)
  BY <1>1, <1>2, <1>5, SMT
     DEF IInv, TypeOK, OneWatchdog, LeaderServes, LoopFollows, Lock, Move
<1>6. CASE LoseLock(m)
  BY <1>1, <1>2, <1>6, SMT
     DEF IInv, TypeOK, OneWatchdog, LeaderServes, LoopFollows, LoseLock, Move
<1>7. CASE runElected(m)
  <2>1. ~watchdog[m]
    BY <1>7 DEF runElected, Move, IInv, OneWatchdog
  <2> QED
    BY <1>1, <1>2, <1>7, <2>1, SMTT(60)
       DEF IInv, TypeOK, OneWatchdog, LeaderServes, LoopFollows, runElected, Move,
           NewWatchdog
<1>8. CASE runLost(m)
  BY <1>1, <1>2, <1>8, SMT
     DEF IInv, TypeOK, OneWatchdog, LeaderServes, LoopFollows, runLost, Move,
         UnregisterEventHandler
<1>9. CASE runSetHandler(m)
  BY <1>1, <1>2, <1>9, SMT
     DEF IInv, TypeOK, OneWatchdog, LeaderServes, LoopFollows, runSetHandler
<1>10. CASE runError(m)
  <2>1. ~watchdog[m]
    BY <1>10, Zenon DEF runError, Move, IInv, OneWatchdog
  <2> QED
    BY <1>1, <1>2, <1>10, <2>1, SMT
       DEF IInv, TypeOK, OneWatchdog, LeaderServes, LoopFollows, runError, Move
<1> QED
  BY <1>3, <1>4, <1>5, <1>6, <1>7, <1>8, <1>9, <1>10 DEF ElectionStep, Election

(* A crash preserves the invariant: what the manager had in memory is      *)
(* gone, and its requests have ended.                                      *)
LEMMA CrashStep ==
  ASSUME IInv, NEW m \in Managers, Crash(m)
  PROVE  IInv'
<1>1. TypeOK'
  BY SMT DEF IInv, TypeOK, Crash, Done
<1>2. OneWatchdog' /\ LeaderServes' /\ LoopFollows'
  BY SMT DEF IInv, TypeOK, OneWatchdog, LeaderServes, LoopFollows, Crash
<1>3. NoLostWakeup'
  <2> SUFFICES ASSUME NEW r \in Requests, NEW n \in Managers,
                      req'[r] = At(n, "waiting")
               PROVE  primary'[n] = None
    BY Zenon DEF NoLostWakeup, At
  <2>1. req[r] = At(n, "waiting")
    BY SMTT(60) DEF Crash, Done, At, IInv, TypeOK
  <2>2. primary[n] = None
    BY <2>1, Zenon DEF IInv, NoLostWakeup
  <2> QED
    BY <2>2, SMTT(60) DEF Crash, IInv, TypeOK
<1> QED
  BY <1>1, <1>2, <1>3 DEF IInv

(* The session's end and the follower's news preserve the invariant; the   *)
(* news of a primary wakes all who wait for one.                           *)
LEMMA FollowSteps ==
  ASSUME IInv,
         Expire \/ \E m \in Managers : FollowerFails(m) \/ follow(m)
  PROVE  IInv'
<1>1. /\ campaign' = campaign /\ runLoop' = runLoop /\ watchdog' = watchdog
      /\ orphans' = orphans /\ setup' = setup /\ handler' = handler
  BY Zenon DEF Expire, FollowerFails, follow, election
<1>2. OneWatchdog' /\ LeaderServes' /\ LoopFollows'
  BY <1>1 DEF IInv, OneWatchdog, LeaderServes, LoopFollows
<1>3. CASE Expire
  BY <1>2, <1>3, SMT DEF IInv, TypeOK, NoLostWakeup, Expire, follower, serving
<1>4. ASSUME NEW m \in Managers, FollowerFails(m)
      PROVE  IInv'
  BY <1>2, <1>4, SMT DEF IInv, TypeOK, NoLostWakeup, FollowerFails, election, serving
<1>5. ASSUME NEW m \in Managers, follow(m)
      PROVE  IInv'
  <2>1. TypeOK'
    BY <1>5, SMT DEF IInv, TypeOK, follow, SetPrimary, Broadcast, At, election
  <2>2. NoLostWakeup'
    <3> SUFFICES ASSUME NEW r \in Requests, NEW n \in Managers,
                        req'[r] = At(n, "waiting")
                 PROVE  primary'[n] = None
      BY Zenon DEF NoLostWakeup, At
    <3>1. req[r] = At(n, "waiting")
      BY <1>5, SMT DEF follow, SetPrimary, Broadcast, At, IInv, TypeOK
    <3>2. primary[n] = None
      BY <3>1 DEF IInv, NoLostWakeup
    <3>3. store = None \/ n # m
      BY <1>5, <3>1, SMT DEF follow, SetPrimary, Broadcast, At, IInv, TypeOK
    <3> QED
      BY <1>5, <3>2, <3>3, SMT DEF follow, SetPrimary, IInv, TypeOK
  <2> QED
    BY <1>2, <2>1, <2>2 DEF IInv
<1> QED
  BY <1>3, <1>4, <1>5, Zenon

(* What requests do preserves the invariant: one begins to wait only where *)
(* no primary is known.                                                    *)
LEMMA RequestSteps ==
  ASSUME IInv, NEW r \in Requests,
         Cancel(r) \/ \E m \in Managers : Send(r, m) \/ Serving(r, m)
  PROVE  IInv'
<1>1. /\ UNCHANGED <<store, campaign, runLoop, watchdog, orphans, seen, primary, setup,
                     handler, crashes>>
  BY SMTT(60) DEF Cancel, Send, Serving, Dispatch, getPrimary, election, follower
<1>2. OneWatchdog' /\ LeaderServes' /\ LoopFollows'
  BY <1>1 DEF IInv, OneWatchdog, LeaderServes, LoopFollows
<1>3. CASE Cancel(r)
  BY <1>1, <1>2, <1>3, SMT DEF IInv, TypeOK, NoLostWakeup, Cancel
<1>4. ASSUME NEW m \in Managers, Send(r, m) \/ Serving(r, m)
      PROVE  IInv'
  <2>1. \/ req' = [req EXCEPT ![r] = Done]
        \/ \E p \in Managers, pc \in {"arrived", "deciding"} :
             req' = [req EXCEPT ![r] = At(p, pc)]
        \/ primary[m] = None /\ req' = [req EXCEPT ![r] = At(m, "waiting")]
    <3>1. CASE Send(r, m)
      BY <3>1, Zenon DEF Send
    <3>2. CASE Dispatch(r, m)
      BY <3>2 DEF Dispatch, Finish, Goto
    <3>3. CASE getPrimary(r, m)
      BY <3>3, SMTT(60) DEF getPrimary, Finish, Goto, IInv, TypeOK
    <3> QED
      BY <1>4, <3>1, <3>2, <3>3 DEF Serving
  <2>2. cancelled' = cancelled
    BY <1>4 DEF Send, Serving, Dispatch, getPrimary
  <2>3. TypeOK'
    BY <1>1, <2>1, <2>2, SMT DEF IInv, TypeOK, Done, At
  <2>4. NoLostWakeup'
    BY <1>1, <2>1, SMT DEF IInv, TypeOK, NoLostWakeup, Done, At
  <2> QED
    BY <1>2, <2>3, <2>4 DEF IInv
<1> QED
  BY <1>3, <1>4, SMTT(60)
-----------------------------------------------------------------------------
(* Every step, and every step that changes nothing, preserves the          *)
(* invariant.                                                              *)
LEMMA NextIInv == IInv /\ [Next]_vars => IInv'
<1> SUFFICES ASSUME IInv, [Next]_vars PROVE IInv'
  BY Zenon
<1>1. CASE UNCHANGED vars
  BY <1>1 DEF vars, election, follower, serving, IInv, TypeOK, OneWatchdog, NoLostWakeup,
              LeaderServes, LoopFollows
<1>2. CASE Next
  BY <1>2, ElectionSteps, CrashStep, FollowSteps, RequestSteps, Zenon DEF Next, ElectionStep
<1> QED
  BY <1>1, <1>2, SMTT(60)

(* All the invariants hold in every reachable state.                       *)
LEMMA Invariance == Spec => []IInv
BY InitIInv, NextIInv, PTL DEF Spec

(* The variables of Replication keep their types, whatever the number of   *)
(* managers, requests and crashes.                                         *)
THEOREM TypeCorrect == Spec => []TypeOK
<1>1. IInv => TypeOK
  BY Zenon DEF IInv
<1> QED
  BY <1>1, Invariance, PTL

(* A leader has exactly one watchdog registered, and a manager that has    *)
(* heard of its loss has none: run unregisters on every loss, and an       *)
(* election error never finds one registered.                              *)
THEOREM WatchdogOnce == Spec => []OneWatchdog
<1>1. IInv => OneWatchdog
  BY DEF IInv
<1> QED
  BY <1>1, Invariance, PTL

(* No request waits for a primary at a manager that knows one: the test of *)
(* getPrimary and the broadcast of SetPrimary exclude each other.          *)
THEOREM WakeupsArrive == Spec => []NoLostWakeup
<1>1. IInv => NoLostWakeup
  BY DEF IInv
<1> QED
  BY <1>1, Invariance, PTL

(* A manager whose loop has handled its election serves requests itself,   *)
(* although setupReplication sets the handler too, at any later time.      *)
THEOREM LeadersServe == Spec => []LeaderServes
<1>1. IInv => LeaderServes
  BY Zenon DEF IInv
<1> QED
  BY <1>1, Invariance, PTL
=============================================================================
