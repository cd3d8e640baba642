----------------------------- MODULE APIEvents -----------------------------
(***************************************************************************)
(* The stream of events that GET /events gives to a client                 *)
(* (cluster/api_events.go, getEvents of api/handlers.go).  A client has a  *)
(* queue of its own, so that a slow one delays neither the cluster nor the *)
(* other clients; it is cut off when its queue is full or when it takes no *)
(* event for ten seconds.  The queue is the vendored watch.Queue: an event *)
(* goes from the list of the LimitQueue to the goroutine that writes it to *)
(* the sink, and from there to the one that sends it on eventsChan.        *)
(***************************************************************************)
EXTENDS Naturals, Sequences, FiniteSets

CONSTANTS
  Clients,      \* requests for events
  QueueLimit,   \* defaultEventQueueLimit
  MaxEvents     \* bound: events published

ASSUME EventsAssumption ==
  QueueLimit \in Nat \ {0} /\ MaxEvents \in Nat /\ IsFiniteSet(Clients)

VARIABLES
  published,      \* events so far; they are numbered in this order
  listenerCount,
  getEvents,      \* where each request is
  subscribed,     \* its queue is one of the broadcaster's
  since,          \* published when it subscribed
  waiting,        \* the list of its LimitQueue, oldest first
  writing,        \* the event, if any, that LimitQueue.run writes to the sink
  offered,        \* the event, if any, that is being sent on eventsChan
  cut,            \* its queue was found full, or its sink timed out
  outClosed,      \* the channel eventsChan is closed
  sent            \* what w.Write was called with

evVars == <<published, listenerCount, getEvents, subscribed, since, waiting, writing,
            offered, cut, outClosed, sent>>

Numbers == 1..MaxEvents

EvTypeOK ==
  /\ published \in 0..MaxEvents
  /\ listenerCount \in 0..Cardinality(Clients)
  /\ getEvents \in [Clients -> {"idle", "count", "select", "write", "cancel",
                            "unsubscribe", "done"}]
  /\ subscribed \in [Clients -> BOOLEAN]
  /\ since \in [Clients -> 0..MaxEvents]
  /\ \A c \in Clients :
       /\ waiting[c] \in Seq(Numbers) /\ Len(waiting[c]) <= QueueLimit
       /\ writing[c] \in Seq(Numbers) /\ Len(writing[c]) <= 1
       /\ offered[c] \in Seq(Numbers) /\ Len(offered[c]) <= 1
       /\ sent[c] \in Seq(Numbers)
  /\ cut \in [Clients -> BOOLEAN] /\ outClosed \in [Clients -> BOOLEAN]

EvInit ==
  /\ published = 0 /\ listenerCount = 0
  /\ getEvents = [c \in Clients |-> "idle"]
  /\ subscribed = [c \in Clients |-> FALSE]
  /\ since = [c \in Clients |-> 0]
  /\ waiting = [c \in Clients |-> <<>>] /\ writing = [c \in Clients |-> <<>>]
  /\ offered = [c \in Clients |-> <<>>]
  /\ cut = [c \in Clients |-> FALSE]
  /\ outClosed = [c \in Clients |-> FALSE]
  /\ sent = [c \in Clients |-> <<>>]

GoOn(c, step) == getEvents' = [getEvents EXCEPT ![c] = step]
-----------------------------------------------------------------------------
(* APIEventHandler.Watch: the subscription, then the counter.              *)
Subscribe(c) ==
  /\ getEvents[c] = "idle" /\ GoOn(c, "count")
  /\ subscribed' = [subscribed EXCEPT ![c] = TRUE]
  /\ since' = [since EXCEPT ![c] = published]
  /\ UNCHANGED <<published, listenerCount, waiting, writing, offered, cut, outClosed, sent>>

Count(c) ==
  /\ getEvents[c] = "count" /\ GoOn(c, "select")
  /\ listenerCount' = listenerCount + 1
  /\ UNCHANGED <<published, subscribed, since, waiting, writing, offered, cut, outClosed, sent>>

(* Handle publishes the event: every queue that has room gets it, and the  *)
(* others are marked.                                                      *)
HasRoom(c) == Len(waiting[c]) < QueueLimit

Handle ==
  /\ published < MaxEvents /\ published' = published + 1
  /\ waiting' = [c \in Clients |-> IF subscribed[c] /\ HasRoom(c)
                                 THEN Append(waiting[c], published') ELSE waiting[c]]
  /\ cut' = [c \in Clients |-> cut[c] \/ (subscribed[c] /\ ~HasRoom(c))]
  /\ UNCHANGED <<listenerCount, getEvents, subscribed, since, writing, offered, outClosed,
                 sent>>

(* LimitQueue.run takes the next event off the list, unless it still       *)
(* writes the last one: this one no longer counts towards the limit.       *)
Take_Newest(c) ==
  /\ waiting[c] # <<>> /\ writing[c] = <<>>
  /\ writing' = [writing EXCEPT ![c] = <<waiting[c][Len(waiting[c])]>>]
  /\ waiting' = [waiting EXCEPT ![c] = SubSeq(waiting[c], 1, Len(waiting[c]) - 1)]
  /\ UNCHANGED <<published, listenerCount, getEvents, subscribed, since, offered, cut,
                 outClosed, sent>>
Take(c) ==
  /\ waiting[c] # <<>> /\ writing[c] = <<>>
  /\ writing' = [writing EXCEPT ![c] = <<Head(waiting[c])>>]
  /\ waiting' = [waiting EXCEPT ![c] = Tail(waiting[c])]
  /\ UNCHANGED <<published, listenerCount, getEvents, subscribed, since, offered, cut,
                 outClosed, sent>>

(* The goroutine of CallbackWatch receives it, and is busy until the       *)
(* client has.                                                             *)
Offer(c) ==
  /\ writing[c] # <<>> /\ offered[c] = <<>> /\ ~outClosed[c]
  /\ offered' = [offered EXCEPT ![c] = writing[c]]
  /\ writing' = [writing EXCEPT ![c] = <<>>]
  /\ UNCHANGED <<published, listenerCount, getEvents, subscribed, since, waiting, cut,
                 outClosed, sent>>

(* The sink's write has taken too long, or finds the sink closed already:  *)
(* the sink is closed and the event dropped, if it did not get through     *)
(* just now.                                                               *)
Timeout(c) ==
  /\ writing[c] # <<>> /\ ~outClosed[c]
  /\ cut' = [cut EXCEPT ![c] = TRUE]
  /\ \/ UNCHANGED offered
     \/ offered[c] = <<>> /\ offered' = [offered EXCEPT ![c] = writing[c]]
  /\ writing' = [writing EXCEPT ![c] = <<>>]
  /\ UNCHANGED <<published, listenerCount, getEvents, subscribed, since, waiting,
                 outClosed, sent>>

(* The goroutine finds the queue full or its sink closed: it closes the    *)
(* client's channel and unsubscribes, and what was queued is dropped.      *)
CloseOutChan_Keep(c) ==
  /\ cut[c] /\ subscribed[c] /\ offered[c] = <<>>
  /\ subscribed' = [subscribed EXCEPT ![c] = FALSE]
  /\ waiting' = [waiting EXCEPT ![c] = <<>>] /\ writing' = [writing EXCEPT ![c] = <<>>]
  /\ UNCHANGED <<published, listenerCount, getEvents, since, offered, cut, outClosed,
                 sent>>
CloseOutChan(c) ==
  /\ cut[c] /\ subscribed[c] /\ offered[c] = <<>> /\ ~outClosed[c]
  /\ outClosed' = [outClosed EXCEPT ![c] = TRUE]
  /\ subscribed' = [subscribed EXCEPT ![c] = FALSE]
  /\ waiting' = [waiting EXCEPT ![c] = <<>>] /\ writing' = [writing EXCEPT ![c] = <<>>]
  /\ UNCHANGED <<published, listenerCount, getEvents, since, offered, cut, sent>>
-----------------------------------------------------------------------------
(* The loop of getEvents: an event is received and written, which takes as *)
(* long as the client likes; the channel is closed; the client has gone or *)
(* its time is up.                                                         *)
Receive(c) ==
  /\ getEvents[c] = "select" /\ offered[c] # <<>> /\ GoOn(c, "write")
  /\ sent' = [sent EXCEPT ![c] = @ \o offered[c]]
  /\ offered' = [offered EXCEPT ![c] = <<>>]
  /\ UNCHANGED <<published, listenerCount, subscribed, since, waiting, writing, cut, outClosed>>

Written(c) ==
  /\ getEvents[c] = "write"
  /\ GoOn(c, "select") \/ GoOn(c, "cancel")
  /\ UNCHANGED <<published, listenerCount, subscribed, since, waiting, writing, offered, cut,
                 outClosed, sent>>

EndOfStream(c) ==
  /\ getEvents[c] = "select" /\ outClosed[c] /\ GoOn(c, "cancel")
  /\ UNCHANGED <<published, listenerCount, subscribed, since, waiting, writing, offered, cut,
                 outClosed, sent>>

Leave(c) ==
  /\ getEvents[c] = "select" /\ GoOn(c, "cancel")
  /\ UNCHANGED <<published, listenerCount, subscribed, since, waiting, writing, offered, cut,
                 outClosed, sent>>

(* The deferred cancel: the counter, then the library's cancel function.   *)
Uncount(c) ==
  /\ getEvents[c] = "cancel" /\ GoOn(c, "unsubscribe")
  /\ listenerCount' = listenerCount - 1
  /\ UNCHANGED <<published, subscribed, since, waiting, writing, offered, cut, outClosed, sent>>

Unsubscribe(c) ==
  /\ getEvents[c] = "unsubscribe" /\ GoOn(c, "done")
  /\ subscribed' = [subscribed EXCEPT ![c] = FALSE]
  /\ waiting' = [waiting EXCEPT ![c] = <<>>] /\ writing' = [writing EXCEPT ![c] = <<>>]
  /\ outClosed' = [outClosed EXCEPT ![c] = TRUE]
  /\ UNCHANGED <<published, listenerCount, since, offered, cut, sent>>

EvStep(c) ==
  \/ Subscribe(c) \/ Count(c) \/ Take(c) \/ Offer(c) \/ Timeout(c) \/ CloseOutChan(c)
  \/ Receive(c) \/ Written(c) \/ EndOfStream(c) \/ Leave(c) \/ Uncount(c) \/ Unsubscribe(c)

EvNext == Handle \/ \E c \in Clients : EvStep(c)

(* The steps that the scheduler of Go owes to goroutines that can run.  No *)
(* client need come or leave, and a write to it need not return.           *)
EvFairness ==
  \A c \in Clients :
    /\ WF_evVars(Count(c) \/ Receive(c) \/ EndOfStream(c) \/ Uncount(c) \/ Unsubscribe(c))
    /\ WF_evVars(CloseOutChan(c))

EvSpec == EvInit /\ [][EvNext]_evVars /\ EvFairness
-----------------------------------------------------------------------------
(* A client that listens and was not cut off misses nothing: what it was   *)
(* sent and what waits for it are all the events since it subscribed, in   *)
(* their order, however Handle interleaves with its reads.                 *)
NoGap ==
  \A c \in Clients :
    (getEvents[c] \in {"count", "select", "write"} /\ ~cut[c])
    => sent[c] \o offered[c] \o writing[c] \o waiting[c]
         = [i \in 1..(published - since[c]) |-> since[c] + i]

(* Clients that were cut off are told so: in the end their requests are    *)
(* over, unless a write to the client never returns.  Closing eventsChan   *)
(* is what ends the loop.                                                  *)
CutOffEnds ==
  <>[](\A c \in Clients :
         cut[c] /\ getEvents[c] # "idle" => getEvents[c] \in {"done", "write"})
=============================================================================
