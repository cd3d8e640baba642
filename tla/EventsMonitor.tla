--------------------------- MODULE EventsMonitor ---------------------------
(***************************************************************************)
(* The goroutines that follow the events of one daemon                     *)
(* (cluster/event_monitor.go and StartMonitorEvents of cluster/engine.go). *)
(* Every attempt to connect an Engine object makes a new events monitor    *)
(* and may start goroutines that follow the stream of events.  They        *)
(* outlive the attempt, start themselves again when the stream breaks, and *)
(* end when the stop channel of their monitor is closed, which Disconnect  *)
(* does to the monitor the engine has at that time.                        *)
(***************************************************************************)
EXTENDS Naturals

CONSTANTS
  MaxAttempts,   \* bound: attempts to connect one Engine object
  MaxBreaks      \* bound: times that a stream of events breaks

ASSUME MonitorAssumption == MaxAttempts \in Nat \ {0} /\ MaxBreaks \in Nat

VARIABLES
  member,          \* "pending" or "installed" in the cluster's tables, "removed"
                   \* once disconnected, "crashed" after a panic
  connect,         \* where each validatePendingEngine is
  eventsMonitor,   \* e.eventsMonitor, by the attempt that made it; 0 is nil
  stopChans,       \* the monitors whose stopChan is closed
  follows,         \* what follows the events since each attempt: the monitor
                   \* that was started, and where its goroutines are
  breaks,          \* how often a stream has broken
  atDisconnect     \* history: e.eventsMonitor when Disconnect was called

monVars == <<member, connect, eventsMonitor, stopChans, follows, breaks, atDisconnect>>

Attempts == 1..MaxAttempts
Following(em, at) == [em |-> em, at |-> at]

MonTypeOK ==
  /\ member \in {"pending", "installed", "removed", "crashed"}
  /\ connect \in [Attempts -> {"none", "dial", "specs", "refresh", "over"}]
  /\ eventsMonitor \in 0..MaxAttempts
  /\ stopChans \subseteq Attempts
  /\ follows \in [Attempts -> [em : 0..MaxAttempts,
                               at : {"off", "select", "retry", "ended"}]]
  /\ breaks \in 0..MaxBreaks
  /\ atDisconnect \in 0..MaxAttempts

MonInit ==
  /\ member = "pending"
  /\ connect = [a \in Attempts |-> "none"]
  /\ eventsMonitor = 0
  /\ stopChans = {}
  /\ follows = [a \in Attempts |-> Following(0, "off")]
  /\ breaks = 0 /\ atDisconnect = 0
-----------------------------------------------------------------------------
(* validatePendingEngine: the first attempt is that of addEngine, the      *)
(* others are those of monitorPendingEngines, which does not look whether  *)
(* an earlier one still runs.                                              *)
Begin(a) ==
  /\ member = "pending"
  /\ connect[a] = "none" /\ \A b \in 1..(a - 1) : connect[b] # "none"
  /\ connect' = [connect EXCEPT ![a] = "dial"]
  /\ UNCHANGED <<member, eventsMonitor, stopChans, follows, breaks, atDisconnect>>

(* The address does not resolve, the daemon does not answer updateSpecs,   *)
(* or it does not list its containers or images.                           *)
Fail(a) ==
  /\ connect[a] \in {"dial", "specs", "refresh"}
  /\ connect' = [connect EXCEPT ![a] = "over"]
  /\ UNCHANGED <<member, eventsMonitor, stopChans, follows, breaks, atDisconnect>>

ConnectWithClient(a) ==
  /\ connect[a] = "dial"
  /\ connect' = [connect EXCEPT ![a] = "specs"]
  /\ eventsMonitor' = a
  /\ UNCHANGED <<member, stopChans, follows, breaks, atDisconnect>>

(* It starts the monitor the engine has now, which need not be the one     *)
(* this attempt made.                                                      *)
StartMonitorEvents(a) ==
  /\ connect[a] = "specs"
  /\ connect' = [connect EXCEPT ![a] = "refresh"]
  /\ follows' = [follows EXCEPT ![a] = Following(eventsMonitor, "select")]
  /\ UNCHANGED <<member, eventsMonitor, stopChans, breaks, atDisconnect>>

Disconnected_NotStopped ==
  /\ member' = "removed"
  /\ atDisconnect' = eventsMonitor
  /\ UNCHANGED stopChans
Disconnected ==
  /\ member' = "removed"
  /\ atDisconnect' = eventsMonitor
  /\ stopChans' = stopChans \cup {eventsMonitor}

(* The rest of validatePendingEngine: the engine is no longer pending, or  *)
(* another address has its ID, or this address has: then it disconnects.   *)
Commit(a) ==
  /\ connect[a] = "refresh"
  /\ connect' = [connect EXCEPT ![a] = "over"]
  /\ \/ UNCHANGED <<member, stopChans, atDisconnect>>
     \/ /\ member = "pending" /\ member' = "installed"
        /\ UNCHANGED <<stopChans, atDisconnect>>
     \/ member = "pending" /\ Disconnected
  /\ UNCHANGED <<eventsMonitor, follows, breaks>>

(* removeEngine calls Disconnect: without an events monitor that is a      *)
(* panic.                                                                  *)
DisconnectEngine ==
  /\ member \in {"pending", "installed"}
  /\ IF eventsMonitor = 0
     THEN member' = "crashed" /\ UNCHANGED <<stopChans, atDisconnect>>
     ELSE Disconnected
  /\ UNCHANGED <<connect, eventsMonitor, follows, breaks>>
-----------------------------------------------------------------------------
(* The goroutine of EventsMonitor.Start.  An event that it receives is     *)
(* handled and leaves all this as it is: Engine.handler does not fail.     *)

StreamBreaks_Final(a) ==
  /\ follows[a].at = "select" /\ breaks < MaxBreaks /\ breaks' = breaks + 1
  /\ follows' = [follows EXCEPT ![a].at = "ended"]
  /\ UNCHANGED <<member, connect, eventsMonitor, stopChans, atDisconnect>>
StreamBreaks(a) ==
  /\ follows[a].at = "select" /\ breaks < MaxBreaks /\ breaks' = breaks + 1
  /\ follows' = [follows EXCEPT ![a].at = "retry"]
  /\ UNCHANGED <<member, connect, eventsMonitor, stopChans, atDisconnect>>

StopReceived(a) ==
  /\ follows[a].at = "select" /\ follows[a].em \in stopChans
  /\ follows' = [follows EXCEPT ![a].at = "ended"]
  /\ UNCHANGED <<member, connect, eventsMonitor, stopChans, breaks, atDisconnect>>

(* The goroutine of StartMonitorEvents that received the error has waited, *)
(* and starts the monitor that the engine has by now.                      *)
Restart(a) ==
  /\ follows[a].at = "retry"
  /\ follows' = [follows EXCEPT ![a] = Following(eventsMonitor, "select")]
  /\ UNCHANGED <<member, connect, eventsMonitor, stopChans, breaks, atDisconnect>>

MonNext ==
  /\ member # "crashed"
  /\ \/ DisconnectEngine
     \/ \E a \in Attempts :
          Begin(a) \/ Fail(a) \/ ConnectWithClient(a) \/ StartMonitorEvents(a)
            \/ Commit(a) \/ StreamBreaks(a) \/ StopReceived(a) \/ Restart(a)

(* Timers fire, and a goroutine whose stop channel is closed goes through  *)
(* its select.                                                             *)
MonFairness == \A a \in Attempts : WF_monVars(Restart(a) \/ StopReceived(a))

MonSpec == MonInit /\ [][MonNext]_monVars /\ MonFairness
-----------------------------------------------------------------------------
(* An installed engine is never left without a goroutine that follows its  *)
(* events or is about to: however often the stream breaks and whichever    *)
(* attempts replaced the monitor meanwhile, StartMonitorEvents starts      *)
(* again.                                                                  *)
KeepsFollowing ==
  member = "installed" => \E a \in Attempts : follows[a].at \in {"select", "retry"}

(* When an engine is disconnected and no attempt to connect it is under    *)
(* way, whatever follows its last events monitor ends for good, and so     *)
(* does what waits to follow again: Disconnect closes a channel, which all *)
(* of them read, and a restart takes the monitor that was stopped.         *)
(* (Followers of an earlier monitor whose stream never breaks are not      *)
(* reached; nor is a monitor that a late attempt makes afterwards.)        *)
MonitoringStops ==
  <>[](/\ member = "removed" /\ eventsMonitor = atDisconnect
       /\ \A a \in Attempts : connect[a] \in {"none", "over"}
       => \A a \in Attempts :
            follows[a].em = eventsMonitor \/ follows[a].at = "retry"
            => follows[a].at \in {"off", "ended"})
=============================================================================
