----------------------------- MODULE DeviceMetrics -----------------------------
(***************************************************************************)
(* The curves of a remote device: each connection has a task that samples  *)
(* the device, one sample after the other, and keeps those of a window of  *)
(* time; a window of the program only reads them.  A connection that ends, *)
(* and the exit of the program, stop the task and forget what it has.      *)
(* Of a sample only the received bytes are modelled: all of it is missing  *)
(* together, and the network is what is compared with the sample before.   *)
(***************************************************************************)
EXTENDS Integers, SequencesExt

CONSTANTS Connections, Interfaces,
          Interval,   \* SAMPLE_INTERVAL
          Window,     \* HISTORY_WINDOW_MS
          MaxSamples, \* MAX_HISTORY_SAMPLES
          MaxTime,    \* bound: the clock
          MaxBytes,   \* bound: the bytes that were received
          None

VARIABLES listed,    \* connections in the registry; before and after that "new" and "gone"
          starting,  \* step of start_device_metrics
          monitor,   \* of each connection: its task, its state and when it samples next
          exit,      \* of the program: shutdown_device_metrics
          clock,
          log        \* all samples since the start: [at, reading]

vars == <<listed, starting, monitor, exit, clock, log>>

NoMetrics == [task |-> "none", stopped |-> FALSE, history |-> <<>>, base |-> None, reading |-> None, wake |-> 0]

Init ==
  /\ listed = [c \in Connections |-> "new"] /\ starting = [c \in Connections |-> "none"]
  /\ monitor = [c \in Connections |-> NoMetrics] /\ log = [c \in Connections |-> <<>>]
  /\ exit = "no" /\ clock = 0
-----------------------------------------------------------------------------
Time ==
  /\ clock < MaxTime /\ clock' = clock + 1
  /\ UNCHANGED <<listed, starting, monitor, exit, log>>

\* parse_network: the bytes of the interface with the default route, or of all of them.
\* Which it is does not belong to the sample; they may start again, the route may move.
Readings == [of : Interfaces \cup {None}, bytes : 0..MaxBytes]
-----------------------------------------------------------------------------
(* The connection and the start of its task.                                *)

List(c) ==
  /\ listed[c] = "new" /\ listed' = [listed EXCEPT ![c] = "listed"]
  /\ starting' = [starting EXCEPT ![c] = "looks"]
  /\ UNCHANGED <<monitor, exit, clock, log>>

\* start_device_metrics: the entry, the flag, and then the task.
Look(c) ==
  /\ starting[c] = "looks" /\ UNCHANGED <<listed, monitor, exit, clock, log>>
  /\ starting' = [starting EXCEPT ![c] = IF listed[c] = "listed" /\ exit = "no" THEN "starts" ELSE "none"]

\* Changed: a task is started for a monitor that was stopped.
StartAlways(c) ==
  /\ starting[c] = "starts" /\ starting' = [starting EXCEPT ![c] = "none"]
  /\ monitor' = [monitor EXCEPT ![c].task = "samples"]
  /\ UNCHANGED <<listed, exit, clock, log>>

\* start_with_timing.
Start(c) ==
  /\ starting[c] = "starts" /\ starting' = [starting EXCEPT ![c] = "none"]
  /\ monitor' = IF monitor[c].stopped THEN monitor ELSE [monitor EXCEPT ![c].task = "samples"]
  /\ UNCHANGED <<listed, exit, clock, log>>
-----------------------------------------------------------------------------
(* The task.                                                                *)

\* DeviceService.status; without an answer in SAMPLE_TIMEOUT there is no reading.
Answer(c) ==
  /\ monitor[c].task = "samples"
  /\ \E reading \in {None} \cup Readings : monitor' = [monitor EXCEPT ![c].task = "records", ![c].reading = reading]
  /\ UNCHANGED <<listed, starting, exit, clock, log>>

\* MetricsState::prune.
Pruned(history, now) ==
  LET recent == SelectSeq(history, LAMBDA s : s.at >= now - Window)
  IN IF Len(recent) <= MaxSamples THEN recent
     ELSE SubSeq(recent, Len(recent) - MaxSamples + 1, Len(recent))

Rate(reading, base) ==
  IF None \in {reading, base} THEN None
  ELSE IF reading.bytes < base.bytes THEN None ELSE reading.bytes - base.bytes

\* Changed: a sample that failed leaves what the next one is compared with.
RecordKeeps(m) ==
  [m EXCEPT !.history = Pruned(Append(@, [at |-> clock, rate |-> Rate(m.reading, m.base)]), clock),
            !.base = IF m.reading = None THEN @ ELSE m.reading]

\* MetricsState::record.
Recorded(m) ==
  IF m.history # <<>> /\ Last(m.history).at >= clock THEN [m EXCEPT !.base = None]
  ELSE [m EXCEPT !.history = Pruned(Append(@, [at |-> clock, rate |-> Rate(m.reading, m.base)]), clock),
                 !.base = m.reading]

\* Then it sleeps, from the end of the sample on; a stopped task ends.
Record(c) ==
  /\ monitor[c].task = "records"
  /\ IF monitor[c].stopped
     THEN monitor' = [monitor EXCEPT ![c].task = "over", ![c].reading = None] /\ UNCHANGED log
     ELSE /\ monitor' = [monitor EXCEPT ![c] =
                           [Recorded(@) EXCEPT !.task = "sleeps", !.wake = clock + Interval, !.reading = None]]
          /\ log' = [log EXCEPT ![c] = Append(@, [at |-> clock, reading |-> monitor[c].reading])]
  /\ UNCHANGED <<listed, starting, exit, clock>>

Wake(c) ==
  /\ monitor[c].task = "sleeps" /\ clock >= monitor[c].wake
  /\ monitor' = [monitor EXCEPT ![c].task = "samples"]
  /\ UNCHANGED <<listed, starting, exit, clock, log>>

\* device_metrics_snapshot.
Snapshot(c) ==
  /\ listed[c] = "listed" /\ ~monitor[c].stopped
  /\ monitor' = [monitor EXCEPT ![c].history = Pruned(@, clock)]
  /\ UNCHANGED <<listed, starting, exit, clock, log>>
-----------------------------------------------------------------------------
(* The end.                                                                 *)

\* stop: an abort ends a task where it waits.
Stopped(m) ==
  [NoMetrics EXCEPT !.stopped = TRUE, !.reading = m.reading,
                    !.task = IF m.task \in {"samples", "sleeps"} THEN "over" ELSE m.task]

\* take_connection.
Unlist(c) ==
  /\ listed[c] = "listed" /\ listed' = [listed EXCEPT ![c] = "gone"]
  /\ monitor' = [monitor EXCEPT ![c] = Stopped(@)] /\ log' = [log EXCEPT ![c] = <<>>]
  /\ UNCHANGED <<starting, exit, clock>>

\* shutdown_device_metrics: the flag, all tasks of the registry, and their ends.
Flag ==
  /\ exit = "no" /\ exit' = "flagged"
  /\ UNCHANGED <<listed, starting, monitor, clock, log>>

StopAll ==
  /\ exit = "flagged" /\ exit' = "stopping"
  /\ monitor' = [c \in Connections |-> IF listed[c] = "listed" THEN Stopped(monitor[c]) ELSE monitor[c]]
  /\ log' = [c \in Connections |-> IF listed[c] = "listed" THEN <<>> ELSE log[c]]
  /\ UNCHANGED <<listed, starting, clock>>

Ended ==
  /\ exit = "stopping" /\ \A c \in Connections : listed[c] = "listed" => monitor[c].task \in {"none", "over"}
  /\ exit' = "done" /\ UNCHANGED <<listed, starting, monitor, clock, log>>

Next ==
  \/ Time
  \/ \E c \in Connections :
       \/ List(c) \/ Look(c) \/ Start(c) \/ Answer(c) \/ Record(c) \/ Wake(c) \/ Snapshot(c) \/ Unlist(c)
  \/ Flag \/ StopAll \/ Ended
-----------------------------------------------------------------------------
\* What a connection that ended, or the exit of the program, stopped neither samples
\* nor remembers anything again, whatever a start or a sample was doing.
StaysStopped ==
  \A c \in Connections :
    listed[c] = "gone" \/ exit = "done" =>
      monitor[c].history = <<>> /\ monitor[c].task \notin {"samples", "sleeps"}

\* The curve is that of the samples: none of the window is missing, a rate is there if
\* and only if the sample and the one before have a reading, and it is their difference.
CurveTrue ==
  \A c \in Connections :
    LET all     == log[c]
        history == monitor[c].history
        first   == Len(all) - Len(history)
        rate(k) == IF k = 1 THEN None ELSE Rate(all[k].reading, all[k - 1].reading)
    IN /\ first >= 0 /\ Len(history) <= MaxSamples
       /\ \A k \in 1..first : all[k].at < clock - Window
       /\ \A k \in DOMAIN history : history[k] = [at |-> all[first + k].at, rate |-> rate(first + k)]

\* Not true of the code: that a rate is of one interface.
RateOfOne ==
  \A c \in Connections :
    LET all   == log[c]
        first == Len(all) - Len(monitor[c].history)
    IN \A k \in DOMAIN monitor[c].history :
         monitor[c].history[k].rate # None => all[first + k].reading.of = all[first + k - 1].reading.of
=============================================================================
