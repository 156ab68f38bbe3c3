------------------------------ MODULE LocalHost ------------------------------
(***************************************************************************)
(* One running local terminal: the threads of its host between the pseudo  *)
(* console and the pipe (host.rs, serve), the task of the desktop at the   *)
(* other end (mod.rs, start_host), and the thread that writes the accepted *)
(* commands to the history (commands.rs, Recorder).                        *)
(***************************************************************************)
EXTENDS Integers, Sequences

CONSTANTS MaxPrinted,   \* bound: what the shell prints
          QueueSize,    \* the host's queue of responses, 8 in the code
          JobsSize,     \* the queue of the history's thread, 128 in the code
          None

VARIABLES shell,     \* "runs", or "exited" by itself
          printed,   \* what it printed: kinds, numbered by their place
          pty,       \* places still in the pseudo console
          console,   \* the console is open
          folded,    \* the reader's observer waits for the end of a command of several lines
          hand,      \* responses the reader has still to send
          reader,    \* it runs
          queue,     \* responses, the writer takes them out
          main,      \* the host's own thread: "loop", "close", "join", "report", "end"
          ended,     \* end of the task of the desktop, or "no"
          shown,     \* places the terminal was given
          counted,   \* the command record() has counted and not yet queued
          pending, jobs, writing,
          accepted,  \* commands it was given
          known,     \* those written, or reported as failed
          drain      \* "no", "waits", "done", "late"

shellVars  == <<shell, printed>>
hostVars   == <<pty, console, folded, hand, reader, queue, main>>
taskVars   == <<ended, shown>>
recordVars == <<counted, pending, jobs, writing, accepted, known>>
vars == <<shellVars, hostVars, taskVars, recordVars, drain>>

\* Data, and the notices of the shell; one printed again, with a sequence number
\* that was seen, is data.
Kinds == {"data", "command", "continuation", "prompt"}

Init ==
  /\ shell = "runs" /\ printed = <<>> /\ pty = <<>> /\ console = TRUE
  /\ folded = FALSE /\ hand = <<>> /\ reader = TRUE
  /\ queue = <<>> /\ main = "loop" /\ ended = "no" /\ shown = <<>>
  /\ counted = None /\ pending = 0 /\ jobs = <<>> /\ writing = None
  /\ accepted = {} /\ known = {} /\ drain = "no"

\* Killing the host kills all of it at once.
HostRuns == ended = "no"
-----------------------------------------------------------------------------
\* The host.

Prints(kind) ==
  /\ HostRuns /\ shell = "runs" /\ main = "loop" /\ Len(printed) < MaxPrinted
  /\ printed' = Append(printed, kind) /\ pty' = Append(pty, Len(printed) + 1)
  /\ UNCHANGED <<shell, console, folded, hand, reader, queue, main, taskVars, recordVars, drain>>

ShellExits ==
  /\ HostRuns /\ shell = "runs" /\ main = "loop" /\ shell' = "exited"
  /\ UNCHANGED <<printed, hostVars, taskVars, recordVars, drain>>

\* One read of the reader: the commands in it, then its bytes.
Read ==
  /\ HostRuns /\ reader /\ hand = <<>> /\ pty # <<>> /\ pty' = Tail(pty)
  /\ LET place == Head(pty)  kind == printed[Head(pty)]
     IN  /\ folded' = (IF kind = "data" THEN folded ELSE kind = "continuation")
         /\ hand' = (IF kind = "command" /\ ~folded THEN <<[kind |-> "command", place |-> place]>> ELSE <<>>)
                      \o <<[kind |-> "data", place |-> place]>>
  /\ UNCHANGED <<shellVars, console, reader, queue, main, taskVars, recordVars, drain>>

Send ==
  /\ HostRuns /\ hand # <<>> /\ Len(queue) < QueueSize
  /\ queue' = Append(queue, Head(hand)) /\ hand' = Tail(hand)
  /\ UNCHANGED <<shellVars, pty, console, folded, reader, main, taskVars, recordVars, drain>>

\* End of the output, after the console is closed.
ReadEnd ==
  /\ HostRuns /\ reader /\ hand = <<>> /\ pty = <<>> /\ ~console /\ reader' = FALSE
  /\ UNCHANGED <<shellVars, pty, console, folded, hand, queue, main, taskVars, recordVars, drain>>

Step(at, to) == HostRuns /\ main = at /\ main' = to

\* The loop sees the exit, ends what is left of the job.
Seen ==
  /\ Step("loop", "close") /\ shell = "exited"
  /\ UNCHANGED <<shellVars, pty, console, folded, hand, reader, queue, taskVars, recordVars, drain>>

\* Changed: the reader is joined while the console is open.
JoinFirst ==
  /\ Step("close", "join") /\ ~reader /\ console' = FALSE
  /\ UNCHANGED <<shellVars, pty, folded, hand, reader, queue, taskVars, recordVars, drain>>

\* ClosePseudoConsole returns when what was printed has been read.
Close ==
  /\ Step("close", "join") /\ pty = <<>> /\ console' = FALSE
  /\ UNCHANGED <<shellVars, pty, folded, hand, reader, queue, taskVars, recordVars, drain>>

Join ==
  /\ Step("join", "report") /\ ~reader
  /\ UNCHANGED <<shellVars, pty, console, folded, hand, reader, queue, taskVars, recordVars, drain>>

\* Changed: the exit is reported past the responses in the queue.
ReportAtOnce ==
  /\ Step("report", "end") /\ ended' = "exited"
  /\ UNCHANGED <<shellVars, pty, console, folded, hand, reader, queue, shown, recordVars, drain>>

\* The writer reports the exit when the queue is closed and empty.
Report ==
  /\ Step("report", "end") /\ queue = <<>> /\ counted = None /\ ended' = "exited"
  /\ UNCHANGED <<shellVars, pty, console, folded, hand, reader, queue, shown, recordVars, drain>>
-----------------------------------------------------------------------------
\* The task of the desktop.

Receive ==
  /\ HostRuns /\ queue # <<>> /\ counted = None /\ queue' = Tail(queue)
  /\ IF Head(queue).kind = "data"
     THEN shown' = Append(shown, Head(queue).place) /\ UNCHANGED <<counted, pending, accepted>>
     ELSE /\ counted' = Head(queue).place /\ pending' = pending + 1
          /\ accepted' = accepted \cup {Head(queue).place} /\ UNCHANGED shown
  /\ UNCHANGED <<shellVars, pty, console, folded, hand, reader, main, ended, jobs, writing, known, drain>>

\* try_send; what does not fit is reported.
Queued ==
  /\ counted # None /\ counted' = None
  /\ IF Len(jobs) < JobsSize THEN jobs' = Append(jobs, counted) /\ UNCHANGED <<pending, known>>
     ELSE pending' = pending - 1 /\ known' = known \cup {counted} /\ UNCHANGED jobs
  /\ UNCHANGED <<shellVars, hostVars, taskVars, writing, accepted, drain>>

\* Stopped, cancelled, or an error of the pipe or of the window's channel; the
\* host is killed.
Stopped ==
  /\ HostRuns /\ counted = None /\ ended' \in {"stopped", "failed"}
  /\ UNCHANGED <<shellVars, hostVars, shown, recordVars, drain>>
-----------------------------------------------------------------------------
\* The thread of the history, and the end of the desktop.

\* Changed: a command no longer counts once it is taken from the queue.
TakeUncounts ==
  /\ writing = None /\ jobs # <<>> /\ writing' = Head(jobs) /\ jobs' = Tail(jobs) /\ pending' = pending - 1
  /\ UNCHANGED <<shellVars, hostVars, taskVars, counted, accepted, known, drain>>

Take ==
  /\ writing = None /\ jobs # <<>> /\ writing' = Head(jobs) /\ jobs' = Tail(jobs)
  /\ UNCHANGED <<shellVars, hostVars, taskVars, counted, pending, accepted, known, drain>>

Written ==
  /\ writing # None /\ writing \notin known /\ known' = known \cup {writing}
  /\ UNCHANGED <<shellVars, hostVars, taskVars, counted, pending, jobs, writing, accepted, drain>>

Uncount ==
  /\ writing # None /\ writing \in known /\ writing' = None /\ pending' = pending - 1
  /\ UNCHANGED <<shellVars, hostVars, taskVars, counted, jobs, accepted, known, drain>>

Quit == drain = "no" /\ drain' = "waits" /\ UNCHANGED <<shellVars, hostVars, taskVars, recordVars>>
Drained ==
  /\ drain = "waits" /\ drain' \in {"done", "late"} /\ (drain' = "done" => pending = 0)
  /\ UNCHANGED <<shellVars, hostVars, taskVars, recordVars>>

Next ==
  \/ \E kind \in Kinds : Prints(kind)
  \/ ShellExits \/ Read \/ Send \/ ReadEnd \/ Seen \/ Close \/ Join \/ Report
  \/ Receive \/ Queued \/ Stopped \/ Take \/ Written \/ Uncount \/ Quit \/ Drained

\* Every thread and task runs; the shell and the user need not.
Fairness ==
  /\ WF_vars(Read) /\ WF_vars(Send) /\ WF_vars(ReadEnd) /\ WF_vars(Seen) /\ WF_vars(Close) /\ WF_vars(Join)
  /\ WF_vars(Report) /\ WF_vars(Receive) /\ WF_vars(Queued)
-----------------------------------------------------------------------------
\* The exit of the shell is the last thing the terminal is told: all that was
\* printed has been shown before, in order.
ExitLast == ended = "exited" => shown = [n \in 1..Len(printed) |-> n]

\* A shell that exited is reported, however full the queues were.
ExitTold == shell = "exited" ~> ended # "no"

\* A drain that did not give up waited for every command accepted before it.
DrainWaits == [][(drain' = "done" /\ drain # "done") => accepted \subseteq known]_vars
=============================================================================
