------------------------------ MODULE SshChannel ------------------------------
(***************************************************************************)
(* One channel of an SSH connection: that of a terminal, of a sample of the *)
(* device, or of a command of an agent.  The terminal's is opened by two    *)
(* requests whose answers may come after the first output; then a worker    *)
(* reads it in batches and, beside that, writes what a queue of controls    *)
(* asks for.  Output is in units, input and resizes are numbered together. *)
(***************************************************************************)
EXTENDS Integers, SequencesExt

CONSTANTS MaxOutput,  \* bound: units the other side prints
          Batch,      \* MAX_TERMINAL_OUTPUT_BATCH_BYTES
          MaxPending, \* MAX_PENDING_TERMINAL_MESSAGES
          Queue,      \* capacity of the queue of controls
          MaxTyped,   \* bound: inputs of the user
          Limit       \* MAX_EXEC_OUTPUT_BYTES, MAX_MCP_EXEC_OUTPUT_BYTES

VARIABLES kind,       \* "terminal", "sample" or "command"
          step,       \* of the client
          cause,      \* what the window was told at the end
          server,     \* the request it has to answer, or what it runs
          printed, erred, \* units of its two streams
          network,    \* messages on their way to the client
          linked,     \* the connection is there
          open,       \* the server keeps the channel
          pending, batch, due, shown, \* the reader; due: its flush has a deadline
          errors, truncated,          \* of a command
          controls, typed, writer, got, room, \* the writer; room: the server's window
          caller, registered,         \* a disconnect, and the entry it takes
          window                      \* the bridge accepts output

reader    == <<pending, batch, due, shown>>
input     == <<controls, typed, writer, got, room>>
leaving   == <<caller, registered>>
command   == <<errors, truncated>>
outside   == <<server, printed, erred>>
transport == <<network, linked, open>>
vars == <<kind, step, cause, reader, input, leaving, command, outside, transport, window>>

Close == 0  \* among the controls
Message(type, units) == [type |-> type, units |-> units]
Units(from, n) == [i \in 1..n |-> from + i]

Init ==
  /\ kind = "none" /\ step = "none" /\ cause = "none" /\ server = "idle" /\ printed = 0 /\ erred = 0
  /\ network = <<>> /\ linked = TRUE /\ open = FALSE
  /\ pending = <<>> /\ batch = <<>> /\ due = FALSE /\ shown = <<>> /\ errors = <<>> /\ truncated = FALSE
  /\ controls = <<>> /\ typed = 0 /\ writer = 0 /\ got = <<>> /\ room = FALSE
  /\ caller = "none" /\ registered = FALSE /\ window = TRUE

\* channel_open_session, and the first request.
Open(k) ==
  /\ step = "none" /\ kind' = k /\ open' = TRUE
  /\ IF k = "terminal" THEN step' = "pty" /\ server' = "pty" ELSE step' = "collect" /\ server' = "runs"
  /\ UNCHANGED <<cause, printed, erred, network, linked, reader, input, leaving, command, window>>
-----------------------------------------------------------------------------
(* The other side.  Its shell may print before the request is answered.     *)

Send(type, units) == network' = Append(network, Message(type, units))

Answers ==
  /\ UNCHANGED <<printed, erred>>
  /\ \/ server = "pty" /\ Send("success", <<>>) /\ server' = "idle"
     \/ server = "early" /\ Send("success", <<>>) /\ server' = "runs"
     \/ server \in {"pty", "shell"} /\ Send("failure", <<>>) /\ server' = "idle"

Starts == server = "shell" /\ server' = "early" /\ UNCHANGED <<printed, erred, network>>

Prints ==
  /\ server \in {"early", "runs"} /\ UNCHANGED server
  /\ \E n \in 1..MaxOutput - printed - erred :
       \/ Send("data", Units(printed, n)) /\ printed' = printed + n /\ UNCHANGED erred
       \/ /\ kind = "command" /\ UNCHANGED printed
          /\ Send("extended", Units(erred, n)) /\ erred' = erred + n

\* The status may be missing; an end of the output is one for a terminal.
Exits ==
  /\ server = "runs" /\ server' = "exited" /\ UNCHANGED <<printed, erred>>
  /\ \E how \in {<<"exit", "close">>, <<"close">>} :
       network' = network \o [i \in DOMAIN how |-> Message(how[i], <<>>)]

Server ==
  /\ open /\ linked /\ (Answers \/ Starts \/ Prints \/ Exits)
  /\ UNCHANGED <<kind, step, cause, linked, open, reader, input, leaving, command, window>>

\* The server reads its input, and opens its window again.
ReadsInput ==
  /\ open /\ linked /\ ~room /\ room' = TRUE
  /\ UNCHANGED <<kind, step, cause, reader, controls, typed, writer, got, leaving, command, outside, transport, window>>

\* The connection breaks; what has not arrived is lost.
Break ==
  /\ open /\ linked /\ linked' = FALSE /\ open' = FALSE
  /\ \E n \in 0..Len(network) : network' = SubSeq(network, 1, n)
  /\ UNCHANGED <<kind, step, cause, reader, input, leaving, command, outside, window>>

\* The window is destroyed.
LoseWindow ==
  /\ registered /\ window /\ window' = FALSE
  /\ UNCHANGED <<kind, step, cause, reader, input, leaving, command, outside, transport>>
-----------------------------------------------------------------------------
(* The start of a terminal.                                                 *)

\* The messages that come before an answer are kept for the reader.
KeepNone(m) == pending' = pending /\ step' = step
Keep(m) ==
  IF Len(pending) >= MaxPending THEN step' = "failed" /\ UNCHANGED pending
  ELSE pending' = Append(pending, m) /\ UNCHANGED step

\* wait_for_channel_success.
Answered ==
  /\ step \in {"pty", "shell"} /\ network # <<>> /\ network' = Tail(network)
  /\ LET m == Head(network)
     IN CASE m.type = "success" ->
               /\ step' = (IF step = "pty" THEN "shell" ELSE "sftp") /\ UNCHANGED pending
               /\ server' = IF step = "pty" THEN "shell" ELSE server
          [] m.type \in {"failure", "close"} -> step' = "failed" /\ UNCHANGED <<pending, server>>
          [] OTHER -> Keep(m) /\ UNCHANGED server
  /\ UNCHANGED <<kind, cause, printed, erred, linked, open, batch, due, shown, input, leaving, command, window>>

\* TERMINAL_REQUEST_TIMEOUT, or the end of the connection.
Unanswered ==
  /\ step \in {"pty", "shell"} /\ network = <<>> /\ step' = "failed"
  /\ UNCHANGED <<kind, cause, reader, input, leaving, command, outside, transport, window>>

\* register_connection_if_current, and the worker starts.
Register ==
  /\ step = "sftp" /\ step' = "runs" /\ registered' = TRUE
  /\ UNCHANGED <<kind, cause, reader, input, caller, command, outside, transport, window>>

\* An attempt that failed drops its connection.
Drop ==
  /\ step = "failed" /\ step' = "over" /\ linked' = FALSE /\ open' = FALSE
  /\ UNCHANGED <<kind, cause, network, reader, input, leaving, command, outside, window>>
-----------------------------------------------------------------------------
(* run_terminal_reader: the output goes to the bridge in batches, which are *)
(* full, or as old as the deadline, or before something else.               *)

End(how) == step' = "ended" /\ cause' = how

\* flush_terminal_output; without a window the worker ends with nobody to tell.
Flush(units, then) ==
  IF units = <<>> THEN then /\ UNCHANGED shown
  ELSE IF window THEN then /\ shown' = shown \o units
  ELSE End("nobody") /\ UNCHANGED shown

Stay == UNCHANGED <<step, cause>>

\* next_terminal_message; a broken connection reads as its end.
Readable == pending # <<>> \/ network # <<>> \/ ~linked
NextMessage == IF pending # <<>> THEN Head(pending) ELSE IF network # <<>> THEN Head(network) ELSE Message("close", <<>>)
Taken ==
  IF pending # <<>> THEN pending' = Tail(pending) /\ UNCHANGED network
  ELSE UNCHANGED pending /\ network' = IF network # <<>> THEN Tail(network) ELSE network

\* TerminalOutputBatch::append until the message is used up.
Full(n) == n - (n % Batch)

\* The deadline belongs to the first unit of a batch: a full one takes it away.
DueOnce(units)  == Len(batch \o units) < Batch
DueAfter(units) == Len(batch \o units) % Batch # 0

ReadData ==
  /\ NextMessage.type \in {"data", "extended"} /\ Taken
  /\ LET all  == batch \o NextMessage.units
         full == Full(Len(all))
     IN /\ batch' = SubSeq(all, full + 1, Len(all)) /\ due' = DueAfter(NextMessage.units)
        /\ Flush(SubSeq(all, 1, full), Stay)

\* The end of the reader: whatever it has is shown before.
Ending(type, then) ==
  /\ NextMessage.type = type /\ Taken /\ batch' = <<>> /\ due' = FALSE /\ Flush(batch, then)

ReadEnd ==
  \/ Ending("exit", End("exit")) \/ Ending("close", End("closed"))
  \/ Ending("failure", End("error")) \/ Ending("success", Stay)

Read ==
  /\ step = "runs" /\ Readable /\ (ReadData \/ ReadEnd)
  /\ UNCHANGED <<kind, input, leaving, command, outside, linked, open, window>>

Deadline ==
  /\ step = "runs" /\ due /\ due' = FALSE /\ batch' = <<>> /\ Flush(batch, Stay)
  /\ UNCHANGED <<kind, pending, input, leaving, command, outside, transport, window>>
-----------------------------------------------------------------------------
(* The input: write_terminal and resize_terminal, and run_terminal_writer.  *)

Type ==
  /\ registered /\ step = "runs" /\ typed < MaxTyped /\ Len(controls) < Queue
  /\ typed' = typed + 1 /\ controls' = Append(controls, typed + 1)
  /\ UNCHANGED <<kind, step, cause, reader, writer, got, room, leaving, command, outside, transport, window>>

\* A control; a channel that is closed ends the worker.
Take ==
  /\ step = "runs" /\ writer = 0 /\ controls # <<>> /\ controls' = Tail(controls)
  /\ IF Head(controls) = Close THEN End("closed") /\ open' = FALSE /\ UNCHANGED writer
     ELSE writer' = Head(controls) /\ Stay /\ UNCHANGED open
  /\ UNCHANGED <<kind, reader, typed, got, room, leaving, command, outside, network, linked, window>>

\* The write waits for the window of the server, and fails with the connection.
Write ==
  /\ step = "runs" /\ writer # 0
  /\ \/ linked /\ room /\ got' = Append(got, writer) /\ room' = FALSE /\ writer' = 0 /\ Stay
     \/ ~linked /\ End("error") /\ UNCHANGED <<writer, got, room>>
  /\ UNCHANGED <<kind, reader, controls, typed, leaving, command, outside, transport, window>>

\* finish_connection, after the end was told.
Finish ==
  /\ step = "ended" /\ step' = "over" /\ registered' = FALSE
  /\ IF registered THEN linked' = FALSE /\ open' = FALSE ELSE UNCHANGED <<linked, open>>
  /\ UNCHANGED <<kind, cause, network, reader, input, caller, command, outside, window>>
-----------------------------------------------------------------------------
(* disconnect_connection: the entry, a Close for the worker, the connection. *)

Disconnect ==
  /\ caller = "none" /\ registered /\ registered' = FALSE /\ caller' = "close"
  /\ UNCHANGED <<kind, step, cause, reader, input, command, outside, transport, window>>

\* The queue has room, or nobody reads it any more.
SendClose ==
  /\ caller = "close" /\ caller' = "handle"
  /\ IF step = "runs" THEN Len(controls) < Queue /\ controls' = Append(controls, Close) ELSE UNCHANGED controls
  /\ UNCHANGED <<kind, step, cause, reader, typed, writer, got, room, registered, command, outside, transport, window>>

DisconnectHandle ==
  /\ caller = "handle" /\ caller' = "done" /\ linked' = FALSE /\ open' = FALSE
  /\ UNCHANGED <<kind, step, cause, network, reader, input, registered, command, outside, window>>
-----------------------------------------------------------------------------
(* exec and exec_command: the output of a command up to its end.            *)

\* append_limited.
Accepted(target, units, limit) ==
  IF Len(target) >= limit THEN target
  ELSE SubSeq(target \o units, 1, IF Len(target \o units) < limit THEN Len(target \o units) ELSE limit)

Cut(target, units, limit) == Accepted(target, units, limit) # target \o units

\* A sample that is too long is an error; it ends with the status.
Sampled(m) ==
  IF m.type = "data" /\ Len(shown) + Len(m.units) <= Limit
    THEN shown' = shown \o m.units /\ UNCHANGED step
  ELSE step' = (IF m.type \in {"data", "exit", "close"} THEN "closing" ELSE step) /\ UNCHANGED shown

Sample ==
  /\ kind = "sample" /\ step = "collect" /\ Readable /\ Taken /\ Sampled(NextMessage)
  /\ UNCHANGED <<kind, cause, batch, due, input, leaving, command, outside, linked, open, window>>

\* A command goes on to the end of the channel, and its output is cut.
CutOut(m) == truncated \/ Cut(shown, m.units, Limit)

Commanded(m) ==
  CASE m.type = "data" ->
         /\ shown' = Accepted(shown, m.units, Limit) /\ truncated' = CutOut(m) /\ UNCHANGED <<errors, step>>
    [] m.type = "extended" ->
         LET limit == IF Len(shown) < Limit THEN Limit - Len(shown) ELSE 0
         IN /\ errors' = Accepted(errors, m.units, limit) /\ UNCHANGED <<shown, step>>
            /\ truncated' = (truncated \/ Cut(errors, m.units, limit))
    [] OTHER -> step' = (IF m.type = "close" THEN "over" ELSE step) /\ UNCHANGED <<shown, command>>

Command ==
  /\ kind = "command" /\ step = "collect" /\ Readable /\ Taken /\ Commanded(NextMessage)
  /\ UNCHANGED <<kind, cause, batch, due, input, leaving, outside, linked, open, window>>

GiveUpDropped ==
  /\ step = "collect" /\ step' = "over"
  /\ UNCHANGED <<kind, cause, reader, input, leaving, command, outside, transport, window>>

\* A time-out, or the caller is dropped: DeviceExecChannel closes the channel, that of
\* a command is only dropped.
GiveUp ==
  /\ step = "collect" /\ step' = (IF kind = "sample" THEN "closing" ELSE "over")
  /\ UNCHANGED <<kind, cause, reader, input, leaving, command, outside, transport, window>>

CloseSample ==
  /\ step = "closing" /\ step' = "over" /\ open' = FALSE
  /\ UNCHANGED <<kind, cause, network, linked, reader, input, leaving, command, outside, window>>
-----------------------------------------------------------------------------
Next ==
  \/ \E k \in {"terminal", "sample", "command"} : Open(k)
  \/ Server \/ ReadsInput \/ Break \/ LoseWindow
  \/ Answered \/ Unanswered \/ Register \/ Drop
  \/ Read \/ Deadline \/ Type \/ Take \/ Write \/ Finish
  \/ Disconnect \/ SendClose \/ DisconnectHandle
  \/ Sample \/ Command \/ GiveUp \/ CloseSample

\* The tasks of the client run and time passes; the server owes nothing.
Fairness ==
  /\ WF_vars(Answered \/ Unanswered \/ Register \/ Drop \/ Finish) /\ WF_vars(Read) /\ WF_vars(Deadline)
  /\ WF_vars(GiveUp \/ CloseSample) /\ WF_vars(SendClose \/ DisconnectHandle)
-----------------------------------------------------------------------------
Arrived(queue) ==
  FlattenSeq([i \in DOMAIN queue |-> IF queue[i].type = "data" THEN queue[i].units ELSE <<>>])

\* From the first unit, printed before the shell is said to run, the output of a
\* terminal is shown in order and without a gap.
OutputKept ==
  kind = "terminal" /\ step \notin {"failed", "over", "ended"} /\ linked =>
    shown \o batch \o Arrived(pending) \o Arrived(network) = Units(0, printed)

\* The window is told of the exit of a shell after all that it printed.
ExitAfterOutput == cause = "exit" => shown = Units(0, printed)

\* An agent is told that the output of its command was cut when, and only when, it was.
CutTold ==
  kind = "command" /\ step = "over" /\ open /\ linked /\ server = "exited" /\ network = <<>> =>
    (truncated <=> Len(shown) < printed \/ Len(errors) < erred)

\* Output is shown although the server reads no input.
OutputFlows ==
  \A n \in 1..MaxOutput :
    kind = "terminal" /\ printed >= n /\ linked ~> Len(shown) >= n \/ step \in {"ended", "over"} \/ ~linked

\* The channel of a sample is closed however the sample ends (DeviceExecChannel).
SampleCloses == (kind = "sample" /\ step \notin {"none", "collect"}) ~> ~open

\* Not true of the code: that the worker, when its writer ends, shows what its reader
\* had ("after the last batch of output", run_terminal_reader), and that a disconnect
\* ends although the server reads no input.
TailShown == step = "over" /\ cause # "nobody" => batch = <<>>
DisconnectEnds == caller = "close" ~> caller = "done"
=============================================================================
