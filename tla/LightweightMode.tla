-------------------------- MODULE LightweightMode --------------------------
(***************************************************************************)
(* Lightweight mode of FsTTY: the window is destroyed while terminals keep *)
(* running, and a later window continues every terminal where the old one  *)
(* stopped.  The module composes                                           *)
(*   - one LightweightTerminalBridge per terminal, which routes output to  *)
(*     a window channel or holds it back,                                  *)
(*   - the transaction of LightweightModeService (begin, append, commit,   *)
(*     abort, time out), which runs under the runtime lock,                *)
(*   - the window that draws the output, takes the snapshots and restores, *)
(*   - the SSH/PTY workers that emit output and end events at any time.    *)
(*                                                                         *)
(* Output is a sequence of units: the n-th unit a terminal emits is n.     *)
(* Sizes (per-terminal limit, global limit, parsed screen) count units.    *)
(***************************************************************************)
EXTENDS Naturals, Sequences, FiniteSets, FiniteSetsExt

CONSTANTS Terminals,        \* all terminals the model may connect
          Initial,          \* those connected when the model starts
          Breakable,        \* those whose window channel may fail
          TerminalLimit,    \* MAX_TERMINAL_CACHE_BYTES, in units
          GlobalLimit,      \* MAX_GLOBAL_CACHE_BYTES, in units
          ScreenSize,       \* screen_cache_bytes, in units
          MaxOutput,        \* bound: units a terminal emits
          MaxTransactions,  \* bound: begin calls that get a token
          DrainBeforeRetry  \* environment: a new attempt waits until the window
                            \* has consumed the barriers of earlier attempts

ASSUME FiniteAssumption == IsFiniteSet(Terminals)
ASSUME SubsetAssumption == Initial \subseteq Terminals /\ Breakable \subseteq Terminals
ASSUME LimitAssumption  == /\ TerminalLimit \in Nat
                           /\ GlobalLimit \in Nat
                           /\ ScreenSize \in 0..(TerminalLimit - 1)
ASSUME BoundAssumption  == MaxOutput \in Nat /\ MaxTransactions \in Nat
ASSUME DrainAssumption  == DrainBeforeRetry \in BOOLEAN

VARIABLES bridge,   \* [Terminals -> Bridge]   LightweightTerminalBridge.state
          tx,       \* LightweightTransaction, or NoTx
          op,       \* the service call that holds the runtime lock
          preserved,\* runtime.terminals: terminals a new window can attach
          active,   \* config.current.active
          timer,    \* [1..MaxTransactions -> ...]  the abort task begin spawns
          conn,     \* [Terminals -> ...]  connection and its worker
          emitted,  \* [Terminals -> Nat]  units emitted so far
          stream,   \* [Terminals -> Stream]  FIFO channel to the window
          window,   \* the main window: generation, open
          gui       \* the window's JavaScript state

vars == <<bridge, tx, op, preserved, active, timer, conn, emitted, stream, window, gui>>

Tokens == 1..MaxTransactions

-----------------------------------------------------------------------------
(* Channels.  `sent' is what the Rust side has put on the current channel,  *)
(* `shown' how much of it the window has written to its xterm; `barriers'   *)
(* are the positions of the empty messages that are still unread.           *)

Stream == [sent : Seq(Nat), shown : Nat, barriers : Seq(Nat),
           end : {"none", "queued", "shown"}]

Empty == [sent |-> <<>>, shown |-> 0, barriers |-> <<>>, end |-> "none"]

\* The first n units of a terminal's output.
Output(n) == [i \in 1..n |-> i]

\* What the window shows of terminal t.
Screen(t) == SubSeq(stream[t].sent, 1, stream[t].shown)

-----------------------------------------------------------------------------
(* Bridges.  `sink' is the window generation the bridge sends to, 0 when it *)
(* has none; a detached bridge with a sink can still fall back to it.       *)

Bridge == [mode : {"attached", "paused", "detached", "dead"}, sink : Nat,
           token : Nat, cache : Seq(Nat), full : Seq(Nat), parsed : Seq(Nat),
           truncated : BOOLEAN, ended : BOOLEAN]

Dead == [mode |-> "dead", sink |-> 0, token |-> 0, cache |-> <<>>, full |-> <<>>,
         parsed |-> <<>>, truncated |-> FALSE, ended |-> FALSE]

Attached(s) == [Dead EXCEPT !.mode = "attached", !.sink = s]

Paused(s, k) == [Dead EXCEPT !.mode = "paused", !.sink = s, !.token = k]

\* Bytes the terminal's caches have reserved from the transaction's budget.
Reserved(t) ==
  LET b == bridge[t]
  IN  IF b.mode = "detached" THEN Len(b.cache) + Len(b.full) + ScreenSize
                             ELSE Len(b.cache)

NoTx == [token |-> 0, terminals |-> {}, uploaded |-> {}, invalid |-> FALSE,
         full |-> [t \in Terminals |-> <<>>]]

\* CacheBudget.used: every cache and every uploaded snapshot.
Used == MapThenSumSet(LAMBDA t : Reserved(t) + Len(tx.full[t]), Terminals)

FitsTerminalOnly(size, limit) == size + 1 <= limit

\* CachedBytes::append succeeds for one more unit on a cache of length `size'.
Fits(size, limit) == size + 1 <= limit /\ Used + 1 <= GlobalLimit

\* A send on the terminal's sink succeeds.
Open(t, s) == window.open /\ s = window.gen /\ t \notin gui.broken

\* What a flush sends: the held output, then `extra'.
PendingNewestFirst(t, extra) == extra \o bridge[t].cache
PendingHeldLost(t, extra)    == extra
Pending(t, extra)            == bridge[t].cache \o extra

FlushFails(t, extra) == Pending(t, extra) # <<>> /\ ~Open(t, bridge[t].sink)

\* The pending output, then a pending end go to the sink; a failed send kills
\* the bridge, a failed end event does not matter.
Flush(t, extra) ==
  LET b == bridge[t]
  IN  IF FlushFails(t, extra)
      THEN bridge' = [bridge EXCEPT ![t] = Dead] /\ UNCHANGED stream
      ELSE /\ bridge' = [bridge EXCEPT ![t] = IF b.ended THEN Dead ELSE Attached(b.sink)]
           /\ stream' = [stream EXCEPT
                ![t].sent = @ \o Pending(t, extra),
                ![t].end  = IF b.ended /\ Open(t, b.sink) THEN "queued" ELSE @]

-----------------------------------------------------------------------------
(* The terminal worker.  It stops (ClientGone) when its bridge reports that *)
(* the window is gone, and leaves the connection registry a step later.     *)

\* Attached: straight to the window.
EmitAttached(t, unit) ==
  LET b == bridge[t]
  IN  /\ b.mode = "attached"
      /\ IF Open(t, b.sink)
         THEN stream' = [stream EXCEPT ![t].sent = Append(@, unit)] /\ UNCHANGED conn
         ELSE conn' = [conn EXCEPT ![t] = "closing"] /\ UNCHANGED stream
      /\ UNCHANGED <<bridge, tx>>

\* No room while the bridge can fall back: the transaction is lost, the window
\* gets everything.
EmitOverflow(t, unit) ==
  /\ tx' = [tx EXCEPT !.invalid = TRUE]
  /\ Flush(t, <<unit>>)
  /\ conn' = [conn EXCEPT ![t] = IF FlushFails(t, <<unit>>) THEN "closing" ELSE @]

EmitPaused(t, unit) ==
  LET b == bridge[t]
  IN  /\ b.mode = "paused"
      /\ IF Fits(Len(b.cache), TerminalLimit)
         THEN /\ bridge' = [bridge EXCEPT ![t].cache = Append(@, unit)]
              /\ UNCHANGED <<stream, tx, conn>>
         ELSE EmitOverflow(t, unit)

\* Detached: the parser follows the screen; once the fallback is gone, lack of
\* room folds the history into the screen.
EmitDetached(t, unit) ==
  LET b    == bridge[t]
      room == Fits(Len(b.cache) + Len(b.full) + ScreenSize, TerminalLimit)
      seen == [b EXCEPT !.parsed = Append(@, unit)]
  IN  /\ b.mode = "detached"
      /\ \/ /\ room /\ (b.sink # 0 \/ ~b.truncated)
            /\ bridge' = [bridge EXCEPT ![t] = [seen EXCEPT !.cache = Append(@, unit)]]
            /\ UNCHANGED <<stream, tx, conn>>
         \/ ~room /\ b.sink # 0 /\ EmitOverflow(t, unit)
         \/ /\ b.sink = 0 /\ (~room \/ b.truncated)
            /\ bridge' = [bridge EXCEPT ![t] =
                 [seen EXCEPT !.full = <<>>, !.cache = <<>>, !.truncated = TRUE]]
            /\ UNCHANGED <<stream, tx, conn>>

EmitDead(t) == bridge[t].mode = "dead" /\ UNCHANGED <<bridge, stream, tx, conn>>

EmitData(t) ==
  LET unit == emitted[t] + 1
  IN  /\ conn[t] = "running" /\ unit <= MaxOutput
      /\ emitted' = [emitted EXCEPT ![t] = unit]
      /\ \/ EmitAttached(t, unit)
         \/ EmitPaused(t, unit)
         \/ EmitDetached(t, unit)
         \/ EmitDead(t)
      /\ UNCHANGED <<op, preserved, active, timer, window, gui>>

\* The remote shell ends: a held terminal keeps the end for later.
EmitEnd(t) ==
  LET b == bridge[t]
  IN  /\ conn[t] = "running"
      /\ conn' = [conn EXCEPT ![t] = "closing"]
      /\ \/ /\ b.mode = "attached" /\ Open(t, b.sink)
            /\ stream' = [stream EXCEPT ![t].end = "queued"]
            /\ bridge' = [bridge EXCEPT ![t] = Dead]
         \/ /\ b.mode \in {"paused", "detached"}
            /\ bridge' = [bridge EXCEPT ![t].ended = TRUE]
            /\ UNCHANGED stream
         \/ /\ b.mode = "dead" \/ (b.mode = "attached" /\ ~Open(t, b.sink))
            /\ UNCHANGED <<bridge, stream>>
      /\ UNCHANGED <<tx, op, preserved, active, timer, emitted, window, gui>>

FinishConnection(t) ==
  /\ conn[t] = "closing"
  /\ conn' = [conn EXCEPT ![t] = "closed"]
  /\ UNCHANGED <<bridge, tx, op, preserved, active, timer, emitted, stream, window, gui>>

\* connect_session: refused (Busy) during a transaction and until a restore has
\* finished; holds the activity lock until it has answered.
Connect(t) ==
  /\ conn[t] = "absent" /\ window.open
  /\ tx = NoTx /\ ~active
  /\ conn' = [conn EXCEPT ![t] = "connecting"]
  /\ UNCHANGED <<bridge, tx, op, preserved, active, timer, emitted, stream, window, gui>>

ConnectReturns(t) ==
  /\ conn[t] = "connecting"
  /\ \/ /\ conn' = [conn EXCEPT ![t] = "running"]
        /\ bridge' = [bridge EXCEPT ![t] = Attached(window.gen)]
        /\ gui' = [gui EXCEPT !.connected = @ \cup {t}]
     \/ conn' = [conn EXCEPT ![t] = "absent"] /\ UNCHANGED <<bridge, gui>>
  /\ UNCHANGED <<tx, op, preserved, active, timer, emitted, stream, window>>

-----------------------------------------------------------------------------
(* The window: draws its channels in order, enters lightweight mode and,    *)
(* when it is created again, restores the preserved terminals.              *)

\* The next message of a channel is output, or the end of the terminal.
DataNext(s) == s.shown < Len(s.sent) /\ (s.barriers # <<>> => Head(s.barriers) > s.shown)

EndNextUnordered(s) == s.end = "queued"
EndNext(s) == s.end = "queued" /\ s.shown = Len(s.sent) /\ s.barriers = <<>>

ReceiveData(t) ==
  /\ window.open /\ t \notin gui.broken
  /\ DataNext(stream[t])
  /\ stream' = [stream EXCEPT ![t].shown = @ + 1]
  /\ UNCHANGED <<bridge, tx, op, preserved, active, timer, conn, emitted, window, gui>>

\* An empty message: it resolves the barrier the window waits for, if any.
ReceiveBarrier(t) ==
  LET s == stream[t]
  IN  /\ window.open /\ t \notin gui.broken
      /\ s.barriers # <<>> /\ Head(s.barriers) = s.shown
      /\ stream' = [stream EXCEPT ![t].barriers = Tail(@)]
      /\ gui' = [gui EXCEPT !.wait[t] = IF @ = "waiting" THEN "reached" ELSE @]
      /\ UNCHANGED <<bridge, tx, op, preserved, active, timer, conn, emitted, window>>

ReceiveEnd(t) ==
  /\ window.open /\ t \notin gui.broken
  /\ EndNext(stream[t])
  /\ stream' = [stream EXCEPT ![t].end = "shown"]
  /\ gui' = [gui EXCEPT !.connected = @ \ {t}]
  /\ UNCHANGED <<bridge, tx, op, preserved, active, timer, conn, emitted, window>>

\* The webview stops taking messages of one channel.
BreakChannel(t) ==
  /\ window.open /\ t \in Breakable /\ t \notin gui.broken
  /\ gui' = [gui EXCEPT !.broken = @ \cup {t}]
  /\ UNCHANGED <<bridge, tx, op, preserved, active, timer, conn, emitted, stream, window>>

NoWait == [t \in Terminals |-> "none"]

\* enterLightweightMode: every connected terminal gets a barrier to wait for,
\* then begin_lightweight_mode is called.
Enter ==
  /\ window.open /\ gui.pc = "idle" /\ gui.restoring = {}
  /\ \A t \in Terminals : conn[t] # "connecting"
  /\ DrainBeforeRetry => \A t \in Terminals : stream[t].barriers = <<>>
  /\ \E k \in Tokens : timer[k] = "unused"
  /\ gui' = [gui EXCEPT !.pc = "begin",
               !.wait = [t \in Terminals |-> IF t \in gui.connected THEN "waiting" ELSE "none"]]
  /\ UNCHANGED <<bridge, tx, op, preserved, active, timer, conn, emitted, stream, window>>

\* append_snapshot_chunk takes every chunk of the terminal's snapshot.
SnapshotAccepted(t) ==
  /\ tx.token = gui.token /\ timer[gui.token] = "pending" /\ ~tx.invalid
  /\ Len(Screen(t)) <= TerminalLimit /\ Used + Len(Screen(t)) <= GlobalLimit

\* capture: once the barrier has been read, the screen is serialized and
\* uploaded; an error makes the window abort.
Upload(t) ==
  /\ gui.pc = "capture" /\ t \in gui.todo /\ gui.wait[t] = "reached" /\ op.kind = "none"
  /\ IF SnapshotAccepted(t)
     THEN /\ tx' = [tx EXCEPT !.full[t] = Screen(t), !.uploaded = @ \cup {t}]
          /\ gui' = [gui EXCEPT !.todo = @ \ {t}, !.wait[t] = "none"]
     ELSE /\ gui' = [gui EXCEPT !.pc = "abort", !.wait[t] = "none"]
          /\ UNCHANGED tx
  /\ UNCHANGED <<bridge, op, preserved, active, timer, conn, emitted, stream, window>>

\* The barrier does not arrive within 55 s, or the terminal was replaced.
CaptureFails ==
  /\ gui.pc = "capture" /\ gui.todo # {}
  /\ gui' = [gui EXCEPT !.pc = "abort"]
  /\ UNCHANGED <<bridge, tx, op, preserved, active, timer, conn, emitted, stream, window>>

CaptureDone ==
  /\ gui.pc = "capture" /\ gui.todo = {}
  /\ gui' = [gui EXCEPT !.pc = "commit"]
  /\ UNCHANGED <<bridge, tx, op, preserved, active, timer, conn, emitted, stream, window>>

\* The tray or a second start opens the window again, with every channel new;
\* window_activation_guard waits for the end of a transaction.
Activate ==
  /\ ~window.open /\ tx = NoTx
  /\ window' = [gen |-> window.gen + 1, open |-> TRUE]
  /\ stream' = [t \in Terminals |-> Empty]
  /\ gui' = [gui EXCEPT !.pc = "idle", !.wait = NoWait, !.connected = {}, !.broken = {},
               !.restoring = preserved, !.failed = {}, !.finish = active]
  /\ UNCHANGED <<bridge, tx, op, preserved, active, timer, conn, emitted>>

-----------------------------------------------------------------------------
(* The service.  `op' is the call that holds the runtime lock; its `todo'   *)
(* are the bridges it has still to visit, in any order (HashMap).           *)

Idle == [kind |-> "none", by |-> "none", todo |-> {}]

\* Registered connections with a terminal bridge.
Live == {t \in Terminals : conn[t] \in {"running", "closing"}}

NextToken == Cardinality({k \in Tokens : timer[k] # "unused"}) + 1

\* begin_lightweight_mode is refused: nothing was paused.
BeginRefused ==
  /\ gui.pc = "begin" /\ op.kind = "none"
  /\ \/ \E t \in Terminals : conn[t] = "connecting"
     \/ tx # NoTx
     \/ preserved # {}
     \/ gui.connected # Live
  /\ gui' = [gui EXCEPT !.pc = "idle", !.wait = NoWait]
  /\ UNCHANGED <<bridge, tx, op, preserved, active, timer, conn, emitted, stream, window>>

Begin ==
  /\ gui.pc = "begin" /\ op.kind = "none"
  /\ \A t \in Terminals : conn[t] # "connecting"
  /\ tx = NoTx /\ preserved = {} /\ gui.connected = Live
  /\ tx' = [NoTx EXCEPT !.token = NextToken, !.terminals = Live]
  /\ timer' = [timer EXCEPT ![NextToken] = "done"]
  /\ op' = [kind |-> "pause", by |-> "begin", todo |-> Live]
  /\ UNCHANGED <<bridge, preserved, active, conn, emitted, stream, window, gui>>

\* bridge.pause: the barrier follows all earlier output on the channel.
Pause(t) ==
  LET b == bridge[t]
  IN  /\ op.kind = "pause" /\ t \in op.todo
      /\ IF b.mode = "attached" /\ Open(t, b.sink)
         THEN /\ bridge' = [bridge EXCEPT ![t] = Paused(b.sink, tx.token)]
              /\ stream' = [stream EXCEPT ![t].barriers = Append(@, Len(stream[t].sent))]
              /\ op' = [op EXCEPT !.todo = @ \ {t}]
         ELSE /\ op' = [op EXCEPT !.kind = "undo", !.todo = tx.terminals]
              /\ UNCHANGED <<bridge, stream>>
      /\ UNCHANGED <<tx, preserved, active, timer, conn, emitted, window, gui>>

\* begin answers with the token and leaves a task that aborts it after 60 s.
BeginDone ==
  /\ op.kind = "pause" /\ op.todo = {}
  /\ op' = Idle
  /\ timer' = [timer EXCEPT ![tx.token] = "pending"]
  /\ gui' = [gui EXCEPT !.pc = "capture", !.token = tx.token, !.todo = tx.terminals]
  /\ UNCHANGED <<bridge, tx, preserved, active, conn, emitted, stream, window>>

\* commit_lightweight_mode is refused: the transaction is not consumed.
CommitRefused ==
  /\ gui.pc = "commit" /\ op.kind = "none"
  /\ \/ tx.token # gui.token
     \/ timer[gui.token] # "pending"
     \/ tx.invalid
     \/ tx.uploaded # tx.terminals
  /\ gui' = [gui EXCEPT !.pc = "abort"]
  /\ UNCHANGED <<bridge, tx, op, preserved, active, timer, conn, emitted, stream, window>>

Commit ==
  /\ gui.pc = "commit" /\ op.kind = "none"
  /\ tx.token = gui.token /\ timer[gui.token] = "pending"
  /\ ~tx.invalid /\ tx.uploaded = tx.terminals
  /\ op' = [kind |-> "detach", by |-> "commit", todo |-> tx.terminals]
  /\ UNCHANGED <<bridge, tx, preserved, active, timer, conn, emitted, stream, window, gui>>

\* What the screen parser has processed when it takes over.
ReplaySnapshotOnly(t) == tx.full[t]
Replay(t)             == tx.full[t] \o bridge[t].cache

\* bridge.commit: the snapshot and the held output become the background cache;
\* the sink stays as fallback until the whole group is detached.
Detach(t) ==
  LET b    == bridge[t]
      full == tx.full[t]
      keep == Len(full) + Len(b.cache) + ScreenSize <= TerminalLimit
  IN  /\ op.kind = "detach" /\ t \in op.todo
      /\ IF b.mode = "paused" /\ b.token = tx.token /\ ~tx.invalid
            /\ Used + ScreenSize <= GlobalLimit
         THEN /\ bridge' = [bridge EXCEPT ![t] =
                   [b EXCEPT !.mode = "detached", !.parsed = Replay(t),
                             !.full = IF keep THEN full ELSE <<>>, !.truncated = ~keep]]
              /\ tx' = [tx EXCEPT !.full[t] = <<>>]
              /\ op' = [op EXCEPT !.todo = @ \ {t}]
         ELSE /\ op' = [op EXCEPT !.kind = "undo", !.todo = tx.terminals]
              /\ UNCHANGED <<bridge, tx>>
      /\ UNCHANGED <<preserved, active, timer, conn, emitted, stream, window, gui>>

GroupUnchecked == TRUE

\* Every bridge of the group can still be detached.
GroupValid ==
  /\ ~tx.invalid
  /\ \A t \in tx.terminals : bridge[t].mode = "detached" /\ bridge[t].token = tx.token

\* finalize_detach_group under all bridge locks: the window is saved, the mode
\* persisted and the window destroyed, then every fallback is dropped.
Finalize ==
  /\ op.kind = "detach" /\ op.todo = {}
  /\ GroupValid /\ timer[tx.token] = "pending"
  /\ bridge' = [t \in Terminals |->
       IF t \in tx.terminals
       THEN [bridge[t] EXCEPT !.sink = 0, !.cache = IF bridge[t].truncated THEN <<>> ELSE @]
       ELSE bridge[t]]
  /\ preserved' = tx.terminals
  /\ active' = TRUE
  /\ window' = [window EXCEPT !.open = FALSE]
  /\ tx' = NoTx /\ op' = Idle
  /\ gui' = [gui EXCEPT !.pc = "idle", !.wait = NoWait]
  /\ UNCHANGED <<timer, conn, emitted, stream>>

\* The group is no longer valid, the deadline has passed, or saving, persisting
\* or destroying the window fails (the mode is then set back in memory).
FinalizeFails ==
  /\ op.kind = "detach" /\ op.todo = {}
  /\ op' = [op EXCEPT !.kind = "undo", !.todo = tx.terminals]
  /\ UNCHANGED <<bridge, tx, preserved, active, timer, conn, emitted, stream, window, gui>>

\* The transaction still holds the bridge back, and can give it back.
HeldDetachedOnly(b, token) == b.token = token /\ b.mode = "detached" /\ b.sink # 0
HeldFor(b, token) ==
  b.token = token /\ (b.mode = "paused" \/ (b.mode = "detached" /\ b.sink # 0))

\* bridge.abort: only a bridge this transaction still holds is released.
Undo(t) ==
  LET b == bridge[t]
  IN  /\ op.kind = "undo" /\ t \in op.todo
      /\ op' = [op EXCEPT !.todo = @ \ {t}]
      /\ IF HeldFor(b, tx.token)
         THEN Flush(t, <<>>)
         ELSE UNCHANGED <<bridge, stream>>
      /\ UNCHANGED <<tx, preserved, active, timer, conn, emitted, window, gui>>

\* The call that rolled back answers; after a failed commit the window still
\* sends its own abort.
UndoDone ==
  /\ op.kind = "undo" /\ op.todo = {}
  /\ op' = Idle /\ tx' = NoTx
  /\ gui' = CASE op.by = "timer"  -> gui
              [] op.by = "commit" -> [gui EXCEPT !.pc = "abort"]
              [] OTHER            -> [gui EXCEPT !.pc = "idle", !.wait = NoWait]
  /\ UNCHANGED <<bridge, preserved, active, timer, conn, emitted, stream, window>>

\* abort with a token that is, or is not, the current transaction's.
AbortCall ==
  /\ gui.pc = "abort" /\ op.kind = "none"
  /\ IF tx.token = gui.token
     THEN /\ op' = [kind |-> "undo", by |-> "abort", todo |-> tx.terminals]
          /\ UNCHANGED gui
     ELSE /\ gui' = [gui EXCEPT !.pc = "idle", !.wait = NoWait]
          /\ UNCHANGED op
  /\ UNCHANGED <<bridge, tx, preserved, active, timer, conn, emitted, stream, window>>

Expire(k) ==
  /\ timer[k] = "pending"
  /\ timer' = [timer EXCEPT ![k] = "expired"]
  /\ UNCHANGED <<bridge, tx, op, preserved, active, conn, emitted, stream, window, gui>>

TimerForgets(k) ==
  /\ timer[k] = "expired" /\ op.kind = "none"
  /\ timer' = [timer EXCEPT ![k] = "done"]
  /\ UNCHANGED <<bridge, tx, op, preserved, active, conn, emitted, stream, window, gui>>

TimerAbort(k) ==
  /\ timer[k] = "expired" /\ op.kind = "none"
  /\ timer' = [timer EXCEPT ![k] = "done"]
  /\ op' = IF tx.token = k THEN [kind |-> "undo", by |-> "timer", todo |-> tx.terminals]
                           ELSE op
  /\ UNCHANGED <<bridge, tx, preserved, active, conn, emitted, stream, window, gui>>

\* What a new window is given: everything, or the screen it has folded into.
RestoredDeltasFirst(b) == IF b.truncated THEN b.parsed ELSE b.cache \o b.full
Restored(b)            == IF b.truncated THEN b.parsed ELSE b.full \o b.cache

\* attach_preserved_terminal: snapshot, deltas, end and ready on a new channel.
Attach(t) ==
  LET b == bridge[t]
  IN  /\ t \in gui.restoring /\ t \in preserved /\ op.kind = "none"
      /\ b.mode = "detached" /\ b.sink = 0
      /\ stream' = [stream EXCEPT ![t] =
           [Empty EXCEPT !.sent = Restored(b),
                         !.end  = IF b.ended THEN "queued" ELSE "none"]]
      /\ bridge' = [bridge EXCEPT ![t] = IF b.ended THEN Dead ELSE Attached(window.gen)]
      /\ preserved' = preserved \ {t}
      /\ gui' = [gui EXCEPT !.restoring = @ \ {t}, !.connected = @ \cup {t}]
      /\ UNCHANGED <<tx, op, active, timer, conn, emitted, window>>

\* A send fails half way, the bridge keeps everything; the window gives the
\* terminal up and disconnects it.
AttachFails(t) ==
  /\ t \in gui.restoring /\ t \in Breakable /\ op.kind = "none"
  /\ gui' = [gui EXCEPT !.restoring = @ \ {t}, !.failed = @ \cup {t}]
  /\ conn' = [conn EXCEPT ![t] = "closed"]
  /\ UNCHANGED <<bridge, tx, op, preserved, active, timer, emitted, stream, window>>

\* finish_lightweight_restore, once no terminal waits to be restored: leaves the
\* mode and disconnects the terminals no valid tab has taken.
FinishRestore ==
  /\ gui.finish /\ gui.restoring = {} /\ op.kind = "none" /\ tx = NoTx
  /\ active' = FALSE
  /\ preserved' = preserved \ gui.failed
  /\ conn' = [t \in Terminals |-> IF t \in preserved \cap gui.failed THEN "closed" ELSE conn[t]]
  /\ gui' = [gui EXCEPT !.finish = FALSE]
  /\ UNCHANGED <<bridge, tx, op, timer, emitted, stream, window>>

-----------------------------------------------------------------------------
Init ==
  /\ active \in BOOLEAN
  /\ conn = [t \in Terminals |-> IF ~active /\ t \in Initial THEN "running" ELSE "absent"]
  /\ bridge = [t \in Terminals |-> IF conn[t] = "running" THEN Attached(1) ELSE Dead]
  /\ tx = NoTx /\ op = Idle
  /\ preserved = {}
  /\ timer = [k \in Tokens |-> "unused"]
  /\ emitted = [t \in Terminals |-> 0]
  /\ stream = [t \in Terminals |-> Empty]
  /\ window = [gen |-> 1, open |-> ~active]
  /\ gui = [pc |-> "idle", token |-> 0, todo |-> {}, wait |-> NoWait,
            connected |-> {t \in Terminals : conn[t] = "running"}, broken |-> {},
            restoring |-> {}, failed |-> {}, finish |-> FALSE]

\* Steps of the call that holds the runtime lock.
ServiceStep ==
  \/ BeginDone \/ Finalize \/ FinalizeFails \/ UndoDone
  \/ \E t \in Terminals : Pause(t) \/ Detach(t) \/ Undo(t)

\* The window draws what its channels hold.
Draw(t) == ReceiveData(t) \/ ReceiveBarrier(t) \/ ReceiveEnd(t)

TerminalStep(t) ==
  \/ EmitData(t) \/ EmitEnd(t) \/ FinishConnection(t)
  \/ Connect(t) \/ ConnectReturns(t)

WindowStep ==
  \/ Enter \/ CaptureFails \/ CaptureDone \/ Activate
  \/ BeginRefused \/ Begin \/ CommitRefused \/ Commit \/ AbortCall \/ FinishRestore
  \/ \E t \in Terminals : Draw(t) \/ BreakChannel(t) \/ Upload(t) \/ Attach(t) \/ AttachFails(t)

Next ==
  \/ \E t \in Terminals : TerminalStep(t)
  \/ WindowStep
  \/ ServiceStep
  \/ \E k \in Tokens : Expire(k) \/ TimerAbort(k)

Spec == Init /\ [][Next]_vars

\* Tokio polls the call that holds the lock and the timeout task, time passes,
\* and a window that is open drains its channels.  The window's user and the
\* remote side owe nothing.
Fairness ==
  /\ WF_vars(ServiceStep)
  /\ \A k \in Tokens : WF_vars(Expire(k)) /\ WF_vars(TimerAbort(k))
  /\ \A t \in Terminals : WF_vars(Draw(t))

FairSpec == Spec /\ Fairness

-----------------------------------------------------------------------------
Transaction == [token : Nat, terminals : SUBSET Terminals, uploaded : SUBSET Terminals,
                invalid : BOOLEAN, full : [Terminals -> Seq(Nat)]]

Call == [kind : {"none", "pause", "detach", "undo"},
         by : {"none", "begin", "commit", "abort", "timer"}, todo : SUBSET Terminals]

Gui == [pc : {"idle", "begin", "capture", "commit", "abort"}, token : Nat,
        todo : SUBSET Terminals, wait : [Terminals -> {"none", "waiting", "reached"}],
        connected : SUBSET Terminals, broken : SUBSET Terminals,
        restoring : SUBSET Terminals, failed : SUBSET Terminals, finish : BOOLEAN]

ConnState == {"absent", "connecting", "running", "closing", "closed"}

ShownSent(s) == s.shown <= Len(s.sent)

TypeOK ==
  /\ bridge \in [Terminals -> Bridge]
  /\ tx \in Transaction
  /\ op \in Call
  /\ preserved \subseteq Terminals
  /\ active \in BOOLEAN
  /\ timer \in [Tokens -> {"unused", "pending", "expired", "done"}]
  /\ conn \in [Terminals -> ConnState]
  /\ emitted \in [Terminals -> Nat]
  /\ stream \in [Terminals -> Stream]
  /\ \A t \in Terminals : ShownSent(stream[t])
  /\ window \in [gen : Nat, open : BOOLEAN]
  /\ gui \in Gui

\* The bridge can still write to a working channel of the open window.
HasWindow(t) == /\ bridge[t].mode \in {"attached", "paused", "detached"}
                /\ Open(t, bridge[t].sink)

\* Until a terminal is detached for good, what its channel was given and what
\* its bridge holds back is its output: in order, no unit lost, none twice,
\* through every pause, abort, time-out, overflow and failed commit.
FallbackIntact ==
  \A t \in Terminals :
    HasWindow(t) => stream[t].sent \o bridge[t].cache = Output(emitted[t])

\* What is kept for a later window is the terminal's whole output: as bytes, or
\* folded into the parsed screen once a limit was exceeded.
PreservedIntact ==
  \A t \in preserved :
    IF bridge[t].truncated THEN bridge[t].parsed = Output(emitted[t])
    ELSE /\ bridge[t].full \o bridge[t].cache = Output(emitted[t])
         /\ bridge[t].parsed = Output(emitted[t])

\* A snapshot is taken only when the window has drawn everything that was sent
\* before the barrier (doc/lightweight-mode.md, the entry rules).
SnapshotDrained ==
  \A t \in tx.uploaded :
    op.kind = "none" /\ bridge[t].mode = "paused" => tx.full[t] = stream[t].sent

\* A group is detached as a whole: without a window, no registered terminal is
\* left on a channel of the old window, and every terminal that has lost its
\* fallback can be attached by the next one.
DetachedTogether ==
  /\ ~window.open => \A t \in Live : t \in preserved
  /\ \A t \in Terminals :
       /\ t \in preserved => bridge[t].mode = "detached" /\ bridge[t].sink = 0
       /\ bridge[t].mode = "detached" /\ bridge[t].sink = 0 /\ t \in Live => t \in preserved

\* Outside a service call, a terminal is held back only for the transaction that
\* will release it.
HeldByTransaction ==
  op.kind = "none" =>
    \A t \in Terminals : bridge[t].mode = "paused" =>
      t \in tx.terminals /\ bridge[t].token = tx.token /\ tx # NoTx

\* The end of a terminal is shown after all of its output.
EndAfterOutput ==
  \A t \in Terminals : stream[t].end = "shown" => Screen(t) = Output(emitted[t])

\* No unit of output is lost, doubled or reordered on any of the ways it takes:
\* through a hold to the old window, into what is kept for a new one, and before
\* the end of its terminal.
OutputIntact == FallbackIntact /\ PreservedIntact /\ EndAfterOutput

\* The caches of a transaction never hold more than the global limit.
WithinBudget == Used <= GlobalLimit

\* The timeout task bounds every hold: a paused terminal is released or detached.
HoldEnds == \A t \in Terminals : bridge[t].mode = "paused" ~> bridge[t].mode # "paused"

\* Output that a working window is due is shown, even that of a terminal that
\* ends, or it is kept for a later window.
OutputShown ==
  \A t \in Terminals : \A n \in 1..MaxOutput :
    HasWindow(t) /\ emitted[t] >= n
      ~> Len(Screen(t)) >= n \/ t \in preserved \/ t \in gui.broken

-----------------------------------------------------------------------------
\* What an open window shows of each terminal; nothing once it is destroyed.
View == [t \in Terminals |-> IF window.open THEN Screen(t) ELSE <<>>]

User == INSTANCE TerminalStream WITH
  finished <- {t \in Terminals : conn[t] # "running"},
  open     <- window.open,
  view     <- View,
  over     <- {t \in Terminals : window.open /\ stream[t].end = "shown"}

\* Every behaviour of the service, the bridges and the window looks to the user
\* like a plain stream per terminal: a growing prefix of its output.
UserView == User!Spec
=============================================================================
