---------------------------- MODULE McpConnections ----------------------------
(***************************************************************************)
(* The SSH connection of one session that the calls of MCP agents share    *)
(* (mcp.rs connection_for_session and the tools, mcp/connection_cache.rs,  *)
(* mcp/access.rs, mcp_support_service.rs).  A call holds a lease while it  *)
(* works; a task per connection closes it when no call has used it for a   *)
(* while.                                                                  *)
(***************************************************************************)
EXTENDS Naturals, FiniteSets

CONSTANTS Calls, Connections, None

ASSUME CallsAssumption == IsFiniteSet(Calls)
ASSUME NoneAssumption  == /\ None \notin Calls /\ None \notin Connections
                          /\ None \notin [conn : Connections, users : Nat, elapsed : BOOLEAN]

VARIABLES entry,     \* cached connection, its users, and whether its idle time has passed
          open,      \* connections of the connection manager
          call,      \* step and lease of each call, and what it has to disconnect
          gate,      \* call with the gate of the session
          operation, \* call with the operation lock of the session
          watcher,   \* task of each connection
          signal     \* stored notification of each connection

vars == <<entry, open, call, gate, operation, watcher, signal>>

Idle == [step |-> "idle", lease |-> None, stale |-> None]

Init ==
  /\ entry = None /\ open = {} /\ call = [c \in Calls |-> Idle] /\ gate = None
  /\ operation = None /\ watcher = [k \in Connections |-> "none"] /\ signal = [k \in Connections |-> FALSE]

Goto(c, step) == call' = [call EXCEPT ![c].step = step]

\* Connections are numbered by random identifiers.
New(k) == watcher[k] = "none" /\ k \notin open /\ \A c \in Calls : k \notin {call[c].lease, call[c].stale}

\* The user, the server or the network ends a connection.
Disconnected ==
  /\ \E k \in open : open' = open \ {k}
  /\ UNCHANGED <<entry, call, gate, operation, watcher, signal>>

IdleElapses ==
  /\ entry # None /\ entry.users = 0 /\ ~entry.elapsed /\ entry' = [entry EXCEPT !.elapsed = TRUE]
  /\ UNCHANGED <<open, call, gate, operation, watcher, signal>>
-----------------------------------------------------------------------------
\* The calls.

\* A tool whose session, group and transport the settings allow; what they say
\* is not looked at again.
Begin(c) ==
  /\ call[c].step = "idle" /\ Goto(c, "gate")
  /\ UNCHANGED <<entry, open, gate, operation, watcher, signal>>

Enter(c) ==
  /\ call[c].step = "gate" /\ gate = None /\ gate' = c /\ Goto(c, "lookup")
  /\ UNCHANGED <<entry, open, operation, watcher, signal>>

\* lookup.
Reuse(c) ==
  /\ call[c].step = "lookup" /\ entry # None /\ (entry.users = 0 => ~entry.elapsed)
  /\ entry' = [entry EXCEPT !.users = @ + 1] /\ signal' = [signal EXCEPT ![entry.conn] = watcher[entry.conn] # "none"]
  /\ call' = [call EXCEPT ![c].step = "validate", ![c].lease = entry.conn]
  /\ UNCHANGED <<open, gate, operation, watcher>>

Expired(c) ==
  /\ call[c].step = "lookup" /\ entry # None /\ entry.users = 0 /\ entry.elapsed
  /\ entry' = None /\ signal' = [signal EXCEPT ![entry.conn] = watcher[entry.conn] # "none"]
  /\ call' = [call EXCEPT ![c].step = "expire", ![c].stale = entry.conn]
  /\ UNCHANGED <<open, gate, operation, watcher>>

Missing(c) ==
  /\ call[c].step = "lookup" /\ entry = None /\ Goto(c, "connect")
  /\ UNCHANGED <<entry, open, gate, operation, watcher, signal>>

\* The expired connection is disconnected outside the lock of the cache.
Expire(c) ==
  /\ call[c].step = "expire" /\ open' = open \ {call[c].stale}
  /\ call' = [call EXCEPT ![c].step = "connect", ![c].stale = None]
  /\ UNCHANGED <<entry, gate, operation, watcher, signal>>

\* The drop of a lease, after which the entry is of another connection or is idle.
DropAny(k, e) == IF k = None \/ e = None THEN e
                 ELSE [e EXCEPT !.users = @ - 1, !.elapsed = FALSE]
Dropped(k, e) == IF k = None \/ e = None THEN e ELSE IF e.conn # k THEN e
                 ELSE [e EXCEPT !.users = @ - 1, !.elapsed = IF e.users = 1 THEN FALSE ELSE @]

\* Changed: the last user does not wake the task.
NotWoken(k) == signal
Woken(k) == IF k # None /\ entry # None /\ Dropped(k, entry) # entry /\ Dropped(k, entry).users = 0
            THEN [signal EXCEPT ![k] = watcher[k] # "none"] ELSE signal

\* A lease on a connection that the manager has, or remove_if_matches.
Validate(c) ==
  /\ call[c].step = "validate"
  /\ IF call[c].lease \in open THEN gate' = None /\ Goto(c, "lock") /\ UNCHANGED <<entry, signal>>
     ELSE /\ call' = [call EXCEPT ![c].step = "connect", ![c].lease = None] /\ UNCHANGED gate
          /\ IF entry # None /\ entry.conn = call[c].lease
             THEN entry' = None /\ signal' = [signal EXCEPT ![call[c].lease] = watcher[call[c].lease] # "none"]
             ELSE UNCHANGED <<entry, signal>>
  /\ UNCHANGED <<open, operation, watcher>>

\* connect_headless, insert and the task of the new connection; or an error.
Connect(c) ==
  /\ call[c].step = "connect" /\ gate' = None
  /\ \/ \E k \in Connections :
          /\ New(k) /\ open' = open \cup {k} /\ entry' = [conn |-> k, users |-> 1, elapsed |-> FALSE]
          /\ call' = [call EXCEPT ![c].step = "lock", ![c].lease = k]
          /\ watcher' = [watcher EXCEPT ![k] = "look"]
          /\ signal' = IF entry = None THEN signal ELSE [signal EXCEPT ![entry.conn] = watcher[entry.conn] # "none"]
     \/ call' = [call EXCEPT ![c] = Idle] /\ UNCHANGED <<open, entry, watcher, signal>>
  /\ UNCHANGED <<operation>>

\* A tool that only reads.
Read(c) ==
  /\ call[c].step = "lock" /\ Goto(c, "work")
  /\ UNCHANGED <<entry, open, gate, operation, watcher, signal>>

\* operation_lock, of the tools that change something or run a command.
Operate(c) ==
  /\ call[c].step = "lock" /\ operation = None /\ operation' = c /\ Goto(c, "work")
  /\ UNCHANGED <<entry, open, gate, watcher, signal>>

\* The call returns, fails or is cancelled; what it holds is dropped.
Leave(c) ==
  /\ call[c].step \in {"lock", "work"}
  /\ entry' = Dropped(call[c].lease, entry) /\ signal' = Woken(call[c].lease)
  /\ operation' = IF operation = c THEN None ELSE operation
  /\ call' = [call EXCEPT ![c] = Idle] /\ UNCHANGED <<open, gate, watcher>>

Cancelled(c) ==
  /\ call[c].step \in {"gate", "expire", "validate", "connect"}
  /\ entry' = Dropped(call[c].lease, entry) /\ signal' = Woken(call[c].lease)
  /\ gate' = IF gate = c THEN None ELSE gate
  /\ call' = [call EXCEPT ![c] = Idle] /\ UNCHANGED <<open, operation, watcher>>
-----------------------------------------------------------------------------
\* idle_expiry.
Waits(k, what) == watcher' = [watcher EXCEPT ![k] = what] /\ UNCHANGED signal
Ends(k) == watcher' = [watcher EXCEPT ![k] = "none"] /\ signal' = [signal EXCEPT ![k] = FALSE]

\* Changed: the users are not looked at.
LookIdle(k) ==
  /\ watcher[k] = "look"
  /\ IF entry = None THEN Ends(k) /\ UNCHANGED entry
     ELSE IF entry.conn # k THEN Ends(k) /\ UNCHANGED entry
     ELSE entry' = None /\ Waits(k, "closing")
  /\ UNCHANGED <<open, call, gate, operation>>

Look(k) ==
  /\ watcher[k] = "look"
  /\ IF entry = None THEN Ends(k) /\ UNCHANGED entry
     ELSE IF entry.conn # k THEN Ends(k) /\ UNCHANGED entry
     ELSE IF entry.users > 0 THEN Waits(k, "used") /\ UNCHANGED entry
     ELSE IF ~entry.elapsed THEN Waits(k, "timed") /\ UNCHANGED entry
     ELSE entry' = None /\ Waits(k, "closing")
  /\ UNCHANGED <<open, call, gate, operation>>

Wake(k) ==
  /\ watcher[k] \in {"used", "timed"} /\ signal[k]
  /\ watcher' = [watcher EXCEPT ![k] = "look"] /\ signal' = [signal EXCEPT ![k] = FALSE]
  /\ UNCHANGED <<entry, open, call, gate, operation>>

Deadline(k) ==
  /\ watcher[k] = "timed" /\ entry # None /\ watcher' = [watcher EXCEPT ![k] = "look"]
  /\ entry.elapsed \/ entry.conn # k
  /\ UNCHANGED <<entry, open, call, gate, operation, signal>>

CloseIdle(k) ==
  /\ watcher[k] = "closing" /\ open' = open \ {k} /\ Ends(k)
  /\ UNCHANGED <<entry, call, gate, operation>>

Next ==
  \/ Disconnected \/ IdleElapses
  \/ \E c \in Calls : Begin(c) \/ Enter(c) \/ Reuse(c) \/ Expired(c) \/ Missing(c) \/ Expire(c) \/ Validate(c)
                      \/ Connect(c) \/ Read(c) \/ Operate(c) \/ Leave(c) \/ Cancelled(c)
  \/ \E k \in Connections : Look(k) \/ Wake(k) \/ Deadline(k) \/ CloseIdle(k)

\* Time passes and the tasks of the runtime run.
Fairness ==
  /\ WF_vars(IdleElapses)
  /\ \A k \in Connections : WF_vars(Look(k)) /\ WF_vars(Wake(k)) /\ WF_vars(Deadline(k)) /\ WF_vars(CloseIdle(k))
Spec == Init /\ [][Next]_vars /\ Fairness
-----------------------------------------------------------------------------
TypeOK ==
  /\ open \subseteq Connections /\ gate \in Calls \cup {None} /\ operation \in Calls \cup {None}
  /\ entry \in [conn : Connections, users : Nat, elapsed : BOOLEAN] \cup {None}
  /\ watcher \in [Connections -> {"none", "look", "used", "timed", "closing"}]
  /\ signal \in [Connections -> BOOLEAN]

\* The cache counts every lease on its connection and no lease on an earlier
\* one, though connections are replaced while calls still hold them.
UsersCounted ==
  entry # None => entry.users = Cardinality({c \in Calls : call[c].lease = entry.conn})

\* A connection that is about to be closed for being idle is not in use.
ClosingUnused ==
  \A k \in Connections : watcher[k] = "closing" \/ (\E c \in Calls : call[c].stale = k)
    => \A c \in Calls : call[c].lease # k

\* A new connection takes the place of no cached one, which a call might still use:
\* the gate of the session keeps apart the calls that found none (session_gate).
NothingReplaced == \A c \in Calls : call[c].step = "connect" => entry = None

\* What the calls of the agents hold of a connection, the cache knows.
LeasesKept == UsersCounted /\ ClosingUnused /\ NothingReplaced

\* A cached connection that no call uses is closed in the end (the permits of
\* notify_one keep the task of a connection from missing its last user).
IdleCloses == (entry # None /\ entry.users = 0) ~> (entry = None \/ entry.users > 0)
=============================================================================
