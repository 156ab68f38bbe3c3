------------------------------- MODULE McpAccess -------------------------------
(***************************************************************************)
(* What a call of an MCP client may do (mcp.rs, mcp/access.rs,             *)
(* mcp/audit.rs) while the user changes it: the transport in the settings, *)
(* the group of the session, and the rights of the group, which are read   *)
(* one after the other.  Groups are renamed and deleted in two stores      *)
(* (commands/session_commands.rs), rights are saved as a whole list        *)
(* (commands/settings_commands.rs).                                        *)
(***************************************************************************)
EXTENDS Naturals

CONSTANTS Groups, Calls,
          MaxEdits,  \* bound on what the user changes
          None       \* no group, no task

Rights == {"command", "transfer"}
Tools == {"list", "policy", "status", "link", "command", "upload"}
Needs(tool) ==
  CASE tool \in {"list", "status"} -> {} [] tool \in {"policy", "command"} -> {"command"} [] tool \in {"link", "upload"} -> {"transfer"}

VARIABLES enabled,    \* the transport of the calls
          home,       \* the group of the session
          rows,       \* rights of each group in the database, None without an enabled row
          structure,  \* rename or deletion of a group
          saving,     \* save of the settings page
          rooted,     \* the local path of the transfers lies in the Roots of the client
          lock,       \* who has the lock file of the session
          call,       \* each call: step, tool, group it read, audit record
          could,      \* history: what each call could have been allowed by since it
                      \* began, and whether its path was in the Roots since it had the lock
          revoked,    \* history: the rights that the user took away by a save that succeeded
          edits

shared == <<enabled, home, rows, rooted>>
tasks == <<structure, saving, revoked>>
vars == <<shared, tasks, lock, call, could, edits>>

Idle == [step |-> "idle", tool |-> "status", group |-> None, done |-> FALSE, log |-> "none"]

Init ==
  /\ enabled \in BOOLEAN /\ home \in Groups /\ rooted \in BOOLEAN
  /\ rows \in [Groups -> {None, Rights}] /\ revoked = {}
  /\ structure = None /\ saving = None /\ lock = None /\ edits = 0
  /\ call = [c \in Calls |-> Idle]
  /\ could = [c \in Calls |-> [on |-> FALSE, homes |-> {}, grants |-> {}, path |-> FALSE]]
-----------------------------------------------------------------------------
\* The calls.

Goto(c, step) == call' = [call EXCEPT ![c].step = step]
Running(c) == call[c].step \notin {"idle", "ended"}

\* Drop of the call's guards, in whatever way it ends: AuditGuard records, the
\* operation lock is released.
End(c, result) ==
  /\ call' = [call EXCEPT ![c].step = "ended", ![c].log = result]
  /\ lock' = IF lock = c THEN None ELSE lock

Proceed(c, allowed, step) ==
  IF allowed THEN Goto(c, step) /\ UNCHANGED lock ELSE End(c, "error")

\* What is so now, of what a call depends on.
Held(list) == UNION {{<<g, r>> : r \in list[g]} : g \in {h \in Groups : list[h] # None}}
Grants == Held(rows) \cup {<<g, "access">> : g \in {h \in Groups : rows[h] # None}}
Seen(seen, c) ==
  [on |-> seen.on \/ enabled', homes |-> seen.homes \cup {home'}, grants |-> seen.grants \cup Grants',
   path |-> seen.path \/ (rooted' /\ lock' = c)]
Observe == could' = [c \in Calls |-> IF call'[c].step \in {"idle", "ended"} THEN could[c] ELSE Seen(could[c], c)]

\* A tool with valid arguments; a transfer with a local file looks at its path first.
Begin(c, tool) ==
  /\ call[c].step = "idle" /\ call' = [call EXCEPT ![c].step = IF tool = "upload" THEN "path" ELSE "settings", ![c].tool = tool]
  /\ UNCHANGED <<shared, tasks, lock, edits>> /\ Observe

\* rooted_path, before anything else.
Path(c) ==
  /\ call[c].step = "path" /\ Proceed(c, rooted, "settings")
  /\ UNCHANGED <<shared, tasks, edits>> /\ Observe

\* authorized_session_context, first part: reload_mcp_runtime_settings.
Settings(c) ==
  /\ call[c].step = "settings" /\ Proceed(c, enabled, "session")
  /\ UNCHANGED <<shared, tasks, edits>> /\ Observe

\* The session, whose service a deletion holds while its approval is awaited.
Session(c) ==
  /\ call[c].step = "session" /\ (structure # None => structure.step # "approval")
  /\ call[c].tool = "list" => home # None
  /\ IF home = None THEN End(c, "error") ELSE call' = [call EXCEPT ![c].step = "rights", ![c].group = home] /\ UNCHANGED lock
  /\ UNCHANGED <<shared, tasks, edits>> /\ Observe

\* get_command_policy tells what it read, without a connection; so does list_sessions.
Informs(tool) == tool \in {"list", "policy"}
Granted(c, g) == rows[g] # None /\ Needs(call[c].tool) \subseteq rows[g]

Decide(c, granted) ==
  /\ call[c].step = "rights" /\ (call[c].tool = "list" => granted)
  /\ \/ Proceed(c, granted, IF Informs(call[c].tool) THEN "work" ELSE "connect")
     \/ call[c].tool = "command" /\ End(c, "error")
  /\ UNCHANGED <<shared, tasks, edits>> /\ Observe

\* Changed: any enabled group will do.
PermissionOfAny(c) == Decide(c, \E g \in Groups : Granted(c, g))

\* The rights of the group as they are now; for a command, its policy too.
Permission(c) == Decide(c, Granted(c, call[c].group))

\* list_sessions, without the session: the groups are read, then the rights of all.
Listed(c) ==
  /\ call[c].tool = "list"
  /\ \/ call[c].step = "session" /\ (structure # None => structure.step # "approval") /\ home = None
     \/ call[c].step = "rights" /\ ~Granted(c, call[c].group)
  /\ call' = [call EXCEPT ![c].step = "answer", ![c].done = TRUE]
  /\ UNCHANGED <<shared, tasks, lock, edits>> /\ Observe

\* Reading the server, and issuing a link for a file of it, need no lock.
Unlocked(tool) == tool \in {"status", "link"}

\* connection_for_session: a connection for the session as it was read.
Connect(c) ==
  /\ call[c].step = "connect"
  /\ \E works \in BOOLEAN : Proceed(c, works, IF Unlocked(call[c].tool) THEN "work" ELSE "lock")
  /\ UNCHANGED <<shared, tasks, edits>> /\ Observe

\* try_lock: a file that all servers share.
Lock(c) ==
  /\ call[c].step = "lock"
  /\ IF lock = None THEN lock' = c /\ Goto(c, IF call[c].tool = "upload" THEN "again" ELSE "work") ELSE End(c, "error")
  /\ UNCHANGED <<shared, tasks, edits>> /\ Observe

\* Changed: the path of the first look is used.
AgainTrusted(c) ==
  /\ call[c].step = "again" /\ Goto(c, "work")
  /\ UNCHANGED <<shared, tasks, lock, edits>> /\ Observe

\* rooted_path again: what it returns now is what is read.
Again(c) ==
  /\ call[c].step = "again" /\ Proceed(c, rooted, "work")
  /\ UNCHANGED <<shared, tasks, edits>> /\ Observe

\* The operation on the server: done, done without an answer, or refused.
Work(c) ==
  /\ call[c].step = "work"
  /\ \E done \in BOOLEAN, next \in {"answer", "failed"} :
       /\ next = "answer" => done
       /\ Informs(call[c].tool) => next = "answer"
       /\ call' = [call EXCEPT ![c].step = next, ![c].done = done]
  /\ UNCHANGED <<shared, tasks, lock, edits>> /\ Observe

Answer(c) ==
  /\ call[c].step \in {"answer", "failed"} /\ End(c, IF call[c].step = "answer" THEN "success" ELSE "error")
  /\ UNCHANGED <<shared, tasks, edits>> /\ Observe

\* Changed: a call that is given up leaves its lock.
DroppedLocked(c) ==
  /\ Running(c) /\ call[c].step # "answer" /\ call' = [call EXCEPT ![c].step = "ended", ![c].log = "error"]
  /\ UNCHANGED <<shared, tasks, lock, edits>> /\ Observe

\* The client has gone, or has given the call up: its future is dropped.
Dropped(c) ==
  /\ Running(c) /\ call[c].step # "answer" /\ End(c, "error")
  /\ UNCHANGED <<shared, tasks, edits>> /\ Observe
\* A call of another server process takes or releases the lock of the session.
Elsewhere ==
  /\ lock \in {None, "other"} /\ lock' = IF lock = None THEN "other" ELSE None
  /\ UNCHANGED <<shared, tasks, call, edits>> /\ Observe
-----------------------------------------------------------------------------
\* The user.

Edit == edits < MaxEdits /\ edits' = edits + 1

Switch ==
  /\ Edit /\ enabled' = ~enabled
  /\ UNCHANGED <<home, rows, rooted, tasks, lock, call>> /\ Observe

\* A link on the path, or the Roots, change.
PathMoves ==
  /\ Edit /\ rooted' = ~rooted
  /\ UNCHANGED <<enabled, home, rows, tasks, lock, call>> /\ Observe

MoveSession ==
  /\ Edit /\ home # None /\ structure = None /\ home' \in Groups
  /\ UNCHANGED <<enabled, rows, rooted, tasks, lock, call>> /\ Observe

\* update_mcp_settings_locked: the whole list, as the page has it; what comes
\* after may fail, and puts the former list back.
Save ==
  /\ Edit /\ saving = None
  /\ \E g \in Groups, rights \in {None} \cup SUBSET Rights :
       /\ rows' = [rows EXCEPT ![g] = rights]
       /\ saving' = [former |-> rows, taken |-> Held(rows) \ Held(rows'), given |-> Held(rows')]
  /\ UNCHANGED <<enabled, home, rooted, structure, revoked, lock, call>> /\ Observe

Saved ==
  /\ saving # None /\ saving' = None /\ revoked' = (revoked \ saving.given) \cup saving.taken
  /\ UNCHANGED <<shared, structure, lock, call, edits>> /\ Observe

NotSaved ==
  /\ saving # None /\ saving' = None /\ rows' = saving.former
  /\ UNCHANGED <<enabled, home, rooted, structure, revoked, lock, call, edits>> /\ Observe

\* rename_session_group: the sessions, then the rights, or the sessions back.
Rename ==
  /\ Edit /\ structure = None
  /\ \E from \in Groups, to \in Groups :
       /\ from # to /\ home # to /\ structure' = [op |-> "rename", step |-> "rights", from |-> from, to |-> to]
       /\ home' = IF home = from THEN to ELSE home
  /\ UNCHANGED <<enabled, rows, rooted, saving, revoked, lock, call>> /\ Observe

Moved(list, from, to) == [list EXCEPT ![to] = IF list[from] # None THEN list[from] ELSE @, ![from] = None]

\* The name is the key of the table: a row that the new name has is in the way.
RenameRights ==
  /\ structure # None /\ structure.step = "rights"
  /\ IF rows[structure.from] # None /\ rows[structure.to] # None
     THEN structure' = [structure EXCEPT !.step = "back"] /\ UNCHANGED <<rows, revoked>>
     ELSE /\ structure' = None /\ rows' = Moved(rows, structure.from, structure.to)
          /\ revoked' = {p \in revoked : p[1] \notin {structure.from, structure.to}}
  /\ UNCHANGED <<enabled, home, rooted, saving, lock, call, edits>> /\ Observe

RenameBack ==
  /\ structure # None /\ structure.step = "back" /\ structure' = None
  /\ home' = IF home = structure.to THEN structure.from ELSE home
  /\ UNCHANGED <<enabled, rows, rooted, saving, revoked, lock, call, edits>> /\ Observe

\* delete_session_group: the rights, then the sessions, which may need an
\* approval; without it all rights are put back as they were.
DeleteGroup ==
  /\ Edit /\ structure = None
  /\ \E g \in Groups :
       /\ structure' = [op |-> "delete", step |-> "approval", group |-> g, former |-> rows]
       /\ rows' = [rows EXCEPT ![g] = None]
  /\ UNCHANGED <<enabled, home, rooted, saving, revoked, lock, call>> /\ Observe

Deleted ==
  /\ structure # None /\ structure.step = "approval" /\ structure' = None
  /\ home' = (IF home = structure.group THEN None ELSE home) /\ revoked' = {p \in revoked : p[1] # structure.group}
  /\ UNCHANGED <<enabled, rows, rooted, saving, lock, call, edits>> /\ Observe

NotDeleted ==
  /\ structure # None /\ structure.step = "approval" /\ structure' = None /\ rows' = structure.former
  /\ UNCHANGED <<enabled, home, rooted, saving, revoked, lock, call, edits>> /\ Observe

Next ==
  \/ Elsewhere \/ Switch \/ PathMoves \/ MoveSession \/ Save \/ Saved \/ NotSaved
  \/ Rename \/ RenameRights \/ RenameBack \/ DeleteGroup \/ Deleted \/ NotDeleted
  \/ \E c \in Calls :
       \/ \E tool \in Tools : Begin(c, tool)
       \/ Path(c) \/ Settings(c) \/ Session(c) \/ Permission(c) \/ Listed(c) \/ Connect(c)
       \/ Lock(c) \/ Again(c) \/ Work(c) \/ Answer(c) \/ Dropped(c)
-----------------------------------------------------------------------------
\* A call works, or tells a client of the session, only if the transport was on, and
\* a group that the session was in had the right, at some time since the call began: what was revoked before
\* is refused, whatever connection is still open.
RevokedRefused ==
  \A c \in Calls : call[c].step = "work" =>
    /\ could[c].on
    /\ \E g \in could[c].homes : \A r \in Needs(call[c].tool) \cup {"access"} : <<g, r>> \in could[c].grants

\* A transfer touches only a local file that was in the Roots after the call got
\* the lock, for which it may have waited behind a connection attempt.
RootsRechecked == \A c \in Calls : call[c].step = "work" /\ call[c].tool = "upload" => could[c].path

\* Between calls the session is free: no call that ended, or was given up, has
\* the lock, and one that the log calls successful has been carried out.
LockReturned ==
  /\ lock \in Calls => Running(lock)
  /\ \A c \in Calls : call[c].log = "success" => call[c].done

\* No right comes back that the user has taken away.
RevokedStays == structure = None /\ saving = None => revoked \cap Held(rows) = {}
=============================================================================
