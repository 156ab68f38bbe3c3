-------------------------- MODULE McpConfiguration --------------------------
(***************************************************************************)
(* The settings of the MCP server (commands/settings_commands.rs), its     *)
(* HTTP listener (mcp/http.rs), the access token and the permissions of    *)
(* the session groups (services/mcp_command_policy_service.rs).            *)
(*                                                                         *)
(* The commands of the settings page hold mcp_configuration_lock from the  *)
(* first read to the last write; the commands that rename or delete a      *)
(* group of sessions (commands/session_commands.rs) do not, and touch the  *)
(* same table of permissions.  A lock of one service is held for one       *)
(* call, so a command is a sequence of steps that others come between.     *)
(***************************************************************************)
EXTENDS Naturals

CONSTANTS Pages,        \* commands of the settings page
          Lists,        \* commands of the list of sessions
          Groups,       \* names of groups
          Ports,
          Requests,     \* HTTP settings a window submits
          Choices,      \* tables of permissions it submits with them
          MaxTokens,    \* bound: tokens made
          MaxFaults,    \* bound: failures of a store or of a bind
          None

VARIABLES up,        \* the process runs
          starting,  \* the task that starts the server has not had its turn
          saved,     \* mcp_http_enabled and mcp_http_port, on disk and in memory
          rows,      \* mcp_group_permissions of the database
          groups,    \* groups that hold a session
          token,     \* access token in the credential store, 0 when there is none
          server,    \* McpHttpRuntimeState::running
          lock,      \* mcp_configuration_lock
          task, faults

Callers == Pages \cup Lists

vars == <<up, starting, saved, rows, groups, token, server, lock, task, faults>>

Setting    == [http : BOOLEAN, port : Ports]
Connection == [port : Ports, token : 0 .. MaxTokens]

Idle == [op |-> "none", at |-> "idle", want |-> None, perms |-> None, was |-> None,
         rowsWere |-> None, groupsWere |-> None, from |-> None, to |-> None,
         value |-> None, alone |-> TRUE]

Init ==
  /\ up = FALSE /\ starting = FALSE /\ server = None /\ lock = None
  /\ saved \in Requests /\ saved.http = FALSE
  /\ rows \in Choices
  /\ groups = {g \in Groups : rows[g] # None}
  /\ token = 0
  /\ task = [c \in Callers |-> Idle]
  /\ faults = 0

Boot ==
  /\ ~up /\ up' = TRUE /\ starting' = TRUE
  /\ UNCHANGED <<saved, rows, groups, token, server, lock, task, faults>>

\* The process ends: what is stored stays.
Crash ==
  /\ up /\ up' = FALSE /\ starting' = FALSE /\ server' = None /\ lock' = None
  /\ task' = [c \in Callers |-> Idle]
  /\ UNCHANGED <<saved, rows, groups, token, faults>>
-----------------------------------------------------------------------------
Fault == faults < MaxFaults /\ faults' = faults + 1

Goto(c, at) == task' = [task EXCEPT ![c].at = at]

\* A writer of permissions or groups makes the others' picture of them old.
Stale(d) == IF task[d] = Idle THEN Idle ELSE [task[d] EXCEPT !.alone = FALSE]
Disturb(c, t) == [d \in Callers |-> IF d = c THEN t ELSE Stale(d)]

Begin(c, op, at, want, perms) ==
  /\ up /\ task[c] = Idle
  /\ task' = [task EXCEPT ![c] = [Idle EXCEPT !.op = op, !.at = at, !.want = want, !.perms = perms,
                                              !.alone = \A d \in Callers \ {c} : task[d] = Idle]]
  /\ UNCHANGED <<up, starting, saved, rows, groups, token, server, faults>>

BeginLocked(c, op, at, want, perms) ==
  lock = None /\ lock' = c /\ Begin(c, op, at, want, perms)

\* The command returns, in success or in failure.
Left(c)   == [task EXCEPT ![c] = Idle]
Return(c) == task' = Left(c) /\ lock' = (IF lock = c THEN None ELSE lock)
-----------------------------------------------------------------------------
\* McpHttpRuntime::start.  A new port is bound before the old listener stops.
Serve(port, t) == server' = [port |-> port, token |-> t] /\ faults' = faults

BindFails(port) == ~(server # None /\ server.port = port) /\ Fault /\ server' = server

UpdateSettings(c) ==
  \E s \in Requests, p \in Choices : BeginLocked(c, "update", "read", s, p)

ConfigureAgents(c) == BeginLocked(c, "configure", "list", None, None)

\* prepare_local_agent_http_locked: the update keeps the port and the permissions.
List(c) ==
  /\ task[c].at = "list"
  /\ \/ /\ task' = [task EXCEPT ![c].at = "read", ![c].perms = rows,
                                ![c].want = [http |-> TRUE, port |-> saved.port]]
        /\ UNCHANGED <<lock, faults>>
     \/ Fault /\ Return(c)
  /\ UNCHANGED <<up, starting, saved, rows, groups, token, server>>

Read(c) ==
  /\ task[c].at = "read"
  /\ \/ /\ task' = [task EXCEPT ![c].at = "replace", ![c].was = saved, ![c].rowsWere = rows]
        /\ UNCHANGED <<lock, faults>>
     \/ Fault /\ Return(c)
  /\ UNCHANGED <<up, starting, saved, rows, groups, token, server>>

\* McpCommandPolicyService::replace_all, one transaction of the database.
Replace(c) ==
  /\ task[c].at = "replace"
  /\ \/ /\ rows' = task[c].perms
        /\ task' = Disturb(c, [task[c] EXCEPT !.at = IF task[c].want.http
                                                     THEN "token" ELSE "transport"])
        /\ UNCHANGED <<lock, faults>>
     \/ Fault /\ Return(c) /\ rows' = rows
  /\ UNCHANGED <<up, starting, saved, groups, token, server>>

\* get_or_create_http_token, before the settings are saved.
Token(c) ==
  /\ task[c].at = "token"
  /\ \/ token > 0 /\ Goto(c, "transport") /\ UNCHANGED <<token, faults>>
     \/ token = 0 /\ token' = 1 /\ Goto(c, "transport") /\ UNCHANGED faults
     \/ Fault /\ Goto(c, "undo") /\ UNCHANGED token
  /\ UNCHANGED <<up, starting, saved, rows, groups, server, lock>>

Transport(c) ==
  /\ task[c].at = "transport"
  /\ \/ saved' = task[c].want /\ Goto(c, "runtime") /\ UNCHANGED faults
     \/ Fault /\ Goto(c, "undo") /\ UNCHANGED saved
  /\ UNCHANGED <<up, starting, rows, groups, token, server, lock>>

Runtime(c) ==
  /\ task[c].at = "runtime"
  /\ \/ /\ saved.http /\ Serve(saved.port, token)
        /\ IF task[c].op = "configure" THEN Goto(c, "value") /\ lock' = lock ELSE Return(c)
     \/ saved.http /\ BindFails(saved.port) /\ Goto(c, "undo") /\ lock' = lock
     \/ ~saved.http /\ server' = None /\ Return(c) /\ UNCHANGED faults
  /\ UNCHANGED <<up, starting, saved, rows, groups, token>>

\* restore_mcp_permissions; a failure of it ends the command where it is.
Undo(c) ==
  /\ task[c].at = "undo"
  /\ \/ /\ rows' = task[c].rowsWere /\ UNCHANGED faults
        /\ LET back == saved # task[c].was IN
             /\ task' = Disturb(c, IF back THEN [task[c] EXCEPT !.at = "restore"] ELSE Idle)
             /\ lock' = IF back THEN lock ELSE None
     \/ Fault /\ Return(c) /\ UNCHANGED rows
  /\ UNCHANGED <<up, starting, saved, groups, token, server>>

\* Changed: the settings of the failed command stay.
SettingsStay(c) ==
  /\ task[c].at = "restore" /\ Return(c)
  /\ UNCHANGED <<up, starting, saved, rows, groups, token, server, faults>>

\* The settings go back to those of before the command.
Restore(c) ==
  /\ task[c].at = "restore"
  /\ \/ saved' = task[c].was /\ Return(c) /\ UNCHANGED faults
     \/ Fault /\ Return(c) /\ UNCHANGED saved
  /\ UNCHANGED <<up, starting, rows, groups, token, server>>

\* configure_local_agents hands the lock to the thread that writes the files.
AgentValue(c) ==
  /\ task[c].at = "value"
  /\ \/ /\ task' = [task EXCEPT ![c].at = "writing", ![c].value = [port |-> saved.port, token |-> token]]
        /\ UNCHANGED <<lock, faults>>
     \/ Fault /\ Return(c)
  /\ UNCHANGED <<up, starting, saved, rows, groups, token, server>>

\* Changed: the lock is the waiting command's, not the writing thread's.
AbandonUnlocks(c) ==
  /\ task[c].at = "writing" /\ Goto(c, "unheard") /\ lock' = None
  /\ UNCHANGED <<up, starting, saved, rows, groups, token, server, faults>>

\* The window goes away: nobody waits for the answer, the thread writes on.
Abandon(c) ==
  /\ task[c].at = "writing" /\ Goto(c, "unheard")
  /\ UNCHANGED <<up, starting, saved, rows, groups, token, server, lock, faults>>

WriteAgent(c) ==
  /\ task[c].at \in {"writing", "unheard"} /\ Return(c)
  /\ UNCHANGED <<up, starting, saved, rows, groups, token, server, faults>>

\* get_mcp_http_client_config: the lock keeps two of them from making two tokens.
ClientConfig(c) ==
  /\ BeginLocked(c, "client", "make", None, None)

MakeToken(c) ==
  /\ task[c].at = "make"
  /\ \/ token' = (IF token = 0 THEN 1 ELSE token) /\ Return(c) /\ UNCHANGED faults
     \/ Fault /\ Return(c) /\ UNCHANGED token
  /\ UNCHANGED <<up, starting, saved, rows, groups, server>>

RotateToken(c) == BeginLocked(c, "rotate", "rotate", None, None)

StoreToken(c) ==
  /\ task[c].at = "rotate"
  /\ \/ /\ token < MaxTokens /\ token' = token + 1 /\ UNCHANGED faults
        /\ IF saved.http THEN Goto(c, "apply") /\ lock' = lock ELSE Return(c)
     \/ Fault /\ Return(c) /\ UNCHANGED token
  /\ UNCHANGED <<up, starting, saved, rows, groups, server>>

\* The rest of rotate_mcp_http_token, and of the task that starts the server.
Apply(c) ==
  /\ task[c].at = "apply"
  /\ \/ Serve(saved.port, token) /\ Return(c)
     \/ BindFails(saved.port) /\ Return(c)
  /\ UNCHANGED <<up, starting, saved, rows, groups, token>>

StartServer(c) ==
  /\ up /\ starting /\ starting' = FALSE /\ task[c] = Idle /\ lock = None
  /\ \/ ~saved.http /\ UNCHANGED <<token, lock, task, faults>>
     \/ /\ saved.http /\ lock' = c /\ token' = (IF token = 0 THEN 1 ELSE token) /\ UNCHANGED faults
        /\ task' = [task EXCEPT ![c] = [Idle EXCEPT !.op = "start", !.at = "apply"]]
     \/ saved.http /\ Fault /\ UNCHANGED <<token, lock, task>>
  /\ UNCHANGED <<up, saved, rows, groups, server>>
-----------------------------------------------------------------------------
\* rename_session_group: the sessions first, then the row of the permissions.
RenameGroup(c) ==
  \E g \in groups, new \in Groups \ groups :
    /\ up /\ task[c] = Idle
    /\ groups' = (groups \ {g}) \cup {new}
    /\ task' = Disturb(c, [Idle EXCEPT !.op = "rename", !.at = "row", !.from = g, !.to = new,
                                       !.rowsWere = rows, !.groupsWere = groups,
                                       !.alone = \A e \in Callers \ {c} : task[e] = Idle])
    /\ UNCHANGED <<up, starting, saved, rows, token, server, lock, faults>>

\* A row that already has the new name is a conflict of the primary key.
RenameRow(c) ==
  /\ task[c].op = "rename" /\ task[c].at = "row"
  /\ LET g == task[c].from  new == task[c].to IN
       \/ /\ rows[g] = None \/ rows[new] = None
          /\ rows' = IF rows[g] = None THEN rows ELSE [rows EXCEPT ![g] = None, ![new] = rows[g]]
          /\ task' = Disturb(c, Idle) /\ UNCHANGED faults
       \/ rows[g] # None /\ rows[new] # None /\ Goto(c, "back") /\ UNCHANGED <<rows, faults>>
       \/ Fault /\ Goto(c, "back") /\ UNCHANGED rows
  /\ UNCHANGED <<up, starting, saved, groups, token, server, lock>>

RenameBack(c) ==
  /\ task[c].at = "back"
  /\ \/ /\ groups' = (groups \ {task[c].to}) \cup {task[c].from} /\ UNCHANGED <<lock, faults>>
        /\ task' = Disturb(c, Idle)
     \/ Fault /\ Return(c) /\ UNCHANGED groups
  /\ UNCHANGED <<up, starting, saved, rows, token, server>>

\* delete_session_group: the table is read, the row goes, then the sessions.
DeleteGroup(c) ==
  \E g \in groups :
    /\ up /\ task[c] = Idle
    /\ task' = [task EXCEPT ![c] =
         [Idle EXCEPT !.op = "delete", !.at = "row", !.from = g, !.rowsWere = rows, !.groupsWere = groups,
                      !.alone = \A e \in Callers \ {c} : task[e] = Idle]]
    /\ UNCHANGED <<up, starting, saved, rows, groups, token, server, lock, faults>>

DeleteRow(c) ==
  /\ task[c].op = "delete" /\ task[c].at = "row"
  /\ \/ /\ rows' = [rows EXCEPT ![task[c].from] = None] /\ UNCHANGED <<lock, faults>>
        /\ task' = Disturb(c, [task[c] EXCEPT !.at = "sessions"])
     \/ Fault /\ Return(c) /\ UNCHANGED rows
  /\ UNCHANGED <<up, starting, saved, groups, token, server>>

\* Changed: the row stays deleted when the sessions are not.
DeleteHalf(c) ==
  /\ task[c].at = "sessions"
  /\ \/ groups' = groups \ {task[c].from} /\ task' = Disturb(c, Idle) /\ UNCHANGED <<lock, faults>>
     \/ Fault /\ Return(c) /\ UNCHANGED groups
  /\ UNCHANGED <<up, starting, saved, rows, token, server>>

DeleteSessions(c) ==
  /\ task[c].at = "sessions"
  /\ \/ /\ groups' = groups \ {task[c].from} /\ UNCHANGED faults
        /\ task' = Disturb(c, Idle)
     \/ Fault /\ Goto(c, "rows") /\ UNCHANGED groups
  /\ UNCHANGED <<up, starting, saved, rows, token, server, lock>>

RestoreRows(c) ==
  /\ task[c].at = "rows"
  /\ \/ /\ rows' = task[c].rowsWere /\ UNCHANGED <<lock, faults>>
        /\ task' = Disturb(c, Idle)
     \/ Fault /\ Return(c) /\ UNCHANGED rows
  /\ UNCHANGED <<up, starting, saved, groups, token, server>>

Next ==
  \/ Boot \/ Crash
  \/ \E c \in Pages :
       \/ UpdateSettings(c) \/ ConfigureAgents(c) \/ List(c) \/ Read(c) \/ Replace(c) \/ Token(c)
       \/ Transport(c) \/ Runtime(c) \/ Undo(c) \/ Restore(c)
       \/ AgentValue(c) \/ Abandon(c) \/ WriteAgent(c)
       \/ ClientConfig(c) \/ MakeToken(c) \/ RotateToken(c) \/ StoreToken(c) \/ Apply(c) \/ StartServer(c)
  \/ \E c \in Lists :
       \/ RenameGroup(c) \/ RenameRow(c) \/ RenameBack(c)
       \/ DeleteGroup(c) \/ DeleteRow(c) \/ DeleteSessions(c) \/ RestoreRows(c)

Spec == Init /\ [][Next]_vars
-----------------------------------------------------------------------------
TypeOK ==
  /\ up \in BOOLEAN /\ starting \in BOOLEAN /\ saved \in Setting /\ groups \subseteq Groups
  /\ token \in 0 .. MaxTokens /\ server \in Connection \cup {None}
  /\ lock \in Callers \cup {None} /\ faults \in 0 .. MaxFaults

\* Between the commands of the settings page the listener is the one the
\* settings and the credential store describe, whatever order of updates,
\* resets of the token and failed binds led there, unless a second failure hit
\* the way back; without failures it runs exactly when the settings say so
\* (update_mcp_settings_locked).
ServerAgrees ==
  lock = None /\ up /\ faults <= 1 =>
    /\ server # None => saved.http /\ server = [port |-> saved.port, token |-> token]
    /\ faults = 0 /\ ~starting /\ saved.http => server # None

\* While the files of the agents are written the listener is the one that is
\* written to them, also when nobody waits for the command any more
\* (run_local_agent_operation).
AgentWritten ==
  \A c \in Callers : task[c].at \in {"writing", "unheard"} => server = task[c].value

\* A command ends with all of its effect or with none: settings and
\* permissions, or the group of the sessions and its row, change together,
\* unless another command wrote to them meanwhile or the way back failed too
\* (update_mcp_settings_locked, rename_session_group, delete_session_group).
CommandsAtomic ==
  [][\A c \in Callers :
       LET t == task[c]
           undoFails == t.at \in {"undo", "restore", "back", "rows"} /\ faults' # faults IN
         t # Idle /\ task'[c] = Idle /\ up' /\ t.alone /\ ~undoFails =>
           /\ t.was # None => \/ saved' = t.want /\ rows' = t.perms
                              \/ saved' = t.was /\ rows' = t.rowsWere
           /\ t.from # None => \/ t.from \notin groups' /\ rows'[t.from] = None
                               \/ groups' = t.groupsWere /\ rows' = t.rowsWere]_vars
=============================================================================
