---------------------------- MODULE LocalTerminal ----------------------------
(***************************************************************************)
(* The terminals of local shells (local_terminal_service/mod.rs) and the   *)
(* host process of each one (host.rs): a start reserves its tab, launches  *)
(* the host, maybe through UAC, shakes hands over a pipe and registers the *)
(* terminal; stopping, cancelling and deleting race with all of it, and    *)
(* the desktop may die at any time.                                        *)
(***************************************************************************)
EXTENDS FiniteSets

CONSTANTS Requests,   \* starts, each with a request identifier of its own
          Tabs

VARIABLES tab,        \* tab of each start
          attempt,    \* step of each start
          pending,    \* reservations of the registry
          entries,    \* terminals of the registry
          remembered, \* requests whose cancellation arrived; the last 1024 of them
          token,      \* starts and terminals whose token is cancelled
          launching,  \* processes that are being created
          host,       \* "none", "born", "ready" with its shell, or "dead" with it
          desktop,    \* the desktop runs
          session     \* "kept", "deleted" from the file, or "stopped" after that

vars == <<tab, attempt, pending, entries, remembered, token, launching, host, desktop, session>>

Init ==
  /\ tab \in [Requests -> Tabs] /\ attempt = [r \in Requests |-> "idle"]
  /\ pending = {} /\ entries = {} /\ remembered = {} /\ token = {} /\ launching = {}
  /\ host = [r \in Requests |-> "none"] /\ desktop = TRUE /\ session = "kept"

Goto(r, step) == attempt' = [attempt EXCEPT ![r] = step]
Becomes(r, what) == host' = [host EXCEPT ![r] = what]
Alive(r) == host[r] \in {"born", "ready"}
-----------------------------------------------------------------------------
\* Starting.

\* start_local_terminal finds the session; its parameters are valid.
Start(r) ==
  /\ desktop /\ attempt[r] = "idle" /\ session = "kept" /\ Goto(r, "found")
  /\ UNCHANGED <<tab, pending, entries, remembered, token, launching, host, desktop, session>>

\* Changed: cancellations that came first are not looked up.
ReserveAlways(r) ==
  /\ attempt[r] = "found"
  /\ IF \E o \in pending \cup entries : tab[o] = tab[r]
     THEN Goto(r, "ended") /\ UNCHANGED <<pending, launching>>
     ELSE Goto(r, "launch") /\ pending' = pending \cup {r} /\ launching' = launching \cup {r}
  /\ UNCHANGED <<tab, entries, remembered, token, host, desktop, session>>

Reserve(r) ==
  /\ attempt[r] = "found"
  /\ IF r \in remembered \/ \E o \in pending \cup entries : tab[o] = tab[r]
     THEN Goto(r, "ended") /\ UNCHANGED <<pending, launching>>
     ELSE Goto(r, "launch") /\ pending' = pending \cup {r} /\ launching' = launching \cup {r}
  /\ UNCHANGED <<tab, entries, remembered, token, host, desktop, session>>

\* An error, a timeout or a cancelled token: the lease and the process go.
Fail(r) ==
  /\ Goto(r, "ended") /\ pending' = pending \ {r} /\ token' = token \cup {r}
  /\ host' = [host EXCEPT ![r] = IF Alive(r) THEN "dead" ELSE @]
  /\ UNCHANGED <<tab, entries, remembered, desktop, session>>

Fails(r) == attempt[r] = "shake" /\ Fail(r) /\ UNCHANGED launching

Cancelled(r) == attempt[r] \in {"launch", "shake"} /\ r \in token /\ Fail(r) /\ UNCHANGED launching

\* Changed: the process of a start that has ended is forgotten.
LaunchedForgotten(r) ==
  /\ r \in launching /\ launching' = launching \ {r}
  /\ \/ Becomes(r, "born") /\ attempt' = [attempt EXCEPT ![r] = IF @ = "launch" THEN "shake" ELSE @]
        /\ UNCHANGED <<tab, pending, entries, remembered, token, desktop, session>>
     \/ attempt[r] = "launch" /\ Fail(r)

\* The blocking task of a launch ends; a process that nobody waits for any more
\* is killed by its guard.
Launched(r) ==
  /\ r \in launching /\ launching' = launching \ {r}
  /\ \/ /\ Becomes(r, IF attempt[r] # "launch" /\ desktop THEN "dead" ELSE "born")
        /\ attempt' = [attempt EXCEPT ![r] = IF @ = "launch" THEN "shake" ELSE @]
        /\ UNCHANGED <<tab, pending, entries, remembered, token, desktop, session>>
     \/ attempt[r] = "launch" /\ Fail(r)

\* Ready, and the terminal in the registry unless its token is cancelled.
Insert(r) ==
  /\ attempt[r] = "shake" /\ host[r] = "ready" /\ UNCHANGED launching
  /\ IF r \in token THEN Fail(r)
     ELSE /\ entries' = entries \cup {r} /\ Goto(r, "return")
          /\ UNCHANGED <<tab, pending, remembered, token, host, desktop, session>>

Return(r) ==
  /\ attempt[r] = "return" /\ Goto(r, "done") /\ pending' = pending \ {r}
  /\ UNCHANGED <<tab, entries, remembered, token, launching, host, desktop, session>>

\* The task of a terminal: a cancelled token, the exit of the host, a lost pipe.
End(r) ==
  /\ r \in entries /\ (r \in token \/ host[r] = "dead")
  /\ entries' = entries \ {r} /\ Becomes(r, "dead")
  /\ UNCHANGED <<tab, attempt, pending, remembered, token, launching, desktop, session>>
-----------------------------------------------------------------------------
\* Ending.

\* Changed: only what the registry has is cancelled.
CancelKnown(r) ==
  /\ desktop /\ r \notin remembered
  /\ remembered' = remembered \cup {r} /\ token' = token \cup (pending \cap {r})
  /\ UNCHANGED <<tab, attempt, pending, entries, launching, host, desktop, session>>

CancelStart(r) ==
  /\ desktop /\ r \notin remembered
  /\ remembered' = remembered \cup {r} /\ token' = token \cup ({r} \cap (pending \cup entries))
  /\ UNCHANGED <<tab, attempt, pending, entries, launching, host, desktop, session>>

Stop(r) ==
  /\ desktop /\ r \in entries \ token /\ token' = token \cup {r}
  /\ UNCHANGED <<tab, attempt, pending, entries, remembered, launching, host, desktop, session>>

Delete ==
  /\ desktop /\ session = "kept" /\ session' = "deleted"
  /\ UNCHANGED <<tab, attempt, pending, entries, remembered, token, launching, host, desktop>>

StopAll == token' = token \cup pending \cup entries

\* stop_session, of the session of the instance.
StopSession ==
  /\ desktop /\ session = "deleted" /\ session' = "stopped" /\ StopAll
  /\ UNCHANGED <<tab, attempt, pending, entries, remembered, launching, host, desktop>>

\* shutdown, and the end or a crash of the desktop.
Shutdown ==
  /\ desktop /\ StopAll
  /\ UNCHANGED <<tab, attempt, pending, entries, remembered, launching, host, desktop, session>>

Crash ==
  /\ desktop /\ desktop' = FALSE /\ pending' = {} /\ entries' = {}
  /\ attempt' = [r \in Requests |-> "ended"]
  /\ UNCHANGED <<tab, remembered, token, launching, host, session>>
-----------------------------------------------------------------------------
\* The hosts.

Ready(r) ==
  /\ host[r] = "born" /\ desktop /\ attempt[r] = "shake" /\ Becomes(r, "ready")
  /\ UNCHANGED <<tab, attempt, pending, entries, remembered, token, launching, desktop, session>>

\* The host fails, or its shell exits and it reports that.
HostEnds(r) ==
  /\ Alive(r) /\ Becomes(r, "dead")
  /\ UNCHANGED <<tab, attempt, pending, entries, remembered, token, launching, desktop, session>>

\* Changed: a host does not watch its parent.
NoWatch(r) == FALSE /\ UNCHANGED vars

\* A host without its desktop ends, and the job object ends its shell.
Watch(r) == ~desktop /\ HostEnds(r)

Next ==
  \/ Delete \/ StopSession \/ Shutdown \/ Crash
  \/ \E r \in Requests :
       \/ Start(r) \/ Reserve(r) \/ Fails(r) \/ Cancelled(r) \/ Launched(r) \/ Insert(r) \/ Return(r) \/ End(r)
       \/ CancelStart(r) \/ Stop(r) \/ Ready(r) \/ HostEnds(r) \/ Watch(r)

\* The tasks run, launching returns at the latest when the user answers UAC, a
\* handshake has 30 s, hosts watch their parent.
Fairness ==
  \A r \in Requests :
    /\ WF_vars(Reserve(r)) /\ WF_vars(Cancelled(r)) /\ WF_vars(Launched(r)) /\ WF_vars(Fails(r) \/ Insert(r))
    /\ WF_vars(Return(r)) /\ WF_vars(End(r)) /\ WF_vars(Watch(r))
-----------------------------------------------------------------------------
\* A start that the user cancelled never leaves a shell running, whether the
\* cancellation came before the start, while it launched or shook hands, or
\* after it had returned.
CancelEnds == \A r \in Requests : (r \in remembered) ~> [](~Alive(r))

\* A host that is not, or no longer, of a start or of a terminal in the registry
\* ends: a late answer of UAC, a lost race, a crash of the desktop.
Reclaimed == \A r \in Requests : (Alive(r) /\ r \notin pending \cup entries) ~> ~Alive(r)
=============================================================================
