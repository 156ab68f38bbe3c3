--------------------------- MODULE BrokerConnection ---------------------------
(***************************************************************************)
(* A connection through the broker: the desktop asks over the pipe, the    *)
(* service logs in with what it has sealed, and carries the channels until *)
(* one side leaves or the record changes (broker/src/service.rs serve,     *)
(* proxy.rs; broker_service.rs connect_local_stream).                      *)
(***************************************************************************)
EXTENDS Naturals

CONSTANTS MaxRevision, MaxChannels

VARIABLES revision,  \* of the record; it is deleted at 0
          client,    \* side of the desktop
          serving,   \* step of the task of the service
          used,      \* revision the task has loaded
          noticed,   \* the poll of the revision has ended
          remote,    \* SSH session to the target
          channels

vars == <<revision, client, serving, used, noticed, remote, channels>>

Init ==
  /\ revision \in 0..1 /\ client = "idle" /\ serving = "none" /\ used = 0 /\ noticed = FALSE
  /\ remote = "none" /\ channels = 0

\* An approved change of the record, from elsewhere.
RecordChanges ==
  /\ revision < MaxRevision /\ revision' = revision + 1
  /\ UNCHANGED <<client, serving, used, noticed, remote, channels>>
-----------------------------------------------------------------------------
\* connect_local_stream, which gives up after 55 seconds.
Ask ==
  /\ client = "idle" /\ client' = "asking"
  /\ UNCHANGED <<revision, serving, used, noticed, remote, channels>>

ClientLeaves ==
  /\ client \in {"asking", "connected"} /\ client' = "left"
  /\ UNCHANGED <<revision, serving, used, noticed, remote, channels>>

ClientEnds ==
  /\ client = "refused" /\ client' = "left"
  /\ UNCHANGED <<revision, serving, used, noticed, remote, channels>>

\* The task is over: what it holds is dropped, and the pipe with it.
Over(answer) ==
  /\ serving' = "none" /\ remote' = "none" /\ channels' = 0 /\ noticed' = FALSE /\ used' = 0
  /\ client' = IF client = "left" THEN "idle" ELSE answer
  /\ UNCHANGED revision

\* More than 64 clients: the pipe is dropped.
TooMany == client = "asking" /\ serving = "none" /\ Over("idle")

\* The record is loaded under the lock, or there is none.
Load ==
  /\ serving = "none" /\ client = "asking"
  /\ IF revision = 0 THEN Over("idle")
     ELSE /\ serving' = "connect" /\ used' = revision
          /\ UNCHANGED <<revision, client, noticed, remote, channels>>

\* Changed: only a login looks at the revision.
PollLogin ==
  /\ serving \in {"connect", "login"} /\ revision # used /\ ~noticed
  /\ noticed' = TRUE
  /\ UNCHANGED <<revision, client, serving, used, remote, channels>>

\* Every 100 milliseconds, from the loading to the end.
Poll ==
  /\ serving \in {"connect", "login", "serving"} /\ revision # used /\ ~noticed
  /\ noticed' = TRUE
  /\ UNCHANGED <<revision, client, serving, used, remote, channels>>

\* Remote::check_server_key: only the key of the profile goes on.
HostKey ==
  /\ serving = "connect"
  /\ \E expected \in BOOLEAN :
       IF expected THEN /\ remote' = "known" /\ serving' = "login"
                        /\ UNCHANGED <<revision, client, used, noticed, channels>>
       ELSE Over("idle")

\* The three ways to log in; each may be refused or time out.
Login ==
  /\ serving = "login"
  /\ \/ remote' = "open" /\ serving' = "answer"
        /\ UNCHANGED <<revision, client, used, noticed, channels>>
     \/ Over("idle")

\* The revision or the client interrupts the login.
LoginInterrupted ==
  /\ serving \in {"connect", "login"} /\ (noticed \/ client = "left")
  /\ Over("idle")

\* Response::Connected; a client that is gone gets its session closed.
Answer ==
  /\ serving = "answer"
  /\ IF client = "left" THEN Over("idle")
     ELSE /\ client' = "connected" /\ serving' = "serving"
          /\ UNCHANGED <<revision, used, noticed, remote, channels>>

\* channel_open_session; the channels that ended are joined first.
OpenChannel ==
  /\ serving = "serving" /\ client = "connected" /\ channels < MaxChannels /\ channels' = channels + 1
  /\ UNCHANGED <<revision, client, serving, used, noticed, remote>>

CloseChannel ==
  /\ channels > 0 /\ channels' = channels - 1
  /\ UNCHANGED <<revision, client, serving, used, noticed, remote>>

\* serve_until: the pipe ends, the target ends, or the record has changed.
Serve ==
  /\ serving = "serving" /\ (client = "left" \/ noticed)
  /\ serving' = "closing" /\ channels' = 0
  /\ client' = IF client = "left" THEN client ELSE "refused"
  /\ UNCHANGED <<revision, used, noticed, remote>>

TargetEnds ==
  /\ serving = "serving" /\ serving' = "closing" /\ channels' = 0
  /\ client' = IF client = "left" THEN client ELSE "refused"
  /\ UNCHANGED <<revision, used, noticed, remote>>

\* Changed: the session to the target is left open.
KeepRemote ==
  /\ serving = "closing" /\ serving' = "none" /\ noticed' = FALSE /\ used' = 0
  /\ client' = "idle" /\ UNCHANGED <<revision, remote, channels>>

CloseRemote == serving = "closing" /\ Over("idle")

\* STOP: every task is aborted.
ServiceStops == serving # "none" /\ Over("idle")

Task == Load \/ Poll \/ HostKey \/ Login \/ LoginInterrupted \/ Answer \/ Serve \/ CloseRemote

Next ==
  \/ RecordChanges \/ Ask \/ ClientLeaves \/ ClientEnds \/ TooMany \/ Load \/ Poll \/ HostKey \/ Login
  \/ LoginInterrupted \/ Answer \/ OpenChannel \/ CloseChannel \/ Serve \/ TargetEnds \/ CloseRemote \/ ServiceStops

\* The tasks of the runtime run, and every wait of a login has a timeout.
Fairness == WF_vars(Task) /\ WF_vars(Poll) /\ WF_vars(Serve)
-----------------------------------------------------------------------------
TypeOK ==
  /\ revision \in 0..MaxRevision /\ used \in 0..MaxRevision /\ channels \in 0..MaxChannels
  /\ serving \in {"none", "connect", "login", "answer", "serving", "closing"}
  /\ client \in {"idle", "asking", "connected", "left", "refused"} /\ noticed \in BOOLEAN
  /\ remote \in {"none", "known", "open"}

\* A session that was opened with credentials that have since been changed or
\* deleted is closed (the poll of serve and serve_until).
StaleCloses == (used # 0 /\ used # revision) ~> used = 0

\* A session to the target does not outlive the desktop that asked for it.
LeftCloses == (client = "left") ~> (remote = "none")
=============================================================================
