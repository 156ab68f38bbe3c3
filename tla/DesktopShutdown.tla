---------------------------- MODULE DesktopShutdown ----------------------------
(***************************************************************************)
(* How an installation closes the desktops that run from its directories   *)
(* (broker/installation/desktop_shutdown.rs), between other processes of   *)
(* the same name, while desktops start and end by themselves, process      *)
(* identifiers are used again and a person takes any time to answer.       *)
(***************************************************************************)
EXTENDS FiniteSets, Naturals, SequencesExt

CONSTANTS Desktops,  \* processes that run fstty.exe of the directories
          Others,    \* processes that run an fstty.exe from somewhere else
          Pids, None

Processes == Desktops \cup Others

VARIABLES pid,       \* of each process that has been started, or None
          alive,     \* processes that run: a terminated one ends when it ends
          confirm,   \* the installation asks before it closes anything
          step,      \* of the installation
          round,     \* which scan: "first", "second", "last"
          left,      \* identifiers of the snapshot that are still to be opened
          targets,   \* processes found, in the order of the snapshot
          place,     \* the one it is at
          approved,  \* history: the person said yes
          killed,    \* history: processes that were terminated
          since      \* history: processes started since the last scan's snapshot

system == <<pid, alive>>
scanned == <<round, left, targets, place>>
history == <<approved, killed, since>>
vars == <<system, confirm, step, scanned, history>>

Init ==
  /\ pid \in [Processes -> Pids \cup {None}] /\ alive = {p \in Processes : pid[p] # None}
  /\ \A p, q \in alive : pid[p] = pid[q] => p = q
  /\ confirm \in BOOLEAN /\ step = "snapshot" /\ round = "first" /\ left = {} /\ targets = <<>> /\ place = 1
  /\ approved = FALSE /\ killed = {} /\ since = {}

\* The process that an identifier names now.
Named(n) == {p \in alive : pid[p] = n}
-----------------------------------------------------------------------------
\* targets: a snapshot, then each identifier of it is opened.

Snapshot ==
  /\ step = "snapshot" /\ UNCHANGED <<system, confirm, round, approved, killed>>
  /\ \/ step' = "open" /\ left' = {pid[p] : p \in alive} /\ targets' = <<>> /\ place' = 1
        /\ since' = {}
     \/ step' = "failed" /\ UNCHANGED <<left, targets, place, since>>

\* A process that has gone is left out; one that cannot be looked into is not.
Open(n) ==
  /\ step = "open" /\ n \in left /\ left' = left \ {n}
  /\ \/ Named(n) = {} /\ UNCHANGED <<step, targets>>
     \/ \E p \in Named(n) : step' = step /\ targets' = IF p \in Desktops THEN Append(targets, p) ELSE targets
     \/ Named(n) # {} /\ step' = "failed" /\ UNCHANGED targets
  /\ UNCHANGED <<system, confirm, round, place, history>>

\* close_with, after each scan; a list that is older than the answer is dropped.
Scanned ==
  /\ step = "open" /\ left = {}
  /\ step' = CASE round = "last" -> "remaining"
               [] round = "first" /\ targets # <<>> /\ confirm -> "ask"
               [] OTHER -> "terminate"
  /\ UNCHANGED <<system, confirm, scanned, history>>

Answer(yes) ==
  /\ step = "ask" /\ approved' = yes
  /\ IF yes THEN step' = "snapshot" /\ round' = "second" /\ targets' = <<>>
            ELSE step' = "failed" /\ UNCHANGED <<round, targets>>
  /\ UNCHANGED <<system, confirm, left, place, killed, since>>
-----------------------------------------------------------------------------
\* stop_batch: every termination is asked for, then all are waited for.

After == IF step = "terminate" THEN "wait" ELSE "again"
Following ==
  IF place < Len(targets) THEN place' = place + 1 /\ step' = step ELSE place' = 1 /\ step' = After

\* Changed: whatever has the identifier now is terminated.
TerminatePid ==
  /\ step = "terminate" /\ place <= Len(targets) /\ Following
  /\ \/ UNCHANGED killed
     \/ targets[place] \notin alive /\ UNCHANGED killed
     \/ Named(pid[targets[place]]) # {} /\ killed' = killed \cup Named(pid[targets[place]])
  /\ UNCHANGED <<system, confirm, round, left, targets, approved, since>>

\* It is opened again to be terminated; both handles must name one process.  A
\* refusal is kept for the message only.
Terminate ==
  /\ step = "terminate" /\ place <= Len(targets) /\ Following
  /\ \/ UNCHANGED killed
     \/ targets[place] \in Named(pid[targets[place]]) /\ killed' = killed \cup {targets[place]}
  /\ UNCHANGED <<system, confirm, round, left, targets, approved, since>>

\* The handle tells whether it has ended; one budget of time for all of them.
Wait ==
  /\ step = "wait" /\ place <= Len(targets)
  /\ \/ targets[place] \notin alive /\ Following
     \/ targets[place] \in alive /\ step' = "failed" /\ UNCHANGED place
  /\ UNCHANGED <<system, confirm, round, left, targets, history>>

AllWaited == step = "again" \/ (targets = <<>> /\ step = "terminate")

\* Changed: the waits were for all of them.
StoppedAll == AllWaited /\ step' = "done" /\ UNCHANGED <<system, confirm, scanned, history>>

Stopped ==
  /\ AllWaited
  /\ step' = "snapshot" /\ round' = "last"
  /\ UNCHANGED <<system, confirm, left, targets, place, history>>

\* A desktop of the last scan that still runs is left alone and stops the installation.
Remaining ==
  /\ step = "remaining"
  /\ step' = IF \E i \in DOMAIN targets : targets[i] \in alive THEN "failed" ELSE "done"
  /\ UNCHANGED <<system, confirm, scanned, history>>
-----------------------------------------------------------------------------
\* The computer.  An identifier is free when its process has ended.

Start(p, n) ==
  /\ pid[p] = None /\ Named(n) = {} /\ pid' = [pid EXCEPT ![p] = n] /\ alive' = alive \cup {p}
  /\ since' = IF round = "last" THEN since \cup {p} ELSE since
  /\ UNCHANGED <<confirm, step, scanned, approved, killed>>

\* It was terminated, or ends by itself.
End(p) ==
  /\ p \in alive /\ alive' = alive \ {p}
  /\ UNCHANGED <<pid, confirm, step, scanned, history>>
-----------------------------------------------------------------------------
Install ==
  \/ Snapshot \/ Scanned \/ Terminate \/ Wait \/ Stopped \/ Remaining
  \/ \E n \in Pids : Open(n)

Next ==
  \/ Install
  \/ \E yes \in BOOLEAN : Answer(yes)
  \/ \E p \in Processes : End(p) \/ \E n \in Pids : Start(p, n)

Spec == Init /\ [][Next]_vars
-----------------------------------------------------------------------------
\* Only desktops of the directories are terminated, and where a person is asked
\* only after the person agreed, however identifiers are used again between the
\* look at a process and its termination.
OnlyDesktopsKilled == killed \subseteq Desktops /\ (confirm /\ killed # {} => approved)

\* Program files are replaced only when no desktop of the directories is left that
\* ran when the last scan began; one started while the others were closed stops
\* the installation.
AllClosed == step = "done" => Desktops \cap alive \subseteq since
===============================================================================
