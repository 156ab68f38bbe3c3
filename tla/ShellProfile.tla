----------------------------- MODULE ShellProfile -----------------------------
(***************************************************************************)
(* What the hosts of local terminals prepare before they start a shell     *)
(* (local_terminal_service/history.rs, highlighting.rs): the profile that  *)
(* every tab of one shell and one terminal configuration shares, with its  *)
(* fixed settings and the history of the shell, and the directory of its   *)
(* own whose files the host holds while the shell runs.  All of it is kept *)
(* safe by the share modes of open files alone.                            *)
(***************************************************************************)
EXTENDS Naturals, SequencesExt

CONSTANTS Hosts,      \* hosts of one shell, one profile
          Settings,   \* its fixed settings, of a cmd host: clink_settings and .inputrc
          Attempts,   \* tries to open a file that another program holds, 40 in the code
          OwnFiles,   \* files of a cmd host's own directory, 6 in the code
          Other, None \* any other program of the user; nobody

Entries == ToSet(Settings) \cup {"history"}

VARIABLES kind,    \* the shell
          file,    \* contents of the entries of the profile: none, partial, whole, changed
          writer,  \* who has an entry open and lets nobody read it
          reading, \* hosts that hold an entry: it can be read, not written or deleted
          active,  \* hosts whose shell has a file of its running session in the profile
          host,    \* step, what is left to look at, settings installed, tries, profile kept
          own      \* the own directory: it exists, files written, held, as the host wrote them

shared == <<file, writer, reading>>
vars == <<kind, shared, active, host, own>>

Ended == [step |-> "ended", listed |-> {}, installed |-> 0, tries |-> 0, profile |-> FALSE]
NoOwn == [made |-> FALSE, written |-> 0, held |-> 0, ours |-> TRUE]

Init ==
  /\ kind \in {"cmd", "bash", "powershell"}
  /\ file = [n \in Entries |-> "none"] /\ writer = [n \in Entries |-> None] /\ reading = [n \in Entries |-> {}]
  /\ active = {} /\ host = [h \in Hosts |-> Ended] /\ own = [h \in Hosts |-> NoOwn]

Fixed == IF kind = "cmd" THEN Len(Settings) ELSE 0
Files == CASE kind = "cmd" -> OwnFiles [] kind = "bash" -> 1 [] kind = "powershell" -> 0
Present == {n \in Entries : file[n] # "none"} \cup active
Wanted(h) == Settings[host[h].installed + 1]
-----------------------------------------------------------------------------
\* The profile.

At(h, step) == host[h].step = step
Goto(h, step) == host' = [host EXCEPT ![h].step = step, ![h].tries = 0]

\* The steps of installing the settings, then the history.
Following(h, installed) ==
  host' = [host EXCEPT ![h].step = IF installed < Fixed THEN "install" ELSE "data", ![h].installed = installed, ![h].tries = 0]

\* The profile is given up, with all that it holds; the shell starts without it.
Lose(h) ==
  /\ host' = [host EXCEPT ![h] = [Ended EXCEPT !.step = "own"]]
  /\ reading' = [n \in Entries |-> reading[n] \ {h}]

\* Profile::prepare: the directories, which may be refused, and the list of entries.
Prepare(h) ==
  /\ At(h, "ended")
  /\ \/ host' = [host EXCEPT ![h] = [Ended EXCEPT !.step = "check", !.listed = Present, !.profile = TRUE]]
     \/ host' = [host EXCEPT ![h] = [Ended EXCEPT !.step = "own"]]
  /\ UNCHANGED <<kind, shared, active, own>>

\* One entry: its type and links are asked for without opening its data.
Check(h) ==
  /\ At(h, "check") /\ UNCHANGED <<kind, file, writer, active, own>>
  /\ IF host[h].listed = {} THEN Following(h, 0) /\ UNCHANGED reading
     ELSE \E e \in host[h].listed :
            IF e \in Present THEN host' = [host EXCEPT ![h].listed = @ \ {e}] /\ UNCHANGED reading ELSE Lose(h)

\* install: the first one creates the file, closed to everyone else.
Create(h) ==
  /\ At(h, "install") /\ UNCHANGED <<kind, reading, active, own>>
  /\ LET n == Wanted(h)
     IN IF file[n] = "none"
        THEN writer' = [writer EXCEPT ![n] = h] /\ file' = [file EXCEPT ![n] = "partial"] /\ Goto(h, "write")
        ELSE Goto(h, "open") /\ UNCHANGED <<file, writer>>

Write(h) ==
  /\ At(h, "write") /\ UNCHANGED <<kind, active, own>>
  /\ LET n == Wanted(h)
     IN /\ writer' = [writer EXCEPT ![n] = None]
        /\ \/ file' = [file EXCEPT ![n] = "whole"] /\ Goto(h, "open") /\ UNCHANGED reading
           \/ UNCHANGED file /\ Lose(h)

\* Changed: the file is waited for as long as it takes.
RetryOn(h) == UNCHANGED <<host, reading>>

\* A file that is held is tried again, not for ever.
Retry(h) ==
  IF host[h].tries + 1 < Attempts THEN host' = [host EXCEPT ![h].tries = @ + 1] /\ UNCHANGED reading ELSE Lose(h)

Open(h) ==
  /\ At(h, "open") /\ UNCHANGED <<kind, file, writer, active, own>>
  /\ LET n == Wanted(h)
     IN IF writer[n] = None THEN reading' = [reading EXCEPT ![n] = @ \cup {h}] /\ Goto(h, "verify") ELSE Retry(h)

\* Changed: the file is closed again after it was compared.
VerifyReleased(h) ==
  /\ At(h, "verify") /\ UNCHANGED <<kind, file, writer, active, own>>
  /\ LET n == Wanted(h)
     IN IF file[n] = "whole"
        THEN Following(h, host[h].installed + 1) /\ reading' = [reading EXCEPT ![n] = @ \ {h}]
        ELSE Lose(h)

\* The whole file is compared, and kept open with the profile.
Verify(h) ==
  /\ At(h, "verify") /\ UNCHANGED <<kind, file, writer, active, own>>
  /\ IF file[Wanted(h)] = "whole" THEN Following(h, host[h].installed + 1) /\ UNCHANGED reading ELSE Lose(h)

DataFile(h) ==
  /\ At(h, "data") /\ UNCHANGED <<kind, writer, active, own>>
  /\ IF writer["history"] = None
     THEN file' = [file EXCEPT !["history"] = "whole"] /\ Goto(h, "own") /\ UNCHANGED reading
     ELSE Retry(h) /\ UNCHANGED file
-----------------------------------------------------------------------------
\* The own directory and the shell.

\* Drop of a lease: the files are closed, then the directory is removed.
Released(h) == own' = [own EXCEPT ![h] = NoOwn]

\* prepare's last case: the shell starts with nothing of FsTTY's.
Fallback(h) ==
  /\ host' = [host EXCEPT ![h].step = "running", ![h].profile = FALSE]
  /\ reading' = [n \in Entries |-> reading[n] \ {h}] /\ Released(h)

\* The directory, in one that only administrators can change when they use it;
\* either may be refused.
Lease(h) ==
  /\ At(h, "own") /\ ~own[h].made /\ UNCHANGED <<kind, file, writer, active>>
  /\ \/ Files = 0 /\ Goto(h, "running") /\ UNCHANGED <<reading, own>>
     \/ Files > 0 /\ own' = [own EXCEPT ![h].made = TRUE] /\ UNCHANGED <<host, reading>>
     \/ Fallback(h)

\* write_locked, first handle: create_new, written, closed.
WriteOwn(h) ==
  /\ At(h, "own") /\ own[h].made /\ own[h].written = own[h].held /\ own[h].held < Files
  /\ \/ own' = [own EXCEPT ![h].written = @ + 1] /\ UNCHANGED <<host, reading>>
     \/ Fallback(h)
  /\ UNCHANGED <<kind, file, writer, active>>

\* Changed: what was written needs no comparison.
HoldUnread(h) ==
  /\ At(h, "own") /\ own[h].written > own[h].held
  /\ own' = [own EXCEPT ![h].held = @ + 1] /\ UNCHANGED <<host, reading>>
  /\ UNCHANGED <<kind, file, writer, active>>

\* write_locked, second handle: what is read through it is what was written.
Hold(h) ==
  /\ At(h, "own") /\ own[h].written > own[h].held
  /\ \/ own[h].ours /\ own' = [own EXCEPT ![h].held = @ + 1] /\ UNCHANGED <<host, reading>>
     \/ Fallback(h)
  /\ UNCHANGED <<kind, file, writer, active>>

\* A shell that uses the profile opens a file for its running session.
Run(h) ==
  /\ At(h, "own") /\ own[h].made /\ own[h].held = Files
  /\ Goto(h, "running") /\ active' = IF host[h].profile THEN active \cup {h} ELSE active
  /\ UNCHANGED <<kind, shared, own>>

\* The shell has ended and its files with it; the end of the host closes the rest.
Close(h) ==
  /\ host' = [host EXCEPT ![h] = Ended] /\ active' = active \ {h}
  /\ reading' = [n \in Entries |-> reading[n] \ {h}]
  /\ writer' = [n \in Entries |-> IF writer[n] = h THEN None ELSE writer[n]]

Exit(h) == At(h, "running") /\ Close(h) /\ Released(h) /\ UNCHANGED <<kind, file>>

\* The desktop ends, or the start is cancelled: the host is killed; its directory stays.
Killed(h) == ~At(h, "ended") /\ Close(h) /\ Released(h) /\ UNCHANGED <<kind, file>>
-----------------------------------------------------------------------------
\* Other programs of the user, as far as open files let them.

Take(n) ==
  /\ file[n] # "none" /\ writer[n] = None /\ reading[n] = {} /\ writer' = [writer EXCEPT ![n] = Other]
  /\ UNCHANGED <<kind, file, reading, active, host, own>>

Leave(n) ==
  /\ writer[n] = Other /\ writer' = [writer EXCEPT ![n] = None]
  /\ \E now \in {file[n], "changed", "none"} : file' = [file EXCEPT ![n] = now]
  /\ UNCHANGED <<kind, reading, active, host, own>>

ChangeOwn(h) ==
  /\ own[h].written > own[h].held /\ own' = [own EXCEPT ![h].ours = FALSE]
  /\ UNCHANGED <<kind, shared, active, host>>
-----------------------------------------------------------------------------
Prepares(h) ==
  \/ Check(h) \/ Create(h) \/ Write(h) \/ Open(h) \/ Verify(h) \/ DataFile(h)
  \/ Lease(h) \/ WriteOwn(h) \/ Hold(h) \/ Run(h)

Next ==
  \/ \E h \in Hosts : Prepare(h) \/ Prepares(h) \/ Exit(h) \/ Killed(h) \/ ChangeOwn(h)
  \/ \E n \in Entries : Take(n) \/ Leave(n)

\* A host is a program of its own; other programs may hold a file for ever.
Fairness == \A h \in Hosts : WF_vars(Prepares(h))
Spec == Init /\ [][Next]_vars /\ Fairness
-----------------------------------------------------------------------------
\* A shell whose tab was told that its history is kept runs on the fixed settings
\* of the profile and on its own files exactly as the host wrote them, whatever
\* other tabs and programs do meanwhile.
RunsOnOwnFiles ==
  \A h \in Hosts : At(h, "running") =>
    /\ host[h].profile /\ kind = "cmd" => \A n \in ToSet(Settings) : file[n] = "whole"
    /\ own[h].made => own[h].ours

\* A start comes to an end although another program holds a file of the profile
\* and never lets go of it.
StartEnds == \A h \in Hosts : ~At(h, "ended") ~> host[h].step \in {"running", "ended"}
===============================================================================
