---------------------------- MODULE TransferJobs ----------------------------
(***************************************************************************)
(* The registry of the transfers the back end has taken over               *)
(* (transfer_job_service.rs), with uploads of several files and downloads  *)
(* of one: what is started, refused, cancelled and removed while the tasks *)
(* of earlier ones still clean up.  Downloads of several files are in      *)
(* DownloadBatch, a single transfer in FileTransfer.                       *)
(***************************************************************************)
EXTENDS Naturals, FiniteSets

CONSTANTS Jobs,
          Uploads,   \* those of them that are uploads, the others are downloads
          Runtimes, Connections,
          MaxJobs,   \* MAX_JOBS, 256 in the code
          Slots,     \* MAX_CONCURRENT_DOWNLOADS
          MaxFiles   \* bound: files of an upload

VARIABLES of,        \* [runtime, connection] of each job
          alive,     \* connections
          known,     \* the map of the service
          task,      \* step of each job's task
          file,      \* place in the upload
          overwrite, \* the user allowed it for the file
          state,     \* TransferJobSummary.state
          flag, token, \* cancelled, and the token that ends the wait for a slot
          decision,  \* of the user, or "none"
          exit       \* [step, jobs] of shutdown

vars == <<of, alive, known, task, file, overwrite, state, flag, token, decision, exit>>

Terminal(j) == state[j] \in {"completed", "cancelled", "failed"}
Moving(j) == task[j] \in {"moving", "stopped"}
Active(j) == task[j] \notin {"idle", "valid", "over"}

Init ==
  /\ of \in [Jobs -> [runtime : Runtimes, connection : Connections]]
  /\ alive = Connections /\ known = {} /\ task = [j \in Jobs |-> "idle"]
  /\ file = [j \in Jobs |-> 1] /\ overwrite = [j \in Jobs |-> FALSE]
  /\ state = [j \in Jobs |-> "running"]
  /\ flag = {} /\ token = {} /\ decision = [j \in Jobs |-> "none"]
  /\ exit = [step |-> "no", jobs |-> {}]

Goto(j, step) == task' = [task EXCEPT ![j] = step]
Set(j, value) == state' = [state EXCEPT ![j] = value]

\* finish_cancelled.
FinishCancelled(j) == Goto(j, "over") /\ Set(j, "cancelled")
-----------------------------------------------------------------------------
\* Starting.

Validate(j) ==
  /\ task[j] = "idle" /\ of[j].connection \in alive /\ Goto(j, "valid")
  /\ UNCHANGED <<of, alive, known, file, overwrite, state, flag, token, decision, exit>>

Clash(j, o) == of[j].runtime = of[o].runtime \/ of[j].connection = of[o].connection

\* Changed: only a transfer of the same tab makes it busy.
RegisterRuntime(j) ==
  /\ task[j] = "valid"
  /\ IF Cardinality(known) >= MaxJobs \/ \E o \in known : ~Terminal(o) /\ of[j].runtime = of[o].runtime
     THEN Goto(j, "over") /\ UNCHANGED known
     ELSE Goto(j, IF j \in Uploads THEN "file" ELSE "slot") /\ known' = known \cup {j}
  /\ UNCHANGED <<of, alive, file, overwrite, state, flag, token, decision, exit>>

Register(j) ==
  /\ task[j] = "valid"
  /\ IF Cardinality(known) >= MaxJobs \/ \E o \in known : ~Terminal(o) /\ Clash(j, o)
     THEN Goto(j, "over") /\ UNCHANGED known
     ELSE Goto(j, IF j \in Uploads THEN "file" ELSE "slot") /\ known' = known \cup {j}
  /\ UNCHANGED <<of, alive, file, overwrite, state, flag, token, decision, exit>>
-----------------------------------------------------------------------------
\* The task of a job.

Holds(j) == j \notin Uploads /\ task[j] \in {"file", "moving", "stopped", "asking"}

Acquire(j) ==
  /\ task[j] = "slot"
  /\ IF j \in token THEN FinishCancelled(j)
     ELSE Cardinality({o \in Jobs : Holds(o)}) < Slots /\ Goto(j, "file") /\ UNCHANGED state
  /\ UNCHANGED <<of, alive, known, file, overwrite, flag, token, decision, exit>>

Begin(j) ==
  /\ task[j] = "file"
  /\ IF j \in flag THEN FinishCancelled(j) ELSE Goto(j, "moving") /\ Set(j, "running")
  /\ UNCHANGED <<of, alive, known, file, overwrite, flag, token, decision, exit>>

\* The next file of an upload, or its end.
NextFile(j) ==
  /\ overwrite' = [overwrite EXCEPT ![j] = FALSE]
  /\ IF file[j] < MaxFiles
     THEN file' = [file EXCEPT ![j] = @ + 1] /\ Goto(j, "file") /\ Set(j, "running")
     ELSE Goto(j, "over") /\ Set(j, "completed") /\ UNCHANGED file

\* The transfer has ended, with what it left behind removed: a success, a conflict, an error.
Moved(j) ==
  /\ task[j] = "moving"
  /\ IF j \in flag THEN FinishCancelled(j) /\ UNCHANGED <<file, overwrite>>
     ELSE \/ j \in Uploads /\ NextFile(j)
          \/ /\ j \notin Uploads /\ Goto(j, "over") /\ state' \in {[state EXCEPT ![j] = s] : s \in {"completed", "failed"}}
             /\ UNCHANGED <<file, overwrite>>
          \/ /\ ~overwrite[j] /\ of[j].connection \in alive /\ Goto(j, "asking") /\ Set(j, "waiting")
             /\ UNCHANGED <<file, overwrite>>
  /\ UNCHANGED <<of, alive, known, flag, token, decision, exit>>

\* It was cancelled, and says so before the task goes on (apply_progress).
Reported(j) ==
  /\ task[j] = "moving" /\ (j \in flag \/ of[j].connection \notin alive)
  /\ Goto(j, "stopped") /\ flag' = flag \cup {j} /\ Set(j, "cancelled")
  /\ UNCHANGED <<of, alive, known, file, overwrite, token, decision, exit>>

Stopped(j) ==
  /\ task[j] = "stopped" /\ FinishCancelled(j)
  /\ UNCHANGED <<of, alive, known, file, overwrite, flag, token, decision, exit>>

\* wait_for_conflict_decision, which leaves "waiting" as it takes the decision, and
\* what the decision means.
Answered(j) ==
  /\ task[j] = "asking"
  /\ \/ /\ j \in flag \/ (decision[j] = "none" /\ of[j].connection \notin alive) \/ decision[j] = "cancel"
        /\ FinishCancelled(j) /\ UNCHANGED <<file, overwrite>>
     \/ /\ j \notin flag /\ decision[j] = "overwrite" /\ overwrite' = [overwrite EXCEPT ![j] = TRUE]
        /\ Goto(j, "moving") /\ Set(j, "running") /\ UNCHANGED file
     \/ /\ j \notin flag /\ decision[j] = "skip"
        /\ IF j \in Uploads THEN NextFile(j) ELSE FinishCancelled(j) /\ UNCHANGED <<file, overwrite>>
  /\ decision' = [decision EXCEPT ![j] = "none"]
  /\ UNCHANGED <<of, alive, known, flag, token, exit>>
-----------------------------------------------------------------------------
\* The calls of the window and the end of the program.

Resolve(j) ==
  /\ j \in known /\ state[j] = "waiting" /\ decision[j] = "none"
  /\ \E d \in {"overwrite", "skip", "cancel"} : decision' = [decision EXCEPT ![j] = d]
  /\ UNCHANGED <<of, alive, known, task, file, overwrite, state, flag, token, exit>>

Acknowledge(j) ==
  /\ j \in known /\ Terminal(j) /\ known' = known \ {j}
  /\ UNCHANGED <<of, alive, task, file, overwrite, state, flag, token, decision, exit>>

\* Changed: a cancelled job is called so at once.
CancelAtOnce(js) ==
  /\ flag' = flag \cup js /\ token' = token \cup js
  /\ state' = [j \in Jobs |-> IF j \in js /\ ~Terminal(j) THEN "cancelled" ELSE state[j]]

CancelAll(js) == flag' = flag \cup js /\ token' = token \cup js /\ UNCHANGED state

Cancel(j) ==
  /\ j \in known /\ CancelAll({j})
  /\ UNCHANGED <<of, alive, known, task, file, overwrite, decision, exit>>

\* cancel_connection, when a session is disconnected, and cleanup_orphans, of the
\* tabs a window no longer has.
CancelAndRemove(js) ==
  /\ CancelAll(js) /\ known' = known \ js
  /\ UNCHANGED <<of, task, file, overwrite, decision, exit>>

Disconnect(c) ==
  /\ c \in alive /\ alive' = alive \ {c} /\ CancelAndRemove({j \in known : of[j].connection = c})
Orphans(runtimes) ==
  CancelAndRemove({j \in known : of[j].runtime \notin runtimes}) /\ UNCHANGED alive

Lost(c) ==
  /\ c \in alive /\ alive' = alive \ {c}
  /\ UNCHANGED <<of, known, task, file, overwrite, state, flag, token, decision, exit>>

Shutdown ==
  /\ exit.step = "no" /\ exit' = [step |-> "waits", jobs |-> known] /\ CancelAll(known)
  /\ UNCHANGED <<of, alive, known, task, file, overwrite, decision>>

\* All of them have ended, or three seconds have passed.
ShutdownEnds ==
  /\ exit.step = "waits"
  /\ \/ (\A j \in exit.jobs : Terminal(j)) /\ exit' = [exit EXCEPT !.step = "done"]
     \/ exit' = [exit EXCEPT !.step = "late"]
  /\ known' = {}
  /\ UNCHANGED <<of, alive, task, file, overwrite, state, flag, token, decision>>

\* The program has not exited.
Runs == exit.step \in {"no", "waits"}

Next ==
  \/ \E j \in Jobs :
       Runs /\ \/ Validate(j) \/ Register(j) \/ Acquire(j) \/ Begin(j) \/ Moved(j) \/ Reported(j)
               \/ Stopped(j) \/ Answered(j) \/ Resolve(j) \/ Acknowledge(j) \/ Cancel(j)
  \/ \E c \in Connections : Runs /\ (Disconnect(c) \/ Lost(c))
  \/ \E runtimes \in SUBSET Runtimes : Runs /\ Orphans(runtimes)
  \/ Shutdown \/ ShutdownEnds
-----------------------------------------------------------------------------
\* Two transfers of one tab or of one connection never run together: what is
\* removed from the map while its task still runs has been cancelled.
OneTransfer ==
  \A j, o \in Jobs : (j # o /\ {j, o} \cap flag = {} /\ Active(j) /\ Active(o)) => ~Clash(j, o)

\* An exit that did not give up left no transfer of the map in the middle of a
\* file, with its temporary file behind.
ExitCleans == exit.step = "done" => \A j \in exit.jobs : task[j] # "moving"
=============================================================================
