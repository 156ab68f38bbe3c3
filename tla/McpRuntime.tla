----------------------------- MODULE McpRuntime -----------------------------
(***************************************************************************)
(* The program the agents start (mcp_runtime.rs): every version of FsTTY   *)
(* puts a copy of itself, named by its contents, into one directory, lets  *)
(* a pointer file name the copy, and removes the others.  Processes of     *)
(* several versions may prepare at the same time; a process may die at any *)
(* step, which releases the lock of the directory.                         *)
(***************************************************************************)
CONSTANTS Versions, None

VARIABLES copies,    \* runtime files that are in the directory
          temp,      \* contents of the temporary copy of each version: none, part or whole
          launcher,  \* the launcher is written
          pointer,   \* current-runtime.txt
          inUse,     \* copies that run, which cannot be removed
          prepare,   \* step of the process of each version
          holder     \* process with the lock of the directory

vars == <<copies, temp, launcher, pointer, inUse, prepare, holder>>

Steps == {"idle", "look", "copy", "verify", "rename", "launcher", "pointer", "clean"}

Init ==
  /\ copies = {} /\ temp = [v \in Versions |-> "none"] /\ launcher = FALSE /\ pointer = None
  /\ inUse = {} /\ prepare = [v \in Versions |-> "idle"] /\ holder = None

Goto(v, step) == prepare' = [prepare EXCEPT ![v] = step]

Leave(v) == Goto(v, "idle") /\ holder' = None

\* prepare_from_source: the lock of the directory.
Lock(v) ==
  /\ prepare[v] = "idle" /\ holder = None
  /\ holder' = v /\ Goto(v, "look")
  /\ UNCHANGED <<copies, temp, launcher, pointer, inUse>>

\* ensure_runtime_copy.
Look(v) ==
  /\ prepare[v] = "look" /\ Goto(v, IF v \in copies THEN "launcher" ELSE "copy")
  /\ UNCHANGED <<copies, temp, launcher, pointer, inUse, holder>>

Copy(v) ==
  /\ prepare[v] = "copy"
  /\ \/ temp' \in {[temp EXCEPT ![v] = t] : t \in {"part", "whole"}} /\ Goto(v, "verify") /\ UNCHANGED holder
     \/ temp' = [temp EXCEPT ![v] = "part"] /\ Leave(v)
  /\ UNCHANGED <<copies, launcher, pointer, inUse>>

\* The copy is read again and compared, then flushed.
Verify(v) ==
  /\ prepare[v] = "verify"
  /\ \/ temp[v] = "whole" /\ Goto(v, "rename") /\ UNCHANGED <<temp, holder>>
     \/ Leave(v) /\ temp' = [temp EXCEPT ![v] = "none"]
  /\ UNCHANGED <<copies, launcher, pointer, inUse>>

\* Changed: the other copies go before the pointer names the new one.
RenameCleans(v) ==
  /\ prepare[v] = "rename" /\ temp' = [temp EXCEPT ![v] = "none"]
  /\ copies' = {v} \cup inUse /\ Goto(v, "launcher") /\ UNCHANGED <<launcher, pointer, inUse, holder>>

Rename(v) ==
  /\ prepare[v] = "rename" /\ temp' = [temp EXCEPT ![v] = "none"]
  /\ \/ copies' = copies \cup {v} /\ Goto(v, "launcher") /\ UNCHANGED holder
     \/ Leave(v) /\ UNCHANGED copies
  /\ UNCHANGED <<launcher, pointer, inUse>>

\* atomic_write_if_changed, for the launcher and for the pointer.
WriteLauncher(v) ==
  /\ prepare[v] = "launcher"
  /\ \/ launcher' = TRUE /\ Goto(v, "pointer") /\ UNCHANGED holder
     \/ Leave(v) /\ UNCHANGED launcher
  /\ UNCHANGED <<copies, temp, pointer, inUse>>

WritePointer(v) ==
  /\ prepare[v] = "pointer"
  /\ \/ pointer' = v /\ Goto(v, "clean") /\ UNCHANGED holder
     \/ Leave(v) /\ UNCHANGED pointer
  /\ UNCHANGED <<copies, temp, launcher, inUse>>

\* cleanup_old_runtimes: a copy that runs, or that cannot be removed, stays.
Clean(v) ==
  /\ prepare[v] = "clean" /\ Leave(v)
  /\ \E gone \in SUBSET (copies \ ({v} \cup inUse)) : copies' = copies \ gone
  /\ UNCHANGED <<temp, launcher, pointer, inUse>>

Crash(v) ==
  /\ prepare[v] # "idle" /\ Leave(v)
  /\ UNCHANGED <<copies, temp, launcher, pointer, inUse>>

\* An agent starts the launcher, or its server ends.
AgentStarts ==
  /\ launcher /\ pointer \in copies /\ inUse' = inUse \cup {pointer}
  /\ UNCHANGED <<copies, temp, launcher, pointer, prepare, holder>>

AgentEnds ==
  /\ \E v \in inUse : inUse' = inUse \ {v}
  /\ UNCHANGED <<copies, temp, launcher, pointer, prepare, holder>>

Next ==
  \/ AgentStarts \/ AgentEnds
  \/ \E v \in Versions : Lock(v) \/ Look(v) \/ Copy(v) \/ Verify(v) \/ Rename(v) \/ WriteLauncher(v)
                         \/ WritePointer(v) \/ Clean(v) \/ Crash(v)

Spec == Init /\ [][Next]_vars
-----------------------------------------------------------------------------
TypeOK ==
  /\ copies \subseteq Versions /\ inUse \subseteq copies /\ pointer \in Versions \cup {None}
  /\ prepare \in [Versions -> Steps] /\ holder \in Versions \cup {None}

\* Once an agent could be started it can be started for ever: the pointer names
\* a copy that is there and the launcher beside it, while versions replace each
\* other, fail and die at any step (prepare_locked).
AgentStartable == pointer # None => pointer \in copies /\ launcher
=============================================================================
