---------------------------- MODULE FileTransfer ----------------------------
(***************************************************************************)
(* The transfer of files over the connections: the table of transfers with  *)
(* its limits and cancellation flags, and what one upload or download does   *)
(* to the directory it writes to.  A file is written under a temporary name, *)
(* a target that exists is renamed to a backup, the temporary file is        *)
(* renamed to the target, the backup is removed.  Every transfer here writes *)
(* the same target name, downloads in the local directory and uploads in the *)
(* remote one; other programs write there too, and any operation may fail.   *)
(* The program may be killed in any state: an invariant of every state is    *)
(* what it leaves behind.                                                    *)
(***************************************************************************)
EXTENDS Naturals, FiniteSets, FiniteSetTheorems, TLAPS

CONSTANTS Transfers,     \* transfer ids; also the content each one writes
          Connections,
          MaxDownloads,  \* MAX_CONCURRENT_DOWNLOADS
          Old, Foreign,  \* contents of the user's file and of another program's
          Absent,
          MaxFaults,     \* bound: operations that fail
          MaxForeign     \* bound: remote files another program creates

Sides == {"download", "upload"}
ASSUME LimitAssumption == MaxDownloads \in Nat \ {0} /\ MaxFaults \in Nat /\ MaxForeign \in Nat
ASSUME ConnectionsAssumption == Connections # {}
ASSUME ContentsAssumption == Cardinality({Old, Foreign, Absent}) = 3 /\ {Old, Foreign, Absent} \cap Transfers = {}

VARIABLES table,     \* the transfers in progress
          task,      \* what each transfer is doing
          target,    \* the content of the target name, in each directory
          part,      \* the temporary file of each transfer
          backup,    \* the backup file of each transfer
          cancelled, \* the cancellation flags
          faults, foreigners,
          early,     \* transfers cancelled before they were registered
          replaced,  \* contents that a transfer without permission replaced
          messy      \* transfers one of whose clean-up operations failed

vars == <<table, task, target, part, backup, cancelled, faults, foreigners, early, replaced, messy>>

Contents == {Old, Foreign} \cup Transfers
NoTask == [pc |-> "idle", side |-> "download", conn |-> CHOOSE c \in Connections : TRUE,
           over |-> FALSE, exists |-> FALSE, result |-> "none"]

Go(t, pc) == task' = [task EXCEPT ![t].pc = pc]
Finish(t, result) == task' = [task EXCEPT ![t].pc = "end", ![t].result = result]
Target(t) == target[task[t].side]

Fault == faults < MaxFaults /\ faults' = faults + 1

CleanupFault(t) == Fault /\ messy' = messy \cup {t}

\* Best effort: the error of a removal is ignored.
RemovePart(t) ==
  \/ part' = [part EXCEPT ![t] = "none"] /\ UNCHANGED <<faults, messy>>
  \/ CleanupFault(t) /\ UNCHANGED part

-----------------------------------------------------------------------------
(* The table.                                                               *)

\* The requests that reach begin_transfer.
Request(t) ==
  /\ task[t].pc = "idle"
  /\ \E side \in Sides, c \in Connections, o \in BOOLEAN :
       task' = [task EXCEPT ![t] = [NoTask EXCEPT !.pc = "begin", !.side = side, !.conn = c, !.over = o]]
  /\ UNCHANGED <<table, target, part, backup, cancelled, faults, foreigners, early, replaced, messy>>

OnConnection(c) == {u \in table : task[u].conn = c}

\* An upload has its connection to itself; downloads share it up to the limit.
BusyUploads(t) ==
  LET there == OnConnection(task[t].conn)
  IN \/ \E u \in there : task[u].side = "upload"
     \/ Cardinality(there) >= MaxDownloads

Busy(t) ==
  LET there == OnConnection(task[t].conn)
  IN \/ \E u \in there : task[u].side = "upload"
     \/ task[t].side = "upload" /\ there # {}
     \/ Cardinality(there) >= MaxDownloads

\* The flag registered is the one of the job.
BeginFresh(t) ==
  /\ task[t].pc = "begin"
  /\ IF Busy(t) THEN Finish(t, "failed") /\ UNCHANGED <<table, cancelled>>
     ELSE /\ table' = table \cup {t} /\ Go(t, "check")
          /\ cancelled' = cancelled \ {t}
  /\ UNCHANGED <<target, part, backup, faults, foreigners, early, replaced, messy>>

Begin(t) ==
  /\ task[t].pc = "begin"
  /\ IF Busy(t) THEN Finish(t, "failed") /\ UNCHANGED table
     ELSE table' = table \cup {t} /\ Go(t, "check")
  /\ UNCHANGED <<target, part, backup, cancelled, faults, foreigners, early, replaced, messy>>

\* Every end of a transfer leaves the table.
EndKeepsEntry(t) ==
  /\ task[t].pc = "end"
  /\ table' = table
  /\ Go(t, "ended")
  /\ UNCHANGED <<target, part, backup, cancelled, faults, foreigners, early, replaced, messy>>

End(t) ==
  /\ task[t].pc = "end"
  /\ table' = table \ {t}
  /\ Go(t, "ended")
  /\ UNCHANGED <<target, part, backup, cancelled, faults, foreigners, early, replaced, messy>>

\* The job's flag, which cancel_transfer sets as well.
Cancel(t) ==
  /\ task[t].pc \notin {"idle", "end", "ended"} /\ t \notin cancelled
  /\ cancelled' = cancelled \cup {t}
  /\ early' = IF t \in table THEN early ELSE early \cup {t}
  /\ UNCHANGED <<table, task, target, part, backup, faults, foreigners, replaced, messy>>

CancelConnection(c) ==
  /\ OnConnection(c) # {}
  /\ cancelled' = cancelled \cup OnConnection(c)
  /\ UNCHANGED <<table, task, target, part, backup, faults, foreigners, early, replaced, messy>>

-----------------------------------------------------------------------------
(* upload_file_inner and download_file_inner.                               *)

\* validate_upload_source and the look at the remote target, or
\* validate_download_target.  An upload remembers whether the target exists; a
\* download takes a target it cannot look at for an absent one, which only
\* matters where the look would have found a conflict.
Check(t) ==
  /\ task[t].pc = "check"
  /\ \/ /\ IF Target(t) # Absent /\ ~task[t].over
             THEN Finish(t, "conflict")
             ELSE task' = [task EXCEPT ![t].pc = "create",
                           ![t].exists = task[t].side = "upload" /\ Target(t) # Absent]
        /\ UNCHANGED faults
     \/ Fault /\ Finish(t, "failed")
     \/ /\ task[t].side = "download" /\ Target(t) # Absent /\ ~task[t].over /\ Fault
        /\ task' = [task EXCEPT ![t].pc = "create", ![t].exists = FALSE]
  /\ UNCHANGED <<table, target, part, backup, cancelled, foreigners, early, replaced, messy>>

Create(t) ==
  /\ task[t].pc = "create"
  /\ \/ part' = [part EXCEPT ![t] = "partial"] /\ Go(t, "copy") /\ UNCHANGED faults
     \/ Fault /\ Finish(t, "failed") /\ UNCHANGED part
  /\ UNCHANGED <<table, target, backup, cancelled, foreigners, early, replaced, messy>>

\* One turn of the loop: the flag is read first, and a transfer that passed it
\* reads a block and writes it.
CheckFlagKeepsPart(t) ==
  /\ task[t].pc = "copy"
  /\ \/ t \in cancelled /\ Finish(t, "cancelled") /\ UNCHANGED <<part, faults, messy>>
     \/ t \notin cancelled /\ Go(t, "block") /\ UNCHANGED <<part, faults, messy>>
  /\ UNCHANGED <<table, target, backup, cancelled, foreigners, early, replaced>>

CheckFlag(t) ==
  /\ task[t].pc = "copy"
  /\ \/ t \in cancelled /\ Finish(t, "cancelled") /\ RemovePart(t)
     \/ t \notin cancelled /\ Go(t, "block") /\ UNCHANGED <<part, faults, messy>>
  /\ UNCHANGED <<table, target, backup, cancelled, foreigners, early, replaced>>

Finalize(t) == IF task[t].side = "download" THEN "inspect" ELSE IF task[t].exists THEN "backup" ELSE "commit"

\* At the end of the file comes a last flush.
CopyBlock(t) ==
  /\ task[t].pc = "block"
  /\ \/ Go(t, "copy") /\ UNCHANGED <<part, faults>>
     \/ part' = [part EXCEPT ![t] = "full"] /\ Go(t, Finalize(t)) /\ UNCHANGED faults
     \/ Fault /\ Go(t, "clean") /\ UNCHANGED part
  /\ UNCHANGED <<table, target, backup, cancelled, foreigners, early, replaced, messy>>

\* finalize_local_file looks at the target again; a look that fails counts as
\* "there is none".
Inspect(t) ==
  /\ task[t].pc = "inspect"
  /\ \/ /\ Target(t) # Absent /\ ~task[t].over
        /\ Finish(t, "conflict") /\ RemovePart(t)
     \/ /\ Target(t) # Absent /\ task[t].over
        /\ task' = [task EXCEPT ![t].exists = TRUE, ![t].pc = "backup"]
        /\ UNCHANGED <<part, faults, messy>>
     \/ /\ Target(t) = Absent
        /\ Go(t, "commit")
        /\ UNCHANGED <<part, faults, messy>>
     \/ /\ Fault
        /\ Go(t, "commit")
        /\ UNCHANGED <<part, messy>>
  /\ UNCHANGED <<table, target, backup, cancelled, foreigners, early, replaced>>

BackUp(t) ==
  /\ task[t].pc = "backup"
  /\ \/ /\ Target(t) # Absent
        /\ backup' = [backup EXCEPT ![t] = Target(t)]
        /\ target' = [target EXCEPT ![task[t].side] = Absent]
        /\ Go(t, "commit")
        /\ UNCHANGED faults
     \/ Target(t) = Absent /\ Go(t, "clean") /\ UNCHANGED <<target, backup, faults>>
     \/ Fault /\ Go(t, "clean") /\ UNCHANGED <<target, backup>>
  /\ UNCHANGED <<table, part, cancelled, foreigners, early, replaced, messy>>

\* A local rename replaces its target; a remote one fails if there is one.
Renames(t) == task[t].side = "download" \/ Target(t) = Absent

CommitAndForget(t) ==
  /\ task[t].pc = "commit"
  /\ \/ /\ Renames(t)
        /\ target' = [target EXCEPT ![task[t].side] = t]
        /\ part' = [part EXCEPT ![t] = "none"]
        /\ replaced' = IF task[t].over THEN replaced ELSE replaced \cup ({Target(t)} \ {Absent})
        /\ IF task[t].exists THEN Go(t, "drop") ELSE Finish(t, "done")
        /\ UNCHANGED faults
     \/ /\ ~Renames(t) /\ Go(t, "restore")
        /\ UNCHANGED <<target, part, faults, replaced, messy>>
     \/ /\ Fault /\ Go(t, "restore")
        /\ UNCHANGED <<target, part, replaced, messy>>
  /\ backup' = [backup EXCEPT ![t] = Absent]
  /\ UNCHANGED <<table, cancelled, foreigners, early, messy>>

Commit(t) ==
  /\ task[t].pc = "commit"
  /\ \/ /\ Renames(t)
        /\ target' = [target EXCEPT ![task[t].side] = t]
        /\ part' = [part EXCEPT ![t] = "none"]
        /\ replaced' = IF task[t].over THEN replaced ELSE replaced \cup ({Target(t)} \ {Absent})
        /\ IF task[t].exists THEN Go(t, "drop") ELSE Finish(t, "done")
        /\ UNCHANGED faults
     \/ /\ ~Renames(t) /\ Go(t, "restore")
        /\ UNCHANGED <<target, part, faults, replaced, messy>>
     \/ /\ Fault /\ Go(t, "restore")
        /\ UNCHANGED <<target, part, replaced, messy>>
  /\ UNCHANGED <<table, backup, cancelled, foreigners, early, messy>>

RestoreNothing(t) ==
  /\ task[t].pc = "restore"
  /\ Go(t, "clean")
  /\ UNCHANGED <<table, target, part, backup, cancelled, faults, foreigners, early, replaced, messy>>

Restore(t) ==
  /\ task[t].pc = "restore"
  /\ LET possible == task[t].exists /\ Renames(t)
     IN \/ /\ possible
           /\ target' = [target EXCEPT ![task[t].side] = backup[t]]
           /\ backup' = [backup EXCEPT ![t] = Absent]
           /\ UNCHANGED <<faults, messy>>
        \/ ~possible /\ UNCHANGED <<target, backup, faults, messy>>
        \/ possible /\ CleanupFault(t) /\ UNCHANGED <<target, backup>>
  /\ Go(t, "clean")
  /\ UNCHANGED <<table, part, cancelled, foreigners, early, replaced>>

CleanUp(t) ==
  /\ task[t].pc = "clean"
  /\ Finish(t, "failed") /\ RemovePart(t)
  /\ UNCHANGED <<table, target, backup, cancelled, foreigners, early, replaced>>

DropBackup(t) ==
  /\ task[t].pc = "drop"
  /\ \/ backup' = [backup EXCEPT ![t] = Absent] /\ UNCHANGED <<faults, messy>>
     \/ CleanupFault(t) /\ UNCHANGED backup
  /\ Finish(t, "done")
  /\ UNCHANGED <<table, target, part, cancelled, foreigners, early, replaced>>

\* Another program creates a file of that name, in the remote directory.
ForeignFile ==
  /\ foreigners < MaxForeign /\ target["upload"] = Absent
  /\ target' = [target EXCEPT !["upload"] = Foreign]
  /\ foreigners' = foreigners + 1
  /\ UNCHANGED <<table, task, part, backup, cancelled, faults, early, replaced, messy>>

-----------------------------------------------------------------------------
Init ==
  /\ table = {} /\ task = [t \in Transfers |-> NoTask]
  /\ target \in [Sides -> {Old, Absent}]
  /\ part = [t \in Transfers |-> "none"] /\ backup = [t \in Transfers |-> Absent]
  /\ cancelled = {} /\ faults = 0 /\ foreigners = 0 /\ early = {} /\ replaced = {} /\ messy = {}

Step(t) ==
  \/ Begin(t) \/ Check(t) \/ Create(t) \/ CheckFlag(t) \/ CopyBlock(t) \/ Inspect(t) \/ BackUp(t) \/ Commit(t)
  \/ Restore(t) \/ CleanUp(t) \/ DropBackup(t) \/ End(t)

Next ==
  \/ \E t \in Transfers : Request(t) \/ Cancel(t) \/ Step(t)
  \/ \E c \in Connections : CancelConnection(c)
  \/ ForeignFile

Spec == Init /\ [][Next]_vars

-----------------------------------------------------------------------------
Pcs == {"idle", "begin", "check", "create", "copy", "block", "inspect", "backup", "commit", "restore",
        "clean", "drop", "end", "ended"}
Results == {"none", "done", "failed", "cancelled", "conflict"}

Tasks == [pc : Pcs, side : Sides, conn : Connections, over : BOOLEAN, exists : BOOLEAN, result : Results]

TypeOK ==
  /\ table \subseteq Transfers
  /\ task \in [Transfers -> Tasks]
  /\ \A t \in Transfers : t \in table => task[t].pc \notin {"idle", "begin", "ended"}
  /\ target \in [Sides -> Contents \cup {Absent}]
  /\ part \in [Transfers -> {"none", "partial", "full"}]
  /\ backup \in [Transfers -> Contents \cup {Absent}]
  /\ cancelled \subseteq Transfers /\ early \subseteq Transfers /\ messy \subseteq Transfers
  /\ faults \in 0..MaxFaults /\ foreigners \in 0..MaxForeign
  /\ replaced \subseteq Contents

\* A connection carries one upload and nothing else, or downloads up to the limit.
Exclusive ==
  \A c \in Connections :
    /\ Cardinality(OnConnection(c)) <= MaxDownloads
    /\ (\E u \in OnConnection(c) : task[u].side = "upload") => Cardinality(OnConnection(c)) = 1

\* A cancellation that comes before the transfer is registered is not lost: the
\* transfer never changes its target.
EarlyCancelled ==
  \A t \in early : /\ task[t].result # "done"
                    /\ \A s \in Sides : target[s] # t
                    /\ backup[t] = Absent

\* A transfer that ended leaves neither temporary file nor backup behind, if no
\* operation of its clean-up failed; the backup stays where the name it would be
\* restored to is taken.
NoLeftovers ==
  \A t \in Transfers \ messy : task[t].pc = "ended" =>
    /\ part[t] = "none"
    /\ backup[t] # Absent => task[t].side = "upload" /\ task[t].result = "failed"

\* When one operation has failed at most, a name that had a file has one again
\* once every transfer has ended.
NameStays ==
  ((\A t \in Transfers : task[t].pc \in {"idle", "ended"}) /\ faults <= 1) =>
    \A s \in Sides, t \in Transfers :
      (target[s] = Absent /\ task[t].side = s) => backup[t] = Absent

\* A transfer that ended has left the table: its connection is free again.
TableLeft == \A t \in table : task[t].pc # "ended"

\* What a transfer leaves behind (upload_file_inner, download_file_inner and their
\* clean-up), and what the table and its flags promise (begin_transfer).
FilesTidy == NoLeftovers /\ NameStays /\ Exclusive /\ EarlyCancelled /\ TableLeft

Stored(s, x) == target[s] = x \/ \E t \in Transfers : task[t].side = s /\ backup[t] = x
Lost(s, x) == Stored(s, x) /\ ~Stored(s, x)'

\* A transfer that may overwrite puts its complete file there, or drops the backup after.
Permitted(s) ==
  \E t \in Transfers :
    /\ task[t].side = s /\ task[t].over
    /\ \/ task[t].pc = "commit" /\ part[t] = "full" /\ task'[t].pc \in {"drop", "end"}
       \/ task[t].pc = "drop" /\ task'[t].pc = "end"

\* A transfer whose rename failed puts back what it had moved away.
PutsBack(s) ==
  \E t \in Transfers : task[t].side = s /\ task[t].pc = "restore" /\ backup[t] # Absent

LossAllowed ==
  \A s \in Sides, x \in Contents :
    Lost(s, x) => \/ Permitted(s)
                  \/ /\ s = "download" /\ (x \in replaced' \/ PutsBack(s))
                     /\ x = Old => faults > 0

\* Whatever fails, and wherever the program is killed, no content disappears from
\* the remote directory except through a transfer that may overwrite it.  A local
\* rename replaces whatever it finds: there a transfer without permission may replace
\* what it did not see, and one that failed what came meanwhile, but the user's own
\* file is lost in these ways only after an operation has failed.
NothingLost == [][LossAllowed]_vars
-----------------------------------------------------------------------------
(* Proofs.                                                                  *)

\* What a step does to the task of t: its state, what it knows of the target, its
\* result; the request itself and the other tasks stay.
Becomes(t, pc, exists, result) ==
  /\ task' \in [Transfers -> Tasks]
  /\ \A u \in Transfers : u # t => task'[u] = task[u]
  /\ task'[t].pc = pc /\ task'[t].exists = exists /\ task'[t].result = result
  /\ task'[t].side = task[t].side /\ task'[t].conn = task[t].conn /\ task'[t].over = task[t].over

LEMMA NewTask == NoTask \in Tasks
BY ConnectionsAssumption DEF NoTask, Tasks, Pcs, Results, Sides

LEMMA ContentsApart ==
  /\ Absent \notin Contents /\ Old \in Contents /\ Foreign \in Contents
  /\ Old \notin Transfers /\ Foreign \notin Transfers /\ Absent \notin Transfers
  /\ Old # Absent /\ Foreign # Absent /\ Old # Foreign
<1>1. Old # Absent /\ Foreign # Absent /\ Old # Foreign
  <2>1. Cardinality({Old}) = 1 /\ Cardinality({Foreign}) = 1 /\ Cardinality({Absent}) = 1
    BY FS_Singleton
  <2>2. IsFiniteSet({Old}) /\ IsFiniteSet({Foreign}) /\ IsFiniteSet({Absent})
    BY FS_Singleton
  <2>3. \A a, b : Cardinality({a, b}) \in {1, 2}
    <3> TAKE a, b
    <3>1. IsFiniteSet({a}) /\ Cardinality({a}) = 1
      BY FS_Singleton
    <3>2. {a} \cup {b} = {a, b}
      OBVIOUS
    <3> QED
      BY <3>1, <3>2, FS_AddElement
  <2>4. CASE Old = Absent
    <3>1. {Old, Foreign, Absent} = {Old, Foreign}
      BY <2>4
    <3>2. Cardinality({Old, Foreign}) \in {1, 2}
      BY <2>3
    <3> QED
      BY <3>1, <3>2, ContentsAssumption
  <2>5. CASE Foreign = Absent
    <3>1. {Old, Foreign, Absent} = {Old, Foreign}
      BY <2>5
    <3>2. Cardinality({Old, Foreign}) \in {1, 2}
      BY <2>3
    <3> QED
      BY <3>1, <3>2, ContentsAssumption
  <2>6. CASE Old = Foreign
    <3>1. {Old, Foreign, Absent} = {Old, Absent}
      BY <2>6
    <3>2. Cardinality({Old, Absent}) \in {1, 2}
      BY <2>3
    <3> QED
      BY <3>1, <3>2, ContentsAssumption
  <2> QED
    BY <2>4, <2>5, <2>6
<1>2. Old \notin Transfers /\ Foreign \notin Transfers /\ Absent \notin Transfers
  BY ContentsAssumption
<1> QED
  BY <1>1, <1>2 DEF Contents

LEMMA GoTask ==
  ASSUME task \in [Transfers -> Tasks], NEW t \in Transfers, NEW pc \in Pcs, Go(t, pc)
  PROVE  Becomes(t, pc, task[t].exists, task[t].result)
<1>1. task[t] \in Tasks /\ DOMAIN task = Transfers
  OBVIOUS
<1> DEFINE k == [task[t] EXCEPT !.pc = pc]
<1>2. task' = [task EXCEPT ![t] = k]
  BY DEF Go
<1>3. /\ k \in Tasks /\ k.pc = pc /\ k.exists = task[t].exists /\ k.result = task[t].result
      /\ k.side = task[t].side /\ k.conn = task[t].conn /\ k.over = task[t].over
  BY <1>1 DEF Tasks
<1> HIDE DEF k
<1>4. task' \in [Transfers -> Tasks] /\ task'[t] = k /\ \A u \in Transfers : u # t => task'[u] = task[u]
  BY <1>1, <1>2, <1>3
<1> QED
  BY <1>3, <1>4 DEF Becomes

LEMMA FinishTask ==
  ASSUME task \in [Transfers -> Tasks], NEW t \in Transfers, NEW result \in Results, Finish(t, result)
  PROVE  Becomes(t, "end", task[t].exists, result)
<1>1. task[t] \in Tasks /\ DOMAIN task = Transfers
  OBVIOUS
<1> DEFINE k == [task[t] EXCEPT !.pc = "end", !.result = result]
<1>2. task' = [task EXCEPT ![t] = k]
  BY DEF Finish
<1>3. /\ k \in Tasks /\ k.pc = "end" /\ k.exists = task[t].exists /\ k.result = result
      /\ k.side = task[t].side /\ k.conn = task[t].conn /\ k.over = task[t].over
  BY <1>1 DEF Tasks, Pcs
<1> HIDE DEF k
<1>4. task' \in [Transfers -> Tasks] /\ task'[t] = k /\ \A u \in Transfers : u # t => task'[u] = task[u]
  BY <1>1, <1>2, <1>3
<1> QED
  BY <1>3, <1>4 DEF Becomes

LEMMA SeenTask ==
  ASSUME task \in [Transfers -> Tasks], NEW t \in Transfers, NEW pc \in Pcs, NEW exists \in BOOLEAN,
         task' = [task EXCEPT ![t].pc = pc, ![t].exists = exists]
  PROVE  Becomes(t, pc, exists, task[t].result)
<1>1. task[t] \in Tasks /\ DOMAIN task = Transfers
  OBVIOUS
<1> DEFINE k == [task[t] EXCEPT !.pc = pc, !.exists = exists]
<1>2. task' = [task EXCEPT ![t] = k]
  OBVIOUS
<1>3. /\ k \in Tasks /\ k.pc = pc /\ k.exists = exists /\ k.result = task[t].result
      /\ k.side = task[t].side /\ k.conn = task[t].conn /\ k.over = task[t].over
  BY <1>1 DEF Tasks
<1> HIDE DEF k
<1>4. task' \in [Transfers -> Tasks] /\ task'[t] = k /\ \A u \in Transfers : u # t => task'[u] = task[u]
  BY <1>1, <1>2, <1>3
<1> QED
  BY <1>3, <1>4 DEF Becomes

\* A request is the only step that replaces a task as a whole.
LEMMA RequestTask ==
  ASSUME task \in [Transfers -> Tasks], NEW t \in Transfers, Request(t)
  PROVE  /\ task' \in [Transfers -> Tasks]
         /\ \A u \in Transfers : u # t => task'[u] = task[u]
         /\ task[t].pc = "idle" /\ task'[t].pc = "begin" /\ ~task'[t].exists /\ task'[t].result = "none"
<1>1. PICK side \in Sides, c \in Connections, o \in BOOLEAN :
        task' = [task EXCEPT ![t] = [NoTask EXCEPT !.pc = "begin", !.side = side, !.conn = c, !.over = o]]
  BY DEF Request
<1> DEFINE k == [NoTask EXCEPT !.pc = "begin", !.side = side, !.conn = c, !.over = o]
<1>2. k \in Tasks /\ k.pc = "begin" /\ k.exists = FALSE /\ k.result = "none"
  BY NewTask DEF NoTask, Tasks, Pcs
<1>3. task' = [task EXCEPT ![t] = k]
  BY <1>1
<1> HIDE DEF k
<1>4. task' \in [Transfers -> Tasks] /\ task'[t] = k /\ \A u \in Transfers : u # t => task'[u] = task[u]
  BY <1>2, <1>3
<1> QED
  BY <1>2, <1>4 DEF Request

(* What each step of a transfer does, with the task it leaves.               *)

LEMMA BeginDoes ==
  ASSUME task \in [Transfers -> Tasks], NEW t \in Transfers, Begin(t)
  PROVE  /\ task[t].pc = "begin"
         /\ \/ Becomes(t, "end", task[t].exists, "failed") /\ UNCHANGED table
            \/ Becomes(t, "check", task[t].exists, task[t].result) /\ ~Busy(t) /\ table' = table \cup {t}
BY GoTask, FinishTask DEF Begin, Pcs, Results

LEMMA CheckDoes ==
  ASSUME task \in [Transfers -> Tasks], NEW t \in Transfers, Check(t)
  PROVE  /\ task[t].pc = "check"
         /\ \/ Becomes(t, "end", task[t].exists, "conflict") /\ UNCHANGED faults
            \/ \E exists \in BOOLEAN :
                 /\ Becomes(t, "create", exists, task[t].result) /\ (UNCHANGED faults \/ Fault)
                 /\ exists => task[t].over /\ task[t].side = "upload"
            \/ Becomes(t, "end", task[t].exists, "failed") /\ Fault
<1>1. CASE Finish(t, "conflict") /\ UNCHANGED faults
  BY <1>1, FinishTask DEF Check, Results
<1>2. CASE Finish(t, "failed") /\ Fault
  BY <1>2, FinishTask DEF Check, Results
<1>3. CASE /\ ~(Target(t) # Absent /\ ~task[t].over) /\ UNCHANGED faults
           /\ task' = [task EXCEPT ![t].pc = "create", ![t].exists = task[t].side = "upload" /\ Target(t) # Absent]
  <2> DEFINE exists == task[t].side = "upload" /\ Target(t) # Absent
  <2>1. exists \in BOOLEAN /\ (exists => task[t].over /\ task[t].side = "upload")
    BY <1>3
  <2>2. task' = [task EXCEPT ![t].pc = "create", ![t].exists = exists]
    BY <1>3
  <2> HIDE DEF exists
  <2>3. Becomes(t, "create", exists, task[t].result)
    BY <2>1, <2>2, SeenTask DEF Pcs
  <2> QED
    BY <1>3, <2>1, <2>3 DEF Check
<1>4. CASE Fault /\ task' = [task EXCEPT ![t].pc = "create", ![t].exists = FALSE]
  <2>1. Becomes(t, "create", FALSE, task[t].result)
    BY <1>4, SeenTask DEF Pcs
  <2> QED
    BY <1>4, <2>1 DEF Check
<1> QED
  BY <1>1, <1>2, <1>3, <1>4 DEF Check

LEMMA CreateDoes ==
  ASSUME task \in [Transfers -> Tasks], NEW t \in Transfers, Create(t)
  PROVE  /\ task[t].pc = "create"
         /\ \/ /\ Becomes(t, "copy", task[t].exists, task[t].result)
               /\ part' = [part EXCEPT ![t] = "partial"] /\ UNCHANGED faults
            \/ Becomes(t, "end", task[t].exists, "failed") /\ Fault /\ UNCHANGED part
BY GoTask, FinishTask DEF Create, Pcs, Results

LEMMA CheckFlagDoes ==
  ASSUME task \in [Transfers -> Tasks], NEW t \in Transfers, CheckFlag(t)
  PROVE  /\ task[t].pc = "copy"
         /\ \/ /\ Becomes(t, "end", task[t].exists, "cancelled")
               /\ t \in cancelled /\ RemovePart(t)
            \/ /\ Becomes(t, "block", task[t].exists, task[t].result)
               /\ t \notin cancelled /\ UNCHANGED <<part, faults, messy>>
BY GoTask, FinishTask DEF CheckFlag, Pcs, Results

LEMMA CopyBlockDoes ==
  ASSUME task \in [Transfers -> Tasks], NEW t \in Transfers, CopyBlock(t)
  PROVE  /\ task[t].pc = "block"
         /\ \/ Becomes(t, "copy", task[t].exists, task[t].result) /\ UNCHANGED <<part, faults>>
            \/ /\ Becomes(t, Finalize(t), task[t].exists, task[t].result)
               /\ part' = [part EXCEPT ![t] = "full"] /\ UNCHANGED faults
            \/ Becomes(t, "clean", task[t].exists, task[t].result) /\ Fault /\ UNCHANGED part
<1>1. Finalize(t) \in Pcs
  BY DEF Finalize, Pcs
<1> QED
  BY <1>1, GoTask DEF CopyBlock, Pcs

LEMMA InspectDoes ==
  ASSUME task \in [Transfers -> Tasks], NEW t \in Transfers, Inspect(t)
  PROVE  /\ task[t].pc = "inspect"
         /\ \/ Becomes(t, "end", task[t].exists, "conflict") /\ RemovePart(t)
            \/ /\ Becomes(t, "backup", TRUE, task[t].result) /\ task[t].over
               /\ UNCHANGED <<part, faults, messy>>
            \/ /\ Becomes(t, "commit", task[t].exists, task[t].result) /\ Target(t) = Absent
               /\ UNCHANGED <<part, faults, messy>>
            \/ /\ Becomes(t, "commit", task[t].exists, task[t].result) /\ Fault
               /\ UNCHANGED <<part, messy>>
<1>1. CASE Finish(t, "conflict") /\ RemovePart(t)
  BY <1>1, FinishTask DEF Inspect, Results
<1>2. CASE /\ task[t].over /\ task' = [task EXCEPT ![t].exists = TRUE, ![t].pc = "backup"]
           /\ UNCHANGED <<part, faults, messy>>
  <2>1. task' = [task EXCEPT ![t].pc = "backup", ![t].exists = TRUE]
    <3>1. [task[t] EXCEPT !.exists = TRUE, !.pc = "backup"] = [task[t] EXCEPT !.pc = "backup", !.exists = TRUE]
      BY DEF Tasks
    <3> QED
      BY <1>2, <3>1
  <2>2. Becomes(t, "backup", TRUE, task[t].result)
    BY <2>1, SeenTask DEF Pcs
  <2> QED
    BY <1>2, <2>2 DEF Inspect
<1>3. CASE Target(t) = Absent /\ Go(t, "commit") /\ UNCHANGED <<part, faults, messy>>
  BY <1>3, GoTask DEF Inspect, Pcs
<1>4. CASE Fault /\ Go(t, "commit") /\ UNCHANGED <<part, messy>>
  BY <1>4, GoTask DEF Inspect, Pcs
<1> QED
  BY <1>1, <1>2, <1>3, <1>4 DEF Inspect

LEMMA BackUpDoes ==
  ASSUME task \in [Transfers -> Tasks], NEW t \in Transfers, BackUp(t)
  PROVE  /\ task[t].pc = "backup"
         /\ \/ /\ Becomes(t, "commit", task[t].exists, task[t].result) /\ Target(t) # Absent
               /\ backup' = [backup EXCEPT ![t] = Target(t)]
               /\ target' = [target EXCEPT ![task[t].side] = Absent]
               /\ UNCHANGED faults
            \/ /\ Becomes(t, "clean", task[t].exists, task[t].result)
               /\ UNCHANGED <<target, backup>> /\ (UNCHANGED faults \/ Fault)
BY GoTask DEF BackUp, Pcs

LEMMA CommitDoes ==
  ASSUME task \in [Transfers -> Tasks], NEW t \in Transfers, Commit(t)
  PROVE  /\ task[t].pc = "commit"
         /\ \/ /\ \/ Becomes(t, "drop", task[t].exists, task[t].result) /\ task[t].exists
                  \/ Becomes(t, "end", task[t].exists, "done") /\ ~task[t].exists
               /\ Renames(t)
               /\ target' = [target EXCEPT ![task[t].side] = t]
               /\ part' = [part EXCEPT ![t] = "none"]
               /\ replaced' = IF task[t].over THEN replaced ELSE replaced \cup ({Target(t)} \ {Absent})
               /\ UNCHANGED faults
            \/ /\ Becomes(t, "restore", task[t].exists, task[t].result)
               /\ UNCHANGED <<target, part, replaced>>
               /\ (~Renames(t) /\ UNCHANGED faults) \/ Fault
BY GoTask, FinishTask DEF Commit, Pcs, Results

LEMMA RestoreDoes ==
  ASSUME task \in [Transfers -> Tasks], NEW t \in Transfers, Restore(t)
  PROVE  /\ task[t].pc = "restore"
         /\ Becomes(t, "clean", task[t].exists, task[t].result)
         /\ \/ /\ task[t].exists /\ Renames(t)
               /\ target' = [target EXCEPT ![task[t].side] = backup[t]]
               /\ backup' = [backup EXCEPT ![t] = Absent]
               /\ UNCHANGED <<faults, messy>>
            \/ ~(task[t].exists /\ Renames(t)) /\ UNCHANGED <<target, backup, faults, messy>>
            \/ CleanupFault(t) /\ UNCHANGED <<target, backup>>
BY GoTask DEF Restore, Pcs

LEMMA CleanUpDoes ==
  ASSUME task \in [Transfers -> Tasks], NEW t \in Transfers, CleanUp(t)
  PROVE  task[t].pc = "clean" /\ Becomes(t, "end", task[t].exists, "failed") /\ RemovePart(t)
BY FinishTask DEF CleanUp, Results

LEMMA DropBackupDoes ==
  ASSUME task \in [Transfers -> Tasks], NEW t \in Transfers, DropBackup(t)
  PROVE  /\ task[t].pc = "drop" /\ Becomes(t, "end", task[t].exists, "done")
         /\ \/ backup' = [backup EXCEPT ![t] = Absent] /\ UNCHANGED <<faults, messy>>
            \/ CleanupFault(t) /\ UNCHANGED backup
BY FinishTask DEF DropBackup, Results

LEMMA EndDoes ==
  ASSUME task \in [Transfers -> Tasks], NEW t \in Transfers, End(t)
  PROVE  task[t].pc = "end" /\ Becomes(t, "ended", task[t].exists, task[t].result) /\ table' = table \ {t}
BY GoTask DEF End, Pcs

LEMMA TypeInit == Init => TypeOK
<1> SUFFICES ASSUME Init PROVE TypeOK
  OBVIOUS
<1>1. task \in [Transfers -> Tasks] /\ \A t \in Transfers : task[t] = NoTask
  BY NewTask DEF Init
<1> QED
  BY <1>1, ContentsApart, LimitAssumption DEF Init, TypeOK, Contents

LEMMA FaultType == faults \in 0..MaxFaults /\ Fault => faults' \in 0..MaxFaults /\ faults' = faults + 1
BY LimitAssumption DEF Fault

LEMMA TypeStep == TypeOK /\ [Next]_vars => TypeOK'
<1> SUFFICES ASSUME TypeOK, [Next]_vars PROVE TypeOK'
  OBVIOUS
<1>0. /\ Absent \in Contents \cup {Absent} /\ Foreign \in Contents
      /\ \A t \in Transfers : t \in Contents
  BY DEF Contents
<1> USE <1>0 DEF TypeOK
<1>1. ASSUME NEW t \in Transfers, Request(t) PROVE TypeOK'
  BY <1>1, RequestTask DEF Request
<1>2. ASSUME NEW t \in Transfers, Cancel(t) PROVE TypeOK'
  BY <1>2 DEF Cancel
<1>3. ASSUME NEW t \in Transfers, Step(t) PROVE TypeOK'
  <2> USE DEF Becomes
  <2>1. CASE Begin(t)
    BY <2>1, BeginDoes DEF Begin
  <2>2. CASE Check(t)
    BY <2>2, CheckDoes, FaultType DEF Check
  <2>3. CASE Create(t)
    BY <2>3, CreateDoes, FaultType DEF Create
  <2>4. CASE CheckFlag(t)
    BY <2>4, CheckFlagDoes, FaultType DEF CheckFlag, RemovePart, CleanupFault
  <2>5. CASE CopyBlock(t)
    BY <2>5, CopyBlockDoes, FaultType DEF CopyBlock, Finalize
  <2>6. CASE Inspect(t)
    BY <2>6, InspectDoes, FaultType DEF Inspect, RemovePart, CleanupFault
  <2>7. CASE BackUp(t)
    <3>1. task[t].side \in Sides /\ Target(t) \in Contents \cup {Absent}
      BY DEF Tasks, Target
    <3> QED
      BY <2>7, <3>1, BackUpDoes, FaultType DEF BackUp
  <2>8. CASE Commit(t)
    <3>1. task[t].side \in Sides /\ Target(t) \in Contents \cup {Absent}
      BY DEF Tasks, Target
    <3> QED
      BY <2>8, <3>1, CommitDoes, FaultType DEF Commit
  <2>9. CASE Restore(t)
    BY <2>9, RestoreDoes, FaultType DEF Restore, CleanupFault
  <2>10. CASE CleanUp(t)
    BY <2>10, CleanUpDoes, FaultType DEF CleanUp, RemovePart, CleanupFault
  <2>11. CASE DropBackup(t)
    BY <2>11, DropBackupDoes, FaultType DEF DropBackup, CleanupFault
  <2>12. CASE End(t)
    BY <2>12, EndDoes DEF End
  <2> QED
    BY <1>3, <2>1, <2>2, <2>3, <2>4, <2>5, <2>6, <2>7, <2>8, <2>9, <2>10, <2>11, <2>12 DEF Step
<1>4. ASSUME NEW c \in Connections, CancelConnection(c) PROVE TypeOK'
  BY <1>4 DEF CancelConnection, OnConnection
<1>5. CASE ForeignFile
  <2>1. foreigners' \in 0..MaxForeign
    BY <1>5, LimitAssumption DEF ForeignFile
  <2>2. target' \in [Sides -> Contents \cup {Absent}]
    BY <1>5 DEF ForeignFile
  <2> QED
    BY <1>5, <2>1, <2>2 DEF ForeignFile
<1>6. CASE UNCHANGED vars
  BY <1>6 DEF vars
<1> QED
  BY <1>1, <1>2, <1>3, <1>4, <1>5, <1>6 DEF Next

-----------------------------------------------------------------------------
(* One transfer and its files.                                               *)

Before == {"idle", "begin", "check", "create", "copy", "block", "inspect", "backup"}

\* A transfer has a backup from the moment the target was there and could be moved
\* until it is restored or dropped; its own temporary file is complete when it is
\* renamed; a download is in "restore", or about to replace the user's file
\* unasked, only after an operation has failed.
Owns(t) ==
  LET k == task[t]
  IN  /\ k.exists => k.over
      /\ k.pc \in Before \/ ~k.exists => backup[t] = Absent
      /\ k.pc \in {"commit", "restore"} /\ k.exists => backup[t] # Absent
      /\ k.pc \in {"backup", "drop"} => k.exists
      /\ k.pc = "inspect" => k.side = "download"
      /\ k.pc \in Before \ {"idle", "backup"} /\ k.side = "download" => ~k.exists
      /\ k.pc \in {"idle", "begin", "check", "create", "drop"} => part[t] = "none"
      /\ k.pc \in {"inspect", "backup", "commit"} => part[t] = "full"
      /\ k.pc \in {"end", "ended"} /\ t \notin messy => part[t] = "none"
      /\ k.pc \in {"clean", "end", "ended"} /\ t \notin messy /\ backup[t] # Absent => k.side = "upload"
      /\ k.pc \in {"end", "ended"} /\ t \notin messy /\ backup[t] # Absent => k.result = "failed"
      /\ k.pc = "restore" /\ k.side = "download" => faults > 0
      /\ k.pc = "commit" /\ k.side = "download" /\ ~k.over /\ target["download"] = Old => faults > 0
      /\ k.pc \notin {"end", "ended"} => k.result = "none"

OwnInv == \A t \in Transfers : Owns(t)

\* What the steps of others may do to the files of u.
LEMMA OwnsKept ==
  ASSUME TypeOK, NEW u \in Transfers, Owns(u),
         task'[u] = task[u], part'[u] = part[u], backup'[u] = backup[u], u \in messy => u \in messy',
         faults' \in 0..MaxFaults, faults > 0 => faults' > 0,
         target'["download"] = Old => target["download"] = Old \/ faults' > 0
  PROVE  Owns(u)'
BY DEF Owns

LEMMA OwnStep == TypeOK /\ OwnInv /\ [Next]_vars => OwnInv'
<1> SUFFICES ASSUME TypeOK, OwnInv, [Next]_vars, NEW v \in Transfers PROVE Owns(v)'
  BY DEF OwnInv
<1>a. TypeOK'
  BY TypeStep
<1>b. faults \in Nat /\ faults' \in 0..MaxFaults /\ "download" \in Sides /\ "upload" \in Sides
  BY <1>a, LimitAssumption DEF TypeOK, Sides
<1>c. Owns(v)
  BY DEF OwnInv
<1>d. Old # Absent /\ Old # Foreign /\ \A t \in Transfers : t # Old
  BY ContentsApart
<1>1. ASSUME NEW t \in Transfers, Request(t) PROVE Owns(v)'
  <2>1. CASE v = t
    BY <1>1, <1>b, <1>c, <2>1, RequestTask DEF Request, Owns, TypeOK, Before
  <2>2. CASE v # t
    BY <1>1, <1>b, <1>c, <2>2, RequestTask, OwnsKept DEF Request, TypeOK
  <2> QED
    BY <2>1, <2>2
<1>2. ASSUME NEW t \in Transfers, Cancel(t) PROVE Owns(v)'
  BY <1>2, <1>b, <1>c, OwnsKept DEF Cancel
<1>3. ASSUME NEW t \in Transfers, Step(t) PROVE Owns(v)'
  <2>0. faults' >= faults /\ (target'["download"] = Old => target["download"] = Old \/ faults' > 0)
        /\ (v # t => task'[v] = task[v] /\ part'[v] = part[v] /\ backup'[v] = backup[v])
        /\ messy \subseteq messy'
    <3> USE <1>b DEF TypeOK, Becomes, Fault, CleanupFault, RemovePart
    <3>1. CASE Begin(t)
      BY <3>1, BeginDoes DEF Begin
    <3>2. CASE Check(t)
      <4>1. UNCHANGED <<target, part, backup, messy>>
        BY <3>2 DEF Check
      <4>2. faults' >= faults
        BY <3>2, CheckDoes
      <4>3. v # t => task'[v] = task[v]
        BY <3>2, CheckDoes
      <4> QED
        BY <4>1, <4>2, <4>3
    <3>3. CASE Create(t)
      BY <3>3, CreateDoes DEF Create
    <3>4. CASE CheckFlag(t)
      BY <3>4, CheckFlagDoes DEF CheckFlag
    <3>5. CASE CopyBlock(t)
      BY <3>5, CopyBlockDoes DEF CopyBlock
    <3>6. CASE Inspect(t)
      <4>1. UNCHANGED <<target, backup>> /\ messy \subseteq messy' /\ faults' >= faults
            /\ (v # t => part'[v] = part[v])
        <5>1. RemovePart(t) => messy \subseteq messy' /\ faults' >= faults /\ (v # t => part'[v] = part[v])
          OBVIOUS
        <5> QED
          BY <3>6, <5>1, InspectDoes DEF Inspect
      <4>2. v # t => task'[v] = task[v]
        BY <3>6, InspectDoes
      <4> QED
        BY <4>1, <4>2
    <3>7. CASE BackUp(t)
      BY <3>7, BackUpDoes, <1>d DEF BackUp
    <3>8. CASE Commit(t)
      BY <3>8, CommitDoes, <1>d DEF Commit
    <3>9. CASE Restore(t)
      <4>1. Owns(t)
        BY DEF OwnInv
      <4> QED
        BY <3>9, <4>1, RestoreDoes DEF Restore, Owns
    <3>10. CASE CleanUp(t)
      BY <3>10, CleanUpDoes DEF CleanUp
    <3>11. CASE DropBackup(t)
      BY <3>11, DropBackupDoes DEF DropBackup
    <3>12. CASE End(t)
      BY <3>12, EndDoes DEF End
    <3> QED
      BY <1>3, <3>1, <3>2, <3>3, <3>4, <3>5, <3>6, <3>7, <3>8, <3>9, <3>10, <3>11, <3>12 DEF Step
  <2>a. CASE v # t
    BY <1>b, <1>c, <2>0, <2>a, OwnsKept
  <2>b. CASE v = t
    <3> USE <1>b, <1>c, <1>d, <2>b DEF TypeOK, Becomes, Before, Owns
    <3>1. CASE Begin(t)
      BY <3>1, BeginDoes DEF Begin
    <3>2. CASE Check(t)
      BY <3>2, CheckDoes DEF Check, Fault
    <3>3. CASE Create(t)
      BY <3>3, CreateDoes DEF Create, Fault
    <3>4. CASE CheckFlag(t)
      BY <3>4, CheckFlagDoes DEF CheckFlag, Fault, CleanupFault, RemovePart
    <3>5. CASE CopyBlock(t)
      BY <3>5, CopyBlockDoes DEF CopyBlock, Fault, Finalize
    <3>6. CASE Inspect(t)
      <4>1. CASE Becomes(t, "end", task[t].exists, "conflict") /\ RemovePart(t)
        BY <3>6, <4>1, InspectDoes DEF Inspect, Fault, CleanupFault, RemovePart
      <4>2. CASE /\ Becomes(t, "backup", TRUE, task[t].result) /\ task[t].over
                 /\ UNCHANGED <<part, faults, messy>>
        BY <3>6, <4>2, InspectDoes DEF Inspect
      <4>3. CASE /\ Becomes(t, "commit", task[t].exists, task[t].result) /\ Target(t) = Absent
                 /\ UNCHANGED <<part, faults, messy>>
        BY <3>6, <4>3, InspectDoes DEF Inspect, Target
      <4>4. CASE Becomes(t, "commit", task[t].exists, task[t].result) /\ Fault /\ UNCHANGED <<part, messy>>
        BY <3>6, <4>4, InspectDoes DEF Inspect, Fault
      <4>5. \/ Becomes(t, "end", task[t].exists, "conflict") /\ RemovePart(t)
            \/ /\ Becomes(t, "backup", TRUE, task[t].result) /\ task[t].over
               /\ UNCHANGED <<part, faults, messy>>
            \/ /\ Becomes(t, "commit", task[t].exists, task[t].result) /\ Target(t) = Absent
               /\ UNCHANGED <<part, faults, messy>>
            \/ Becomes(t, "commit", task[t].exists, task[t].result) /\ Fault /\ UNCHANGED <<part, messy>>
        BY <3>6, InspectDoes
      <4> QED
        BY <4>1, <4>2, <4>3, <4>4, <4>5
    <3>7. CASE BackUp(t)
      BY <3>7, BackUpDoes DEF BackUp, Fault
    <3>8. CASE Commit(t)
      BY <3>8, CommitDoes DEF Commit, Fault, Renames
    <3>9. CASE Restore(t)
      BY <3>9, RestoreDoes DEF Restore, Fault, CleanupFault, Renames, Tasks, Sides
    <3>10. CASE CleanUp(t)
      BY <3>10, CleanUpDoes DEF CleanUp, Fault, CleanupFault, RemovePart
    <3>11. CASE DropBackup(t)
      BY <3>11, DropBackupDoes DEF DropBackup, Fault, CleanupFault
    <3>12. CASE End(t)
      BY <3>12, EndDoes DEF End
    <3> QED
      BY <1>3, <3>1, <3>2, <3>3, <3>4, <3>5, <3>6, <3>7, <3>8, <3>9, <3>10, <3>11, <3>12 DEF Step
  <2> QED
    BY <2>a, <2>b
<1>4. ASSUME NEW c \in Connections, CancelConnection(c) PROVE Owns(v)'
  BY <1>4, <1>b, <1>c, OwnsKept DEF CancelConnection
<1>5. CASE ForeignFile
  BY <1>5, <1>b, <1>c, OwnsKept DEF ForeignFile, TypeOK
<1>6. CASE UNCHANGED vars
  BY <1>6, <1>b, <1>c, OwnsKept DEF vars
<1> QED
  BY <1>1, <1>2, <1>3, <1>4, <1>5, <1>6 DEF Next

-----------------------------------------------------------------------------
(* The table.                                                                *)

\* A transfer that is neither waiting to be registered nor over is in the table.
TableInv ==
  /\ IsFiniteSet(table)
  /\ \A t \in Transfers : task[t].pc \notin {"idle", "begin", "end", "ended"} => t \in table
  /\ Exclusive

\* Steps that leave table and requests alone.
LEMMA TableKept ==
  ASSUME TypeOK, TableInv, UNCHANGED table,
         \A t \in Transfers : t \in table => task'[t].conn = task[t].conn /\ task'[t].side = task[t].side,
         \A t \in Transfers : task'[t].pc \notin {"idle", "begin", "end", "ended"} => t \in table
  PROVE  TableInv'
<1>1. \A c \in Connections : OnConnection(c)' = OnConnection(c)
  BY DEF OnConnection, TypeOK
<1>2. Exclusive'
  <2>1. \A c \in Connections : \A u \in OnConnection(c) : task'[u].side = task[u].side
    BY DEF OnConnection, TypeOK
  <2> QED
    BY <1>1, <2>1 DEF TableInv, Exclusive
<1> QED
  BY <1>2 DEF TableInv

\* A registration adds to what is on the connection, in the limits.
LEMMA TableBegin ==
  ASSUME TypeOK, TableInv, NEW t \in Transfers, Begin(t)
  PROVE  TableInv'
<1>0. task \in [Transfers -> Tasks] /\ table \subseteq Transfers
  BY DEF TypeOK
<1>1. CASE Becomes(t, "end", task[t].exists, "failed") /\ UNCHANGED table
  <2>1. \A u \in Transfers : task'[u].conn = task[u].conn /\ task'[u].side = task[u].side
    BY <1>1 DEF Becomes
  <2>2. \A u \in Transfers : task'[u].pc \notin {"idle", "begin", "end", "ended"} => u \in table
    BY <1>1 DEF Becomes, TableInv
  <2> QED
    BY <1>1, <2>1, <2>2, TableKept
<1>2. CASE Becomes(t, "check", task[t].exists, task[t].result) /\ ~Busy(t) /\ table' = table \cup {t}
  <2>1. \A u \in Transfers : task'[u].conn = task[u].conn /\ task'[u].side = task[u].side
    BY <1>2 DEF Becomes
  <2>2. t \notin table
    BY <1>0, BeginDoes DEF TypeOK
  <2>3. IsFiniteSet(table')
    BY <1>2, FS_AddElement DEF TableInv
  <2>4. \A u \in Transfers : task'[u].pc \notin {"idle", "begin", "end", "ended"} => u \in table'
    BY <1>2 DEF Becomes, TableInv
  <2>5. ASSUME NEW c \in Connections
        PROVE  /\ Cardinality(OnConnection(c)') <= MaxDownloads
               /\ (\E u \in OnConnection(c)' : task'[u].side = "upload") => Cardinality(OnConnection(c)') = 1
    <3> DEFINE there == OnConnection(c)
    <3>1. IsFiniteSet(there) /\ there \subseteq table /\ Cardinality(there) \in Nat
      <4>1. there \subseteq table
        BY DEF OnConnection
      <4> QED
        BY <4>1, FS_Subset, FS_CardinalityType DEF TableInv
    <3>2. /\ Cardinality(there) <= MaxDownloads
          /\ (\E u \in there : task[u].side = "upload") => Cardinality(there) = 1
      BY DEF TableInv, Exclusive
    <3>3. CASE task[t].conn # c
      <4>1. OnConnection(c)' = there
        BY <1>0, <1>2, <2>1, <3>3 DEF OnConnection
      <4>2. \A u \in there : task'[u].side = task[u].side
        BY <1>0, <2>1, <3>1
      <4> HIDE DEF there
      <4> QED
        BY <3>2, <4>1, <4>2
    <3>4. CASE task[t].conn = c
      <4>1. OnConnection(c)' = there \cup {t}
        BY <1>0, <1>2, <2>1, <3>4 DEF OnConnection
      <4>2. t \notin there
        BY <2>2, <3>1
      <4>3. /\ ~\E u \in there : task[u].side = "upload"
            /\ task[t].side = "upload" => there = {}
            /\ ~(Cardinality(there) >= MaxDownloads)
        BY <1>2, <3>4 DEF Busy
      <4>4. Cardinality(there \cup {t}) = Cardinality(there) + 1
        BY <3>1, <4>2, FS_AddElement
      <4>5. \A u \in there : task'[u].side = task[u].side
        BY <1>0, <2>1, <3>1
      <4>6. task[t].side = "upload" => Cardinality(there \cup {t}) = 1
        BY <4>3, <4>4, FS_EmptySet
      <4> HIDE DEF there
      <4>7. Cardinality(there \cup {t}) <= MaxDownloads
        BY <3>1, <4>3, <4>4, LimitAssumption
      <4>8. (\E u \in there \cup {t} : task'[u].side = "upload") => Cardinality(there \cup {t}) = 1
        BY <2>1, <4>3, <4>5, <4>6
      <4> QED
        BY <4>1, <4>7, <4>8
    <3> QED
      BY <3>3, <3>4
  <2>6. Exclusive'
    BY <2>5 DEF Exclusive
  <2> QED
    BY <2>3, <2>4, <2>6 DEF TableInv
<1> QED
  BY <1>0, <1>1, <1>2, BeginDoes

LEMMA TableEnd ==
  ASSUME TypeOK, TableInv, NEW t \in Transfers, End(t)
  PROVE  TableInv'
<1>0. task \in [Transfers -> Tasks] /\ table \subseteq Transfers
  BY DEF TypeOK
<1>1. /\ Becomes(t, "ended", task[t].exists, task[t].result) /\ table' = table \ {t}
      /\ task[t].pc = "end"
  BY <1>0, EndDoes
<1>2. \A u \in Transfers : task'[u].conn = task[u].conn /\ task'[u].side = task[u].side
  BY <1>1 DEF Becomes
<1>3. IsFiniteSet(table')
  BY <1>1, FS_RemoveElement DEF TableInv
<1>4. \A u \in Transfers : task'[u].pc \notin {"idle", "begin", "end", "ended"} => u \in table'
  BY <1>1 DEF Becomes, TableInv
<1>5. ASSUME NEW c \in Connections
      PROVE  /\ Cardinality(OnConnection(c)') <= MaxDownloads
             /\ (\E u \in OnConnection(c)' : task'[u].side = "upload") => Cardinality(OnConnection(c)') = 1
  <2> DEFINE there == OnConnection(c)
  <2>1. IsFiniteSet(there) /\ Cardinality(there) \in Nat
    <3>1. there \subseteq table
      BY DEF OnConnection
    <3> QED
      BY <3>1, FS_Subset, FS_CardinalityType DEF TableInv
  <2>2. OnConnection(c)' \subseteq there
    BY <1>0, <1>1, <1>2 DEF OnConnection
  <2>3. /\ IsFiniteSet(OnConnection(c)') /\ Cardinality(OnConnection(c)') \in Nat
        /\ Cardinality(OnConnection(c)') <= Cardinality(there)
    BY <2>1, <2>2, FS_Subset, FS_CardinalityType
  <2>4. (\E u \in OnConnection(c)' : task'[u].side = "upload") => \E u \in there : task[u].side = "upload"
    BY <1>0, <1>2, <2>2 DEF OnConnection
  <2>5. (\E u \in OnConnection(c)' : task'[u].side = "upload") => Cardinality(OnConnection(c)') # 0
    BY <2>3, FS_EmptySet
  <2>6. /\ Cardinality(there) <= MaxDownloads
        /\ (\E u \in there : task[u].side = "upload") => Cardinality(there) = 1
    BY DEF TableInv, Exclusive
  <2> HIDE DEF there
  <2> QED
    BY <2>1, <2>3, <2>4, <2>5, <2>6, LimitAssumption
<1> QED
  BY <1>3, <1>4, <1>5 DEF TableInv, Exclusive

LEMMA TableStep == TypeOK /\ TableInv /\ [Next]_vars => TableInv'
<1> SUFFICES ASSUME TypeOK, TableInv, [Next]_vars PROVE TableInv'
  OBVIOUS
<1>0. /\ task \in [Transfers -> Tasks] /\ table \subseteq Transfers
      /\ \A t \in Transfers : t \in table => task[t].pc \notin {"idle", "begin", "ended"}
      /\ \A t \in Transfers : task[t].pc \notin {"idle", "begin", "end", "ended"} => t \in table
  BY DEF TypeOK, TableInv
<1>1. ASSUME NEW t \in Transfers, Request(t) PROVE TableInv'
  <2>1. UNCHANGED table
    BY <1>1 DEF Request
  <2> QED
    BY <1>0, <1>1, <2>1, RequestTask, TableKept
<1>2. ASSUME NEW t \in Transfers, Cancel(t) PROVE TableInv'
  BY <1>0, <1>2, TableKept DEF Cancel
<1>3. ASSUME NEW t \in Transfers, Step(t) PROVE TableInv'
  <2>1. CASE Begin(t)
    BY <2>1, TableBegin
  <2>2. CASE End(t)
    BY <2>2, TableEnd
  <2>3. CASE ~Begin(t) /\ ~End(t)
    <3>1. /\ UNCHANGED table
          /\ task[t].pc \notin {"idle", "begin", "end", "ended"}
          /\ \E pc \in Pcs, exists \in BOOLEAN, result \in Results : Becomes(t, pc, exists, result)
      <4>0. task[t].exists \in BOOLEAN /\ task[t].result \in Results /\ Finalize(t) \in Pcs
        BY <1>0 DEF Tasks, Finalize, Pcs
      <4> USE <1>0, <4>0 DEF Pcs, Results
      <4>2. CASE Check(t)
        BY <4>2, CheckDoes DEF Check
      <4>3. CASE Create(t)
        BY <4>3, CreateDoes DEF Create
      <4>4. CASE CheckFlag(t)
        BY <4>4, CheckFlagDoes DEF CheckFlag
      <4>5. CASE CopyBlock(t)
        BY <4>5, CopyBlockDoes DEF CopyBlock
      <4>6. CASE Inspect(t)
        BY <4>6, InspectDoes DEF Inspect
      <4>7. CASE BackUp(t)
        BY <4>7, BackUpDoes DEF BackUp
      <4>8. CASE Commit(t)
        BY <4>8, CommitDoes DEF Commit
      <4>9. CASE Restore(t)
        BY <4>9, RestoreDoes DEF Restore
      <4>10. CASE CleanUp(t)
        BY <4>10, CleanUpDoes DEF CleanUp
      <4>11. CASE DropBackup(t)
        BY <4>11, DropBackupDoes DEF DropBackup
      <4> QED
        BY <1>3, <2>3, <4>2, <4>3, <4>4, <4>5, <4>6, <4>7, <4>8, <4>9, <4>10, <4>11 DEF Step
    <3>2. \A u \in Transfers : task'[u].conn = task[u].conn /\ task'[u].side = task[u].side
      BY <3>1 DEF Becomes
    <3>3. \A u \in Transfers : task'[u].pc \notin {"idle", "begin", "end", "ended"} => u \in table
      BY <1>0, <3>1 DEF Becomes
    <3> QED
      BY <3>1, <3>2, <3>3, TableKept
  <2> QED
    BY <2>1, <2>2, <2>3
<1>4. ASSUME NEW c \in Connections, CancelConnection(c) PROVE TableInv'
  BY <1>0, <1>4, TableKept DEF CancelConnection
<1>5. CASE ForeignFile
  BY <1>0, <1>5, TableKept DEF ForeignFile
<1>6. CASE UNCHANGED vars
  BY <1>0, <1>6, TableKept DEF vars
<1> QED
  BY <1>1, <1>2, <1>3, <1>4, <1>5, <1>6 DEF Next

-----------------------------------------------------------------------------
(* What is written, and by whom.                                             *)

Finished(t) == task[t].pc = "drop" \/ task[t].result = "done"
WrittenBy(t) == (\E s \in Sides : target[s] = t) \/ (\E u \in Transfers : backup[u] = t)

\* Only transfers that succeeded have their content in the directory, and one that was
\* cancelled before its registration does not get past its first look at the flag.
ContentInv == \A t \in Transfers : WrittenBy(t) => Finished(t)
EarlyInv ==
  \A t \in early : /\ t \in cancelled /\ task[t].result # "done" /\ backup[t] = Absent
                   /\ task[t].pc \in {"begin", "check", "create", "copy", "end", "ended"}

\* A transfer that has succeeded stays so.
LEMMA FinishedStays ==
  ASSUME TypeOK, OwnInv, [Next]_vars, NEW v \in Transfers, Finished(v)
  PROVE  Finished(v)'
<1>0. /\ task \in [Transfers -> Tasks] /\ Owns(v)
      /\ task[v].pc = "drop" \/ task[v].pc \in {"end", "ended"}
  BY DEF OwnInv, Owns, TypeOK, Finished
<1>1. ASSUME NEW t \in Transfers, Request(t) PROVE Finished(v)'
  BY <1>0, <1>1, RequestTask DEF Finished
<1>2. ASSUME NEW t \in Transfers, Cancel(t) PROVE Finished(v)'
  BY <1>2 DEF Cancel, Finished
<1>3. ASSUME NEW t \in Transfers, Step(t) PROVE Finished(v)'
  <2>1. CASE DropBackup(t)
    BY <2>1, <1>0, DropBackupDoes DEF Becomes, Finished
  <2>2. CASE End(t)
    BY <2>2, <1>0, EndDoes DEF Becomes, Finished
  <2>3. CASE ~DropBackup(t) /\ ~End(t)
    <3>1. t # v
      BY <1>0, <1>3, <2>3 DEF Step, Begin, Check, Create, CheckFlag, CopyBlock, Inspect, BackUp, Commit, Restore, CleanUp
    <3>2. task'[v] = task[v]
      <4> USE <1>0, <3>1 DEF Becomes
      <4>1. CASE Begin(t)
        BY <4>1, BeginDoes
      <4>2. CASE Check(t)
        BY <4>2, CheckDoes
      <4>3. CASE Create(t)
        BY <4>3, CreateDoes
      <4>4. CASE CheckFlag(t)
        BY <4>4, CheckFlagDoes
      <4>5. CASE CopyBlock(t)
        BY <4>5, CopyBlockDoes
      <4>6. CASE Inspect(t)
        BY <4>6, InspectDoes
      <4>7. CASE BackUp(t)
        BY <4>7, BackUpDoes
      <4>8. CASE Commit(t)
        BY <4>8, CommitDoes
      <4>9. CASE Restore(t)
        BY <4>9, RestoreDoes
      <4>10. CASE CleanUp(t)
        BY <4>10, CleanUpDoes
      <4> QED
        BY <1>3, <2>3, <4>1, <4>2, <4>3, <4>4, <4>5, <4>6, <4>7, <4>8, <4>9, <4>10 DEF Step
    <3> QED
      BY <3>2 DEF Finished
  <2> QED
    BY <2>1, <2>2, <2>3
<1>4. ASSUME NEW c \in Connections, CancelConnection(c) PROVE Finished(v)'
  BY <1>4 DEF CancelConnection, Finished
<1>5. CASE ForeignFile
  BY <1>5 DEF ForeignFile, Finished
<1>6. CASE UNCHANGED vars
  BY <1>6 DEF vars, Finished
<1> QED
  BY <1>1, <1>2, <1>3, <1>4, <1>5, <1>6 DEF Next

\* Contents move between target and backup, and only a commit adds one.
LEMMA WrittenStep ==
  ASSUME TypeOK, [Next]_vars, NEW v \in Transfers, WrittenBy(v)'
  PROVE  WrittenBy(v) \/ Finished(v)'
<1>0. /\ task \in [Transfers -> Tasks] /\ target \in [Sides -> Contents \cup {Absent}]
      /\ backup \in [Transfers -> Contents \cup {Absent}]
      /\ v # Absent /\ v # Foreign
      /\ \A t \in Transfers : task[t].side \in Sides
  BY ContentsApart DEF TypeOK, Tasks
<1>1. CASE UNCHANGED <<target, backup>>
  BY <1>1 DEF WrittenBy
<1>2. CASE ForeignFile
  BY <1>0, <1>2 DEF ForeignFile, WrittenBy
<1>3. ASSUME NEW t \in Transfers, BackUp(t) PROVE WrittenBy(v) \/ Finished(v)'
  BY <1>0, <1>3 DEF BackUp, WrittenBy, Target
<1>4. ASSUME NEW t \in Transfers, Commit(t) PROVE WrittenBy(v) \/ Finished(v)'
  <2>1. CASE UNCHANGED target
    BY <1>4, <2>1 DEF Commit, WrittenBy
  <2>2. CASE target' = [target EXCEPT ![task[t].side] = t] /\ Finished(t)'
    BY <1>0, <1>4, <2>2 DEF Commit, WrittenBy
  <2>3. UNCHANGED target \/ (target' = [target EXCEPT ![task[t].side] = t] /\ Finished(t)')
    BY <1>0, <1>4, CommitDoes DEF Becomes, Finished
  <2> QED
    BY <2>1, <2>2, <2>3
<1>5. ASSUME NEW t \in Transfers, Restore(t) PROVE WrittenBy(v) \/ Finished(v)'
  BY <1>0, <1>5 DEF Restore, WrittenBy
<1>6. ASSUME NEW t \in Transfers, DropBackup(t) PROVE WrittenBy(v) \/ Finished(v)'
  BY <1>0, <1>6 DEF DropBackup, WrittenBy
<1>7. ASSUME NEW t \in Transfers,
             Request(t) \/ Cancel(t) \/ Begin(t) \/ Check(t) \/ Create(t) \/ CheckFlag(t) \/ CopyBlock(t)
               \/ Inspect(t) \/ CleanUp(t) \/ End(t)
      PROVE  UNCHANGED <<target, backup>>
  BY <1>7 DEF Request, Cancel, Begin, Check, Create, CheckFlag, CopyBlock, Inspect, CleanUp, End
<1>8. (\E c \in Connections : CancelConnection(c)) \/ UNCHANGED vars => UNCHANGED <<target, backup>>
  BY DEF CancelConnection, vars
<1> QED
  BY <1>1, <1>2, <1>3, <1>4, <1>5, <1>6, <1>7, <1>8 DEF Next, Step

LEMMA ContentStep == TypeOK /\ OwnInv /\ ContentInv /\ [Next]_vars => ContentInv'
<1> SUFFICES ASSUME TypeOK, OwnInv, ContentInv, [Next]_vars, NEW v \in Transfers, WrittenBy(v)'
             PROVE  Finished(v)'
  BY DEF ContentInv
<1> QED
  BY WrittenStep, FinishedStays DEF ContentInv

LEMMA EarlyStep == TypeOK /\ OwnInv /\ TableInv /\ EarlyInv /\ [Next]_vars => EarlyInv'
<1> DEFINE Stopped(t) == /\ t \in cancelled /\ task[t].result # "done" /\ backup[t] = Absent
                         /\ task[t].pc \in {"begin", "check", "create", "copy", "end", "ended"}
<1> SUFFICES ASSUME TypeOK, OwnInv, TableInv, EarlyInv, [Next]_vars, NEW v \in early'
             PROVE  Stopped(v)'
  BY DEF EarlyInv
<1>0. /\ task \in [Transfers -> Tasks] /\ early \subseteq Transfers
      /\ backup \in [Transfers -> Contents \cup {Absent}]
  BY DEF TypeOK
<1>1. CASE v \notin early
  <2>1. PICK t \in Transfers : Cancel(t) /\ v = t /\ t \notin table
    <3>1. PICK t \in Transfers : Cancel(t)
      BY <1>1 DEF Next, Step, vars, Request, Begin, Check, Create, CheckFlag, CopyBlock, Inspect,
                  BackUp, Commit, Restore, CleanUp, DropBackup, End, CancelConnection, ForeignFile
    <3> QED
      BY <1>1, <3>1 DEF Cancel
  <2>2. task[v].pc = "begin" /\ Owns(v)
    BY <2>1 DEF Cancel, TableInv, OwnInv
  <2>3. UNCHANGED <<task, backup>> /\ v \in cancelled'
    BY <2>1 DEF Cancel
  <2> QED
    BY <2>2, <2>3 DEF Owns, Before
<1>2. CASE v \in early
  <2>0. v \in Transfers /\ Stopped(v)
    BY <1>0, <1>2 DEF EarlyInv
  <2>1. ASSUME NEW t \in Transfers, Request(t) PROVE Stopped(v)'
    BY <1>0, <2>0, <2>1, RequestTask DEF Request
  <2>2. ASSUME NEW t \in Transfers, Cancel(t) PROVE Stopped(v)'
    BY <2>0, <2>2 DEF Cancel
  <2>3. ASSUME NEW t \in Transfers, Step(t) PROVE Stopped(v)'
    <3>0. UNCHANGED cancelled
      BY <2>3 DEF Step, Begin, Check, Create, CheckFlag, CopyBlock, Inspect, BackUp, Commit, Restore,
                  CleanUp, DropBackup, End
    <3> USE <1>0, <2>0, <3>0 DEF Becomes
    <3>1. CASE Begin(t)
      BY <3>1, BeginDoes DEF Begin
    <3>2. CASE Check(t)
      <4>1. UNCHANGED backup
        BY <3>2 DEF Check
      <4> QED
        BY <3>2, <4>1, CheckDoes
    <3>3. CASE Create(t)
      BY <3>3, CreateDoes DEF Create
    <3>4. CASE CheckFlag(t)
      BY <3>4, CheckFlagDoes DEF CheckFlag
    <3>5. CASE CopyBlock(t)
      BY <3>5, CopyBlockDoes DEF CopyBlock
    <3>6. CASE Inspect(t)
      <4>1. UNCHANGED backup
        BY <3>6 DEF Inspect
      <4>2. task[t].pc = "inspect" /\ \A u \in Transfers : u # t => task'[u] = task[u]
        BY <3>6, InspectDoes
      <4> QED
        BY <4>1, <4>2
    <3>7. CASE BackUp(t)
      BY <3>7, BackUpDoes
    <3>8. CASE Commit(t)
      <4>1. UNCHANGED backup
        BY <3>8 DEF Commit
      <4>2. task[t].pc = "commit" /\ \A u \in Transfers : u # t => task'[u] = task[u]
        BY <3>8, CommitDoes
      <4> QED
        BY <4>1, <4>2
    <3>9. CASE Restore(t)
      BY <3>9, RestoreDoes
    <3>10. CASE CleanUp(t)
      BY <3>10, CleanUpDoes DEF CleanUp
    <3>11. CASE DropBackup(t)
      BY <3>11, DropBackupDoes
    <3>12. CASE End(t)
      BY <3>12, EndDoes DEF End
    <3> QED
      BY <2>3, <3>1, <3>2, <3>3, <3>4, <3>5, <3>6, <3>7, <3>8, <3>9, <3>10, <3>11, <3>12 DEF Step
  <2>4. ASSUME NEW c \in Connections, CancelConnection(c) PROVE Stopped(v)'
    BY <2>0, <2>4 DEF CancelConnection
  <2>5. CASE ForeignFile
    BY <2>0, <2>5 DEF ForeignFile
  <2>6. CASE UNCHANGED vars
    BY <2>0, <2>6 DEF vars
  <2> QED
    BY <2>1, <2>2, <2>3, <2>4, <2>5, <2>6 DEF Next
<1> QED
  BY <1>1, <1>2

-----------------------------------------------------------------------------
(* The name is taken again.                                                  *)

\* While at most one operation has failed, somebody who can still write the name holds
\* a backup of it: about to rename, or to put back after the one failure.
Hope(s) ==
  \E u \in Transfers : /\ task[u].side = s /\ backup[u] # Absent
                       /\ task[u].pc = "commit" \/ (task[u].pc = "restore" /\ faults = 1)

NameInv ==
  faults <= 1 => \A s \in Sides, t \in Transfers :
                   target[s] = Absent /\ task[t].side = s /\ backup[t] # Absent => Hope(s)

\* Steps of a transfer that is not renaming.
LEMMA NameKept ==
  ASSUME TypeOK, NameInv, faults' \in Nat, faults' >= faults, NEW x \in Transfers,
         \A u \in Transfers : u # x => task'[u] = task[u] /\ backup'[u] = backup[u],
         backup[x] # Absent => task'[x].side = task[x].side,
         backup'[x] # Absent => backup'[x] = backup[x],
         task[x].pc \notin {"commit", "restore"},
         \A s \in Sides : target'[s] = Absent => target[s] = Absent
  PROVE  NameInv'
<1> SUFFICES ASSUME faults' <= 1, NEW s \in Sides, NEW t \in Transfers,
                    target'[s] = Absent, task'[t].side = s, backup'[t] # Absent
             PROVE  Hope(s)'
  BY DEF NameInv
<1>1. faults \in Nat /\ faults <= 1
  BY LimitAssumption DEF TypeOK
<1>2. target[s] = Absent /\ task[t].side = s /\ backup[t] # Absent
  OBVIOUS
<1>3. PICK u \in Transfers : /\ task[u].side = s /\ backup[u] # Absent
                             /\ task[u].pc = "commit" \/ (task[u].pc = "restore" /\ faults = 1)
  BY <1>1, <1>2 DEF NameInv, Hope
<1>4. u # x
  BY <1>3
<1> QED
  BY <1>1, <1>3, <1>4 DEF Hope

LEMMA NameBackUp ==
  ASSUME TypeOK, NameInv, NEW x \in Transfers, BackUp(x)
  PROVE  NameInv'
<1>0. /\ task \in [Transfers -> Tasks] /\ backup \in [Transfers -> Contents \cup {Absent}]
      /\ target \in [Sides -> Contents \cup {Absent}] /\ task[x].side \in Sides
      /\ faults \in Nat /\ (Fault => faults' = faults + 1)
  BY LimitAssumption DEF TypeOK, Tasks, Fault
<1>1. CASE UNCHANGED <<target, backup>> /\ (UNCHANGED faults \/ Fault)
           /\ Becomes(x, "clean", task[x].exists, task[x].result)
  <2>1. faults' \in Nat /\ faults' >= faults
    BY <1>0, <1>1
  <2>2. task[x].pc = "backup"
    BY DEF BackUp
  <2> QED
    BY <1>1, <2>1, <2>2, NameKept DEF Becomes
<1>2. CASE /\ Becomes(x, "commit", task[x].exists, task[x].result) /\ Target(x) # Absent
           /\ backup' = [backup EXCEPT ![x] = Target(x)]
           /\ target' = [target EXCEPT ![task[x].side] = Absent]
           /\ UNCHANGED faults
  <2> SUFFICES ASSUME faults' <= 1, NEW s \in Sides, NEW t \in Transfers,
                      target'[s] = Absent, task'[t].side = s, backup'[t] # Absent
               PROVE  Hope(s)'
    BY DEF NameInv
  <2>1. CASE s = task[x].side
    <3>1. task'[x].side = s /\ task'[x].pc = "commit" /\ backup'[x] # Absent
      BY <1>0, <1>2, <2>1 DEF Becomes
    <3> QED
      BY <3>1 DEF Hope
  <2>2. CASE s # task[x].side
    <3>1. target[s] = Absent /\ t # x
      BY <1>0, <1>2, <2>2 DEF Becomes
    <3>2. task[t].side = s /\ backup[t] # Absent
      BY <1>0, <1>2, <3>1 DEF Becomes
    <3>3. PICK u \in Transfers : /\ task[u].side = s /\ backup[u] # Absent
                                 /\ task[u].pc = "commit" \/ (task[u].pc = "restore" /\ faults = 1)
      BY <1>2, <3>1, <3>2 DEF NameInv, Hope
    <3>4. u # x
      BY <2>2, <3>3
    <3> QED
      BY <1>0, <1>2, <3>3, <3>4 DEF Hope, Becomes
  <2> QED
    BY <2>1, <2>2
<1> QED
  BY <1>0, <1>1, <1>2, BackUpDoes

LEMMA NameCommit ==
  ASSUME TypeOK, OwnInv, NameInv, NEW x \in Transfers, Commit(x)
  PROVE  NameInv'
<1>0. /\ task \in [Transfers -> Tasks] /\ backup \in [Transfers -> Contents \cup {Absent}]
      /\ target \in [Sides -> Contents \cup {Absent}] /\ task[x].side \in Sides /\ x # Absent
      /\ faults \in Nat /\ (Fault => faults' = faults + 1)
  BY ContentsApart, LimitAssumption DEF TypeOK, Tasks, Fault
<1> SUFFICES ASSUME faults' <= 1, NEW s \in Sides, NEW t \in Transfers,
                    target'[s] = Absent, task'[t].side = s, backup'[t] # Absent
             PROVE  Hope(s)'
  BY DEF NameInv
<1>1. UNCHANGED backup
  BY DEF Commit
<1>2. /\ \A u \in Transfers : task'[u].side = task[u].side
      /\ \A u \in Transfers : u # x => task'[u] = task[u]
  BY <1>0, CommitDoes DEF Becomes
<1>3. faults' \in Nat /\ faults' >= faults /\ target[s] = Absent /\ (s = task[x].side => faults' = faults + 1 /\ task'[x].pc = "restore")
  <2>1. CASE target' = [target EXCEPT ![task[x].side] = x] /\ UNCHANGED faults
    BY <1>0, <2>1
  <2>2. CASE /\ Becomes(x, "restore", task[x].exists, task[x].result) /\ UNCHANGED target
             /\ (~Renames(x) /\ UNCHANGED faults) \/ Fault
    BY <1>0, <2>2 DEF Becomes, Renames, Target
  <2> QED
    BY <1>0, <2>1, <2>2, CommitDoes
<1>4. task[t].side = s /\ backup[t] # Absent
  BY <1>1, <1>2
<1>5. PICK u \in Transfers : /\ task[u].side = s /\ backup[u] # Absent
                             /\ task[u].pc = "commit" \/ (task[u].pc = "restore" /\ faults = 1)
  BY <1>0, <1>3, <1>4 DEF NameInv, Hope
<1>6. CASE u # x
  BY <1>0, <1>1, <1>2, <1>3, <1>5, <1>6 DEF Hope
<1>7. CASE u = x
  <2>1. faults' = 1
    BY <1>0, <1>3, <1>5, <1>7
  <2> QED
    BY <2>1, <1>1, <1>2, <1>3, <1>5, <1>7 DEF Hope
<1> QED
  BY <1>6, <1>7

LEMMA NameRestore ==
  ASSUME TypeOK, OwnInv, NameInv, NEW x \in Transfers, Restore(x)
  PROVE  NameInv'
<1>0. /\ task \in [Transfers -> Tasks] /\ backup \in [Transfers -> Contents \cup {Absent}]
      /\ target \in [Sides -> Contents \cup {Absent}] /\ task[x].side \in Sides
      /\ faults \in Nat /\ (CleanupFault(x) => faults' = faults + 1)
      /\ Owns(x)
  BY LimitAssumption DEF TypeOK, Tasks, Fault, CleanupFault, OwnInv
<1> SUFFICES ASSUME faults' <= 1, NEW s \in Sides, NEW t \in Transfers,
                    target'[s] = Absent, task'[t].side = s, backup'[t] # Absent
             PROVE  Hope(s)'
  BY DEF NameInv
<1>1. /\ \A u \in Transfers : task'[u].side = task[u].side
      /\ \A u \in Transfers : u # x => task'[u] = task[u]
      /\ task[x].pc = "restore"
  BY <1>0, RestoreDoes DEF Becomes
<1>2. /\ task[x].exists /\ Renames(x) => backup[x] # Absent
      /\ task[x].side = s /\ backup[x] # Absent /\ target[s] = Absent => task[x].exists /\ Renames(x)
  BY <1>0, <1>1 DEF Owns, Renames, Target
<1>3. /\ faults' \in Nat /\ faults' >= faults /\ target[s] = Absent
      /\ \A u \in Transfers : backup'[u] # Absent => backup[u] # Absent
      /\ \A u \in Transfers : u # x => backup'[u] = backup[u]
      /\ task[x].side = s /\ backup[x] # Absent => faults' = faults + 1
  <2>1. CASE /\ task[x].exists /\ Renames(x)
             /\ target' = [target EXCEPT ![task[x].side] = backup[x]]
             /\ backup' = [backup EXCEPT ![x] = Absent]
             /\ UNCHANGED <<faults, messy>>
    <3>1. backup[x] # Absent
      BY <1>2, <2>1
    <3>2. s # task[x].side
      BY <1>0, <2>1, <3>1
    <3> QED
      BY <1>0, <2>1, <3>2
  <2>2. CASE ~(task[x].exists /\ Renames(x)) /\ UNCHANGED <<target, backup, faults, messy>>
    BY <1>0, <1>2, <2>2
  <2>3. CASE CleanupFault(x) /\ UNCHANGED <<target, backup>>
    BY <1>0, <2>3
  <2> QED
    BY <1>0, <2>1, <2>2, <2>3, RestoreDoes
<1>4. task[t].side = s /\ backup[t] # Absent
  BY <1>1, <1>3
<1>5. PICK u \in Transfers : /\ task[u].side = s /\ backup[u] # Absent
                             /\ task[u].pc = "commit" \/ (task[u].pc = "restore" /\ faults = 1)
  BY <1>0, <1>3, <1>4 DEF NameInv, Hope
<1>6. u # x
  BY <1>0, <1>1, <1>3, <1>5
<1> QED
  BY <1>0, <1>1, <1>3, <1>5, <1>6 DEF Hope

LEMMA NameStep == TypeOK /\ OwnInv /\ NameInv /\ [Next]_vars => NameInv'
<1> SUFFICES ASSUME TypeOK, OwnInv, NameInv, [Next]_vars PROVE NameInv'
  OBVIOUS
<1>0. /\ task \in [Transfers -> Tasks] /\ backup \in [Transfers -> Contents \cup {Absent}]
      /\ faults \in Nat /\ (Fault => faults' = faults + 1)
      /\ \A t \in Transfers : Owns(t)
  BY LimitAssumption DEF TypeOK, Fault, OwnInv
<1>1. ASSUME NEW t \in Transfers, Request(t) PROVE NameInv'
  <2>1. UNCHANGED <<target, backup, faults>> /\ backup[t] = Absent /\ task[t].pc = "idle"
    BY <1>0, <1>1 DEF Request, Owns, Before
  <2>2. \A u \in Transfers : u # t => task'[u] = task[u]
    BY <1>0, <1>1, RequestTask
  <2> QED
    BY <1>0, <2>1, <2>2, NameKept
<1>2. CASE UNCHANGED <<task, backup, faults>> /\ \A s \in Sides : target'[s] = Absent => target[s] = Absent
  BY <1>2 DEF NameInv, Hope
<1>3. ASSUME NEW t \in Transfers, Step(t) PROVE NameInv'
  <2>1. CASE BackUp(t)
    BY <2>1, NameBackUp
  <2>2. CASE Commit(t)
    BY <2>2, NameCommit
  <2>3. CASE Restore(t)
    BY <2>3, NameRestore
  <2>4. CASE ~BackUp(t) /\ ~Commit(t) /\ ~Restore(t)
    <3>1. /\ UNCHANGED target
          /\ \A u \in Transfers : u # t => task'[u] = task[u] /\ backup'[u] = backup[u]
          /\ task'[t].side = task[t].side /\ (backup'[t] # Absent => backup'[t] = backup[t])
          /\ task[t].pc \notin {"commit", "restore"}
          /\ faults' >= faults /\ faults' \in Nat
      <4>0. RemovePart(t) \/ CleanupFault(t) => faults' >= faults /\ faults' \in Nat
        BY <1>0 DEF RemovePart, CleanupFault
      <4>a. Inspect(t) => faults' >= faults /\ faults' \in Nat
        <5>1. Fault \/ UNCHANGED faults => faults' >= faults /\ faults' \in Nat
          BY <1>0
        <5>2. Inspect(t) => RemovePart(t) \/ Fault \/ UNCHANGED faults
          BY DEF Inspect
        <5> QED
          BY <4>0, <5>1, <5>2
      <4> USE <1>0 DEF Becomes
      <4>1. CASE Begin(t)
        BY <4>1, BeginDoes DEF Begin
      <4>2. CASE Check(t)
        <5>1. UNCHANGED <<target, backup>>
          BY <4>2 DEF Check
        <5>2. /\ \A u \in Transfers : u # t => task'[u] = task[u]
              /\ task'[t].side = task[t].side /\ task[t].pc = "check"
          BY <4>2, CheckDoes
        <5>3. faults' >= faults /\ faults' \in Nat
          BY <4>2, CheckDoes
        <5> QED
          BY <5>1, <5>2, <5>3
      <4>3. CASE Create(t)
        BY <4>3, CreateDoes DEF Create
      <4>4. CASE CheckFlag(t)
        BY <4>0, <4>4, CheckFlagDoes DEF CheckFlag
      <4>5. CASE CopyBlock(t)
        BY <4>5, CopyBlockDoes DEF CopyBlock
      <4>6. CASE Inspect(t)
        <5>1. UNCHANGED <<target, backup>>
          BY <4>6 DEF Inspect
        <5>2. /\ \A u \in Transfers : u # t => task'[u] = task[u]
              /\ task'[t].side = task[t].side /\ task[t].pc = "inspect"
          BY <4>6, InspectDoes
        <5>3. faults' >= faults /\ faults' \in Nat
          BY <4>a, <4>6
        <5> QED
          BY <5>1, <5>2, <5>3
      <4>7. CASE CleanUp(t)
        BY <4>0, <4>7, CleanUpDoes DEF CleanUp
      <4>8. CASE DropBackup(t)
        BY <4>0, <4>8, DropBackupDoes DEF DropBackup
      <4>9. CASE End(t)
        BY <4>9, EndDoes DEF End
      <4> QED
        BY <1>3, <2>4, <4>1, <4>2, <4>3, <4>4, <4>5, <4>6, <4>7, <4>8, <4>9 DEF Step
    <3> QED
      BY <3>1, NameKept
  <2> QED
    BY <2>1, <2>2, <2>3, <2>4
<1>4. ASSUME NEW t \in Transfers, Cancel(t) PROVE NameInv'
  BY <1>2, <1>4 DEF Cancel
<1>5. ASSUME NEW c \in Connections, CancelConnection(c) PROVE NameInv'
  BY <1>2, <1>5 DEF CancelConnection
<1>6. CASE ForeignFile
  BY <1>2, <1>6, ContentsApart DEF ForeignFile, TypeOK
<1>7. CASE UNCHANGED vars
  BY <1>2, <1>7 DEF vars
<1> QED
  BY <1>1, <1>3, <1>4, <1>5, <1>6, <1>7 DEF Next

-----------------------------------------------------------------------------
(* The theorems.                                                             *)

FilesInv == TypeOK /\ OwnInv /\ TableInv /\ ContentInv /\ EarlyInv /\ NameInv

LEMMA FilesInit == Init => FilesInv
<1> SUFFICES ASSUME Init PROVE FilesInv
  OBVIOUS
<1>1. TypeOK
  BY TypeInit
<1>2. /\ \A t \in Transfers : task[t] = NoTask /\ part[t] = "none" /\ backup[t] = Absent
      /\ table = {} /\ early = {} /\ faults = 0 /\ target \in [Sides -> {Old, Absent}]
  BY DEF Init
<1>3. NoTask.pc = "idle" /\ NoTask.exists = FALSE /\ NoTask.result = "none"
  BY DEF NoTask
<1>4. OwnInv
  BY <1>2, <1>3 DEF OwnInv, Owns, Before
<1>5. TableInv
  <2>1. \A c \in Connections : OnConnection(c) = {}
    BY <1>2 DEF OnConnection
  <2>2. IsFiniteSet({}) /\ Cardinality({}) = 0
    BY FS_EmptySet
  <2> QED
    BY <1>2, <1>3, <2>1, <2>2, LimitAssumption DEF TableInv, Exclusive
<1>6. ContentInv
  BY <1>2, ContentsApart DEF ContentInv, WrittenBy
<1>7. EarlyInv /\ NameInv
  BY <1>2 DEF EarlyInv, NameInv
<1> QED
  BY <1>1, <1>4, <1>5, <1>6, <1>7 DEF FilesInv

LEMMA FilesStep == FilesInv /\ [Next]_vars => FilesInv'
BY TypeStep, OwnStep, TableStep, ContentStep, EarlyStep, NameStep DEF FilesInv

LEMMA FilesTidyHere == FilesInv => FilesTidy
<1> SUFFICES ASSUME FilesInv PROVE FilesTidy
  OBVIOUS
<1>0. TypeOK /\ OwnInv /\ TableInv /\ ContentInv /\ EarlyInv /\ NameInv
  BY DEF FilesInv
<1>1. NoLeftovers
  BY <1>0 DEF OwnInv, Owns, NoLeftovers
<1>2. NameStays
  <2> SUFFICES ASSUME \A t \in Transfers : task[t].pc \in {"idle", "ended"}, faults <= 1,
                      NEW s \in Sides, NEW t \in Transfers, target[s] = Absent, task[t].side = s,
                      backup[t] # Absent
               PROVE  FALSE
    BY DEF NameStays
  <2> QED
    BY <1>0 DEF NameInv, Hope
<1>3. EarlyCancelled
  <2> SUFFICES ASSUME NEW t \in early
               PROVE  task[t].result # "done" /\ (\A s \in Sides : target[s] # t) /\ backup[t] = Absent
    BY DEF EarlyCancelled
  <2>1. t \in Transfers /\ task[t].result # "done" /\ task[t].pc # "drop" /\ backup[t] = Absent
    BY <1>0 DEF TypeOK, EarlyInv
  <2>2. ~WrittenBy(t)
    BY <1>0, <2>1 DEF ContentInv, Finished
  <2> QED
    BY <2>1, <2>2 DEF WrittenBy
<1> QED
  BY <1>0, <1>1, <1>2, <1>3 DEF FilesTidy, TableInv, TableLeft, TypeOK

\* A content stays where no step touches it.
LEMMA StoredKept ==
  ASSUME NEW s \in Sides, NEW x \in Contents, NEW t \in Transfers,
         target'[s] = target[s] \/ target[s] # x,
         \A u \in Transfers : u # t => task'[u] = task[u] /\ backup'[u] = backup[u],
         backup[t] # x \/ (task'[t].side = task[t].side /\ backup'[t] = backup[t])
  PROVE  ~Lost(s, x)
BY DEF Lost, Stored

LEMMA LossStep == FilesInv /\ [Next]_vars => LossAllowed \/ UNCHANGED vars
<1> SUFFICES ASSUME FilesInv, Next, NEW s \in Sides, NEW x \in Contents, Lost(s, x)
             PROVE  \/ Permitted(s)
                    \/ s = "download" /\ (x \in replaced' \/ PutsBack(s)) /\ (x = Old => faults > 0)
  BY DEF LossAllowed
<1>0. /\ task \in [Transfers -> Tasks] /\ backup \in [Transfers -> Contents \cup {Absent}]
      /\ target \in [Sides -> Contents \cup {Absent}]
      /\ \A t \in Transfers : Owns(t) /\ task[t].side \in Sides
      /\ x # Absent
      /\ faults \in Nat
  BY ContentsApart, LimitAssumption DEF FilesInv, OwnInv, TypeOK, Tasks
<1>1. ASSUME NEW t \in Transfers, Request(t) PROVE FALSE
  <2>1. UNCHANGED <<target, backup>> /\ backup[t] = Absent
    BY <1>0, <1>1 DEF Request, Owns, Before
  <2>2. \A u \in Transfers : u # t => task'[u] = task[u]
    BY <1>0, <1>1, RequestTask
  <2> QED
    BY <1>0, <2>1, <2>2, StoredKept
<1>2. CASE UNCHANGED <<target, backup>> /\ \A u \in Transfers : task'[u].side = task[u].side
  BY <1>2 DEF Lost, Stored
<1>3. ASSUME NEW t \in Transfers, BackUp(t) PROVE FALSE
  <2>1. CASE UNCHANGED <<target, backup>>
    <3>1. \A u \in Transfers : task'[u].side = task[u].side
      BY <1>0, <1>3, BackUpDoes DEF Becomes
    <3> QED
      BY <1>2, <2>1, <3>1 DEF Lost, Stored
  <2>2. CASE /\ Becomes(t, "commit", task[t].exists, task[t].result)
             /\ backup' = [backup EXCEPT ![t] = Target(t)]
             /\ target' = [target EXCEPT ![task[t].side] = Absent]
    <3>1. backup[t] = Absent
      BY <1>0, <1>3 DEF BackUp, Owns, Before
    <3>2. /\ backup'[t] = target[task[t].side] /\ task'[t].side = task[t].side
          /\ \A u \in Transfers : u # t => backup'[u] = backup[u] /\ task'[u].side = task[u].side
      BY <1>0, <2>2 DEF Becomes, Target
    <3>3. s # task[t].side => target'[s] = target[s]
      BY <1>0, <2>2
    <3> QED
      BY <1>0, <3>1, <3>2, <3>3 DEF Lost, Stored
  <2> QED
    BY <1>0, <1>3, <2>1, <2>2, BackUpDoes
<1>4. ASSUME NEW t \in Transfers, Commit(t)
      PROVE  \/ Permitted(s)
             \/ s = "download" /\ x \in replaced' /\ (x = Old => faults > 0)
  <2>1. UNCHANGED backup /\ \A u \in Transfers : task'[u].side = task[u].side
    BY <1>0, <1>4, CommitDoes DEF Becomes, Commit
  <2>2. target'[s] # target[s] /\ target[s] = x
    BY <2>1 DEF Lost, Stored
  <2>3. /\ task'[t].pc \in {"drop", "end"} /\ Renames(t)
        /\ target' = [target EXCEPT ![task[t].side] = t]
        /\ replaced' = IF task[t].over THEN replaced ELSE replaced \cup ({Target(t)} \ {Absent})
    BY <1>0, <1>4, <2>2, CommitDoes DEF Becomes
  <2>4. s = task[t].side /\ Target(t) = x
    BY <1>0, <2>2, <2>3 DEF Target
  <2>5. task[t].pc = "commit" /\ part[t] = "full"
    BY <1>0, <1>4 DEF Commit, Owns
  <2>6. CASE task[t].over
    BY <2>3, <2>4, <2>5, <2>6 DEF Permitted
  <2>7. CASE ~task[t].over
    <3>1. s = "download"
      BY <1>0, <2>3, <2>4 DEF Renames
    <3>2. x \in replaced'
      BY <1>0, <2>3, <2>4, <2>7
    <3>3. x = Old => faults > 0
      BY <1>0, <2>2, <2>4, <2>5, <2>7, <3>1 DEF Owns
    <3> QED
      BY <3>1, <3>2, <3>3
  <2> QED
    BY <2>6, <2>7
<1>5. ASSUME NEW t \in Transfers, Restore(t)
      PROVE  s = "download" /\ PutsBack(s) /\ (x = Old => faults > 0)
  <2>1. /\ \A u \in Transfers : task'[u].side = task[u].side
        /\ task[t].pc = "restore"
    BY <1>0, <1>5, RestoreDoes DEF Becomes
  <2>2. /\ task[t].exists /\ Renames(t)
        /\ target' = [target EXCEPT ![task[t].side] = backup[t]]
        /\ backup' = [backup EXCEPT ![t] = Absent]
    <3>1. ~UNCHANGED <<target, backup>>
      BY <1>2, <2>1 DEF Lost, Stored
    <3> QED
      BY <1>0, <1>5, <3>1, RestoreDoes
  <2>3. backup[t] # Absent /\ (task[t].side = "download" => faults > 0)
    BY <1>0, <2>1, <2>2 DEF Owns
  <2>4. s = task[t].side /\ target[s] = x
    <3>1. CASE s # task[t].side
      <4>1. target'[s] = target[s] /\ \A u \in Transfers : u # t => backup'[u] = backup[u]
        BY <1>0, <2>2, <3>1
      <4> QED
        BY <2>1, <3>1, <4>1 DEF Lost, Stored
    <3>2. CASE s = task[t].side
      <4>1. target'[s] = backup[t] /\ \A u \in Transfers : u # t => backup'[u] = backup[u]
        BY <1>0, <2>2, <3>2
      <4> QED
        BY <2>1, <3>2, <4>1 DEF Lost, Stored
    <3> QED
      BY <3>1, <3>2
  <2>5. s = "download"
    BY <1>0, <2>2, <2>4 DEF Renames, Target
  <2> QED
    BY <2>1, <2>3, <2>4, <2>5 DEF PutsBack
<1>6. ASSUME NEW t \in Transfers, DropBackup(t) PROVE Permitted(s)
  <2>1. /\ task[t].pc = "drop" /\ task'[t].pc = "end" /\ task[t].over
        /\ \A u \in Transfers : task'[u].side = task[u].side
    <3>1. task[t].exists /\ task[t].pc = "drop"
      BY <1>0, <1>6 DEF DropBackup, Owns
    <3> QED
      BY <1>0, <1>6, <3>1, DropBackupDoes DEF Becomes, Owns
  <2>2. UNCHANGED target /\ \A u \in Transfers : u # t => backup'[u] = backup[u]
    BY <1>0, <1>6 DEF DropBackup
  <2>3. s = task[t].side
    BY <2>1, <2>2 DEF Lost, Stored
  <2> QED
    BY <2>1, <2>3 DEF Permitted
<1>7. ASSUME NEW t \in Transfers,
             Begin(t) \/ Check(t) \/ Create(t) \/ CheckFlag(t) \/ CopyBlock(t) \/ Inspect(t) \/ CleanUp(t) \/ End(t)
      PROVE  FALSE
  <2>1. UNCHANGED <<target, backup>>
    BY <1>7 DEF Begin, Check, Create, CheckFlag, CopyBlock, Inspect, CleanUp, End
  <2>2. \A u \in Transfers : task'[u].side = task[u].side
    <3> USE <1>0 DEF Becomes
    <3>1. CASE Begin(t)
      BY <3>1, BeginDoes
    <3>2. CASE Check(t)
      BY <3>2, CheckDoes
    <3>3. CASE Create(t)
      BY <3>3, CreateDoes
    <3>4. CASE CheckFlag(t)
      BY <3>4, CheckFlagDoes
    <3>5. CASE CopyBlock(t)
      BY <3>5, CopyBlockDoes
    <3>6. CASE Inspect(t)
      BY <3>6, InspectDoes
    <3>7. CASE CleanUp(t)
      BY <3>7, CleanUpDoes
    <3>8. CASE End(t)
      BY <3>8, EndDoes
    <3> QED
      BY <1>7, <3>1, <3>2, <3>3, <3>4, <3>5, <3>6, <3>7, <3>8
  <2> QED
    BY <2>1, <2>2 DEF Lost, Stored
<1>8. ASSUME NEW t \in Transfers, Cancel(t) PROVE FALSE
  BY <1>8 DEF Cancel, Lost, Stored
<1>9. ASSUME NEW c \in Connections, CancelConnection(c) PROVE FALSE
  BY <1>9 DEF CancelConnection, Lost, Stored
<1>10. CASE ForeignFile
  <2>1. UNCHANGED <<task, backup>> /\ target["upload"] = Absent
        /\ \A r \in Sides : r # "upload" => target'[r] = target[r]
    BY <1>0, <1>10 DEF ForeignFile
  <2> QED
    BY <1>0, <2>1 DEF Lost, Stored
<1> QED
  BY <1>1, <1>3, <1>4, <1>5, <1>6, <1>7, <1>8, <1>9, <1>10 DEF Next, Step

\* Every value stays in its type; a transfer of the table is one that began and has
\* not ended.
THEOREM TransfersTypeCorrect == Spec => []TypeOK
<1>1. Spec => []FilesInv
  BY FilesInit, FilesStep, PTL DEF Spec
<1>2. FilesInv => TypeOK
  BY DEF FilesInv
<1> QED
  BY <1>1, <1>2, PTL

\* Whatever number of transfers share a directory, however their steps interleave and
\* whatever fails: what ended left nothing behind, a name that had a file has one again,
\* the limits hold, and a cancellation before the registration is obeyed
\* (upload_file_inner, download_file_inner, begin_transfer).
THEOREM FilesLeftTidy == Spec => []FilesTidy
<1>1. Spec => []FilesInv
  BY FilesInit, FilesStep, PTL DEF Spec
<1> QED
  BY <1>1, FilesTidyHere, PTL

\* No step of any transfer takes a content from a directory in another way than
\* LossAllowed lists (finalize_local_file, finalize_remote_file).
THEOREM ContentsKept == Spec => NothingLost
<1>1. Spec => []FilesInv
  BY FilesInit, FilesStep, PTL DEF Spec
<1>2. FilesInv /\ [Next]_vars => [LossAllowed]_vars
  BY LossStep
<1> QED
  BY <1>1, <1>2, PTL DEF Spec, NothingLost
=============================================================================
