-------------------------- MODULE LightweightStore --------------------------
(***************************************************************************)
(* The configuration file of lightweight mode: one value, kept in memory   *)
(* and in lightweight-mode.v1.json, with a backup (.bak) and a temporary   *)
(* file (.tmp).  A value is saved in single file operations; any of them   *)
(* may fail, and the process may die between any two (or in the middle of  *)
(* one, which leaves a file that does not parse).                          *)
(***************************************************************************)
EXTENDS Naturals

CONSTANTS Values,    \* contents LightweightModeStore can have
          Default,   \* LightweightModeStore::default()
          Absent,    \* there is no such file
          Corrupt    \* the file does not parse, or is too large

ASSUME ValueAssumption == Default \in Values /\ Absent \notin Values /\ Corrupt \notin Values
                          /\ Absent # Corrupt

VARIABLES primary, backup, temp,  \* the three files
          current,  \* config.current
          trusted,  \* config.primary_trusted
          save,     \* the save in progress, or NoSave
          kept,     \* history: the value the last finished operation left
          split     \* history: a save without rollback has failed since

vars == <<primary, backup, temp, current, trusted, save, kept, split>>

Contents == Values \cup {Absent, Corrupt}

\* `old' is the value update() puts back on failure; force_normal and the
\* rollback of a commit (forced) keep the new value in memory whatever happens.
NoSave == [pc |-> "none", old |-> Default, forced |-> FALSE]

-----------------------------------------------------------------------------
\* LightweightModeConfig::load
LoadedUnparsed(p, b) == IF p # Absent THEN p ELSE IF b \in Values THEN b ELSE Default
Loaded(p, b) == IF p \in Values THEN p ELSE IF b \in Values THEN b ELSE Default

\* A primary that loads may become the backup; one that does not must never.
TrustAlways(p, b)  == TRUE
TrustedAfter(p, b) == p \in Values \/ (p = Absent /\ b \notin Values)

\* The process starts (again): a temporary file left behind is removed.
Load ==
  /\ temp' = Absent
  /\ current' = Loaded(primary, backup)
  /\ trusted' = TrustedAfter(primary, backup)
  /\ save' = NoSave
  /\ split' = FALSE
  /\ UNCHANGED <<primary, backup, kept>>

\* update (set_config), or a save without rollback.
Start(v, forced) ==
  /\ save = NoSave
  /\ save' = [pc |-> "create", old |-> current, forced |-> forced]
  /\ current' = v
  /\ UNCHANGED <<primary, backup, temp, trusted, kept, split>>

FailKeepsValue ==
  /\ save' = NoSave /\ temp' = Absent
  /\ UNCHANGED <<primary, backup, current, trusted, kept, split>>

\* persist answers with an error: update() restores the value in memory and
\* removes the temporary file.
Fail ==
  /\ save' = NoSave
  /\ IF save.forced
     THEN split' = TRUE /\ UNCHANGED <<current, temp, kept>>
     ELSE current' = save.old /\ temp' = Absent /\ UNCHANGED <<kept, split>>
  /\ UNCHANGED <<primary, backup, trusted>>

At(pc)   == save.pc = pc
Go(pc)   == save' = [save EXCEPT !.pc = pc]

\* The temporary file is created empty, written and synchronised.
CreateTemp ==
  /\ At("create") /\ Go("write")
  /\ temp' = Corrupt
  /\ UNCHANGED <<primary, backup, current, trusted, kept, split>>

WriteTemp ==
  /\ At("write")
  /\ Go(IF primary = Absent THEN "commit" ELSE IF trusted THEN "dropBackup" ELSE "dropPrimary")
  /\ temp' = current
  /\ UNCHANGED <<primary, backup, current, trusted, kept, split>>

\* Errors of this removal are ignored; the rename replaces the backup anyway.
DropBackup ==
  /\ At("dropBackup") /\ Go("backup")
  /\ backup' \in {Absent, backup}
  /\ UNCHANGED <<primary, temp, current, trusted, kept, split>>

BackUp ==
  /\ At("backup") /\ Go("commit")
  /\ backup' = primary /\ primary' = Absent
  /\ UNCHANGED <<temp, current, trusted, kept, split>>

DropPrimary ==
  /\ At("dropPrimary") /\ Go("commit")
  /\ primary' = Absent
  /\ UNCHANGED <<backup, temp, current, trusted, kept, split>>

Commit ==
  /\ At("commit")
  /\ primary' = temp /\ temp' = Absent
  /\ trusted' = TRUE
  /\ save' = NoSave /\ kept' = current /\ split' = FALSE
  /\ UNCHANGED <<backup, current>>

\* The rename fails: the backup is copied to a primary that is gone; then fail.
CommitFails ==
  /\ At("commit")
  /\ IF primary = Absent /\ backup # Absent THEN Go("copy") ELSE Go("fail")
  /\ UNCHANGED <<primary, backup, temp, current, trusted, kept, split>>

\* The copy is not atomic: a crash can leave a part of it.  A copy that fails
\* leaves no file.
Copy ==
  /\ At("copy")
  /\ \/ primary = Absent /\ primary' = Corrupt /\ UNCHANGED save
     \/ primary' = backup /\ Go("fail")
     \/ primary' = Absent /\ Go("fail")
  /\ UNCHANGED <<backup, temp, current, trusted, kept, split>>

\* Every other operation may fail before it has any effect.
StepFails ==
  /\ save.pc \in {"create", "write", "backup", "dropPrimary", "fail"}
  /\ Fail

Init ==
  /\ primary \in Contents /\ backup \in Contents /\ temp \in {Absent, Corrupt}
  /\ current = Default /\ trusted = FALSE
  /\ save = [NoSave EXCEPT !.pc = "down"]
  /\ kept = Loaded(primary, backup) /\ split = FALSE

\* The process dies, whatever it is doing.
Crash ==
  /\ ~At("down")
  /\ save' = [NoSave EXCEPT !.pc = "down"]
  /\ current' = Default /\ trusted' = FALSE
  /\ UNCHANGED <<primary, backup, temp, kept, split>>

Next ==
  \/ At("down") /\ Load
  \/ \E v \in Values, forced \in BOOLEAN : Start(v, forced)
  \/ CreateTemp \/ WriteTemp \/ DropBackup \/ BackUp \/ DropPrimary
  \/ Commit \/ CommitFails \/ Copy \/ StepFails
  \/ Crash

Spec == Init /\ [][Next]_vars
-----------------------------------------------------------------------------
Save == [pc : {"none", "down", "create", "write", "dropBackup", "backup", "dropPrimary",
               "commit", "copy", "fail"}, old : Values, forced : BOOLEAN]

TypeOK ==
  /\ primary \in Contents /\ backup \in Contents /\ temp \in Contents
  /\ current \in Values /\ kept \in Values
  /\ trusted \in BOOLEAN /\ split \in BOOLEAN
  /\ save \in Save

\* Whenever the process dies, the next one loads the value of the last save that
\* succeeded (or what was on disk before): neither a failing nor an interrupted
\* save loses it, although the primary file is gone for a while.
RestartKeeps == Loaded(primary, backup) = kept

\* The value in memory is the one a restart would load, except after a failed
\* save that keeps the window's mode on purpose.
MemoryMatches == save = NoSave /\ ~split => current = kept
=============================================================================
