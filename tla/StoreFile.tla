----------------------------- MODULE StoreFile -----------------------------
(***************************************************************************)
(* The files of the session list (sessions.v2.json) and of the settings    *)
(* (settings.v1.json).  Both are saved over a temporary file and keep the  *)
(* last version as a backup; they differ in what they load when there is   *)
(* no proper file, in how a commit that fails is undone, and in that the   *)
(* list refuses to work rather than to lose sessions.  Only the list has a *)
(* predecessor (sessions.v1.json), which is read once and never changed.   *)
(***************************************************************************)
CONSTANTS Values,    \* contents the file can have
          Default,   \* what is used when there has never been a file
          Absent,    \* there is no such file
          Corrupt,   \* the file cannot be used: too large, no JSON, invalid
          Unknown    \* no proper version of the file exists

VARIABLES kind,      \* which of the two files this is
          primary, backup, temp,
          legacy,    \* sessions.v1.json or its backup
          current,   \* the value in memory
          trusted,   \* primary_trusted
          blocked,   \* blocked_error is set
          save,      \* the save in progress
          kept,      \* history: the value of the last save that succeeded
          spent      \* history: the only backup was renamed to a primary
                     \* that this process does not trust

files == <<primary, backup, temp, legacy>>
vars  == <<kind, files, current, trusted, blocked, save, kept, spent>>

NoSave == [pc |-> "none", old |-> Default, first |-> FALSE]
Down   == [NoSave EXCEPT !.pc = "down"]
At(pc) == save.pc = pc
Go(pc) == save' = [save EXCEPT !.pc = pc]

GoodCopy == primary \in Values \/ backup \in Values

NoFile  == primary = Absent /\ backup = Absent /\ temp = Absent
Migrate == kind = "sessions" /\ NoFile /\ legacy \in Values

\* SessionService::load and SettingsService::load: the value to start with.
Loaded ==
  IF primary \in Values THEN primary
  ELSE IF backup \in Values THEN backup
  ELSE IF kind = "sessions" /\ temp \in Values THEN temp
  ELSE IF Migrate THEN legacy
  ELSE Default

\* Sessions that cannot be read must not be replaced by an empty list.
Unreadable == kind = "sessions" /\ ~GoodCopy /\ temp \notin Values /\ ~Migrate
              /\ ~(NoFile /\ legacy = Absent)

\* May the primary become the backup?  One that did not load must not.
TrustAlways == TRUE

Trusted ==
  \/ primary \in Values
  \/ kind = "sessions" /\ NoFile
  \/ kind = "settings" /\ primary = Absent /\ backup \notin Values

-----------------------------------------------------------------------------
Load ==
  /\ At("down")
  /\ current' = Loaded /\ trusted' = Trusted /\ blocked' = Unreadable
  /\ save' = [NoSave EXCEPT !.pc = IF Migrate THEN "create" ELSE "none", !.first = Migrate]
  /\ spent' = (spent /\ primary \notin Values)
  /\ UNCHANGED <<kind, files, kept>>

\* replace, replace_sessions and every other change that ends in persist.
Change ==
  /\ At("none") /\ ~blocked
  /\ \E v \in Values : current' = v
  /\ save' = [pc |-> "create", old |-> current, first |-> FALSE]
  /\ UNCHANGED <<kind, files, trusted, blocked, kept, spent>>

\* persist has failed: the caller puts the old value back.  A migration that
\* fails blocks the service.
KeepNew ==
  /\ save' = NoSave
  /\ UNCHANGED <<current, blocked>>

PutBack ==
  /\ save' = NoSave
  /\ IF save.first
     THEN blocked' = TRUE /\ UNCHANGED current
     ELSE current' = save.old /\ UNCHANGED blocked

CreateTemp ==
  /\ At("create") /\ Go("write")
  /\ temp' = Corrupt
  /\ UNCHANGED <<kind, primary, backup, legacy, current, trusted, blocked, kept, spent>>

WriteTemp ==
  /\ At("write")
  /\ Go(IF primary = Absent THEN "commit" ELSE IF trusted THEN "dropBackup" ELSE "dropPrimary")
  /\ temp' = current
  /\ UNCHANGED <<kind, primary, backup, legacy, current, trusted, blocked, kept, spent>>

\* Whether this removal succeeds is not asked: the rename replaces the backup.
DropBackup ==
  /\ At("dropBackup") /\ Go("backup")
  /\ backup' \in {Absent, backup}
  /\ UNCHANGED <<kind, primary, temp, legacy, current, trusted, blocked, kept, spent>>

BackUp ==
  /\ At("backup") /\ Go("commit")
  /\ backup' = primary /\ primary' = Absent
  /\ UNCHANGED <<kind, temp, legacy, current, trusted, blocked, kept, spent>>

DropPrimary ==
  /\ At("dropPrimary") /\ Go("commit")
  /\ primary' = Absent
  /\ UNCHANGED <<kind, backup, temp, legacy, current, trusted, blocked, kept, spent>>

Commit ==
  /\ At("commit")
  /\ primary' = temp /\ temp' = Absent
  /\ trusted' = TRUE /\ save' = NoSave /\ kept' = current /\ spent' = FALSE
  /\ UNCHANGED <<kind, backup, legacy, current, blocked>>

\* The last rename fails: the backup becomes the primary again, if that is gone.
CommitFails ==
  /\ At("commit")
  /\ Go(IF primary # Absent \/ backup = Absent THEN "fail"
        ELSE IF kind = "sessions" THEN "renameBack" ELSE "copyBack")
  /\ UNCHANGED <<kind, files, current, trusted, blocked, kept, spent>>

RenameBack ==
  /\ At("renameBack") /\ Go("fail")
  /\ \/ primary' = backup /\ backup' = Absent /\ spent' = ~trusted
     \/ UNCHANGED <<primary, backup, spent>>
  /\ UNCHANGED <<kind, temp, legacy, current, trusted, blocked, kept>>

\* A crash can leave a part of the copy; a copy that fails leaves no file.
CopyBack ==
  /\ At("copyBack")
  /\ \/ primary = Absent /\ primary' = Corrupt /\ UNCHANGED save
     \/ primary' \in {backup, Absent} /\ Go("fail")
  /\ UNCHANGED <<kind, backup, temp, legacy, current, trusted, blocked, kept, spent>>

StepFails ==
  /\ save.pc \in {"create", "write", "backup", "dropPrimary", "fail"}
  /\ PutBack
  /\ UNCHANGED <<kind, files, trusted, kept, spent>>

Crash ==
  /\ ~At("down")
  /\ save' = Down
  /\ current' = Default /\ trusted' = FALSE /\ blocked' = FALSE
  /\ UNCHANGED <<kind, files, kept, spent>>
Init ==
  /\ kind \in {"sessions", "settings"}
  /\ primary \in Values \cup {Absent, Corrupt} /\ backup \in Values \cup {Absent, Corrupt}
  /\ temp \in Values \cup {Absent, Corrupt}
  /\ legacy \in IF kind = "sessions" THEN Values \cup {Absent, Corrupt} ELSE {Absent}
  /\ current = Default /\ trusted = FALSE /\ blocked = FALSE /\ save = Down
  /\ kept = (IF GoodCopy THEN Loaded ELSE Unknown) /\ spent = FALSE

Next ==
  \/ Load \/ Change
  \/ CreateTemp \/ WriteTemp \/ DropBackup \/ BackUp \/ DropPrimary
  \/ Commit \/ CommitFails \/ RenameBack \/ CopyBack \/ StepFails \/ Crash

Spec == Init /\ [][Next]_vars
-----------------------------------------------------------------------------
TypeOK ==
  /\ {primary, backup, temp, legacy} \subseteq Values \cup {Absent, Corrupt}
  /\ current \in Values /\ kept \in Values \cup {Unknown}
  /\ trusted \in BOOLEAN /\ blocked \in BOOLEAN
  /\ save.old \in Values /\ save.first \in BOOLEAN

\* From the first proper version on, whatever fails and wherever the process
\* dies, a restart loads the last version that was saved, and between saves
\* memory holds that version too.  (Once: see LastVersionExists.)
LastSaveKept ==
  kept # Unknown /\ ~spent =>
    /\ GoodCopy /\ Loaded = kept
    /\ At("none") => current = kept

\* A failed commit does not lose the last trusted version: one of the files
\* still holds it.  The code breaks this for the sessions: the backup that was
\* renamed to the primary is taken for the damaged primary by the next save.
LastVersionExists == kept # Unknown => kept \in {primary, backup, temp}
=============================================================================
