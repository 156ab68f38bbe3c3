------------------------- MODULE DurableStateProofs -------------------------
(***************************************************************************)
(* Theorems about what is kept on the disk: the files of lightweight mode, *)
(* of the sessions and of the settings, the rights that the desktop and    *)
(* the programs of agents move to a database, the update of the program,   *)
(* its installation with what that replaces and closes, and the private    *)
(* keys and passwords that the store of the operating system has for the   *)
(* saved sessions; for any values, processes, tickets, versions, file      *)
(* objects, sessions, secrets, chunks and bounds.                          *)
(***************************************************************************)
EXTENDS MCDurableState, FiniteSetTheorems, SequenceTheorems, TLAPS

-----------------------------------------------------------------------------
(* The file of lightweight mode (LightweightStore).                         *)

LEMMA LoadedType ==
  ASSUME NEW p, NEW b
  PROVE  Loaded(p, b) \in Values
BY ValueAssumption DEF Loaded

Pcs == {"none", "down", "create", "write", "dropBackup", "backup", "dropPrimary", "commit",
        "copy", "fail"}

LEMMA SaveFields ==
  /\ NoSave \in Save /\ NoSave.pc = "none"
  /\ [NoSave EXCEPT !.pc = "down"] \in Save /\ [NoSave EXCEPT !.pc = "down"].pc = "down"
BY ValueAssumption DEF NoSave, Save

LEMMA GoFields ==
  ASSUME save \in Save, NEW pc \in Pcs, Go(pc)
  PROVE  /\ save' \in Save
         /\ save'.pc = pc /\ save'.old = save.old /\ save'.forced = save.forced
         /\ save' # NoSave \/ pc = "none"
BY SaveFields DEF Go, Save, Pcs

LEMMA TypeStep == TypeOK /\ [Next]_vars => TypeOK'
<1> SUFFICES ASSUME TypeOK, [Next]_vars PROVE TypeOK'
  OBVIOUS
<1> USE DEF TypeOK
<1>1. CASE At("down") /\ Load
  BY <1>1, LoadedType, SaveFields DEF Load, TrustedAfter, Contents
<1>2. ASSUME NEW v \in Values, NEW forced \in BOOLEAN, Start(v, forced) PROVE TypeOK'
  BY <1>2 DEF Start, Save
<1>3. CASE CreateTemp
  BY <1>3, GoFields DEF CreateTemp, Contents, Pcs
<1>4. CASE WriteTemp
  BY <1>4, GoFields DEF WriteTemp, Contents, Pcs
<1>5. CASE DropBackup
  BY <1>5, GoFields DEF DropBackup, Contents, Pcs
<1>6. CASE BackUp
  BY <1>6, GoFields DEF BackUp, Contents, Pcs
<1>7. CASE DropPrimary
  BY <1>7, GoFields DEF DropPrimary, Contents, Pcs
<1>8. CASE Commit
  BY <1>8, SaveFields DEF Commit, Contents
<1>9. CASE CommitFails
  BY <1>9, GoFields DEF CommitFails, Pcs
<1>10. CASE Copy
  BY <1>10, GoFields DEF Copy, Contents, Pcs
<1>11. CASE StepFails
  BY <1>11, SaveFields DEF StepFails, Fail, Save, Contents
<1>12. CASE Crash
  BY <1>12, SaveFields, ValueAssumption DEF Crash
<1>13. CASE UNCHANGED vars
  BY <1>13 DEF vars
<1> QED
  BY <1>1, <1>2, <1>3, <1>4, <1>5, <1>6, <1>7, <1>8, <1>9, <1>10, <1>11, <1>12, <1>13 DEF Next

(* Where the kept value is during a save: in the primary until it has been   *)
(* moved, in the backup from then on.  Only a primary that loads is moved.   *)
BackupKeeps == Loaded(Absent, backup) = kept

Saving == {"create", "write", "dropBackup", "backup", "dropPrimary", "commit", "copy", "fail"}

KeptInv ==
  /\ RestartKeeps
  /\ MemoryMatches
  /\ save.pc \notin {"down", "copy"} /\ trusted /\ primary = Corrupt => backup \notin Values
  /\ save.pc # "down" /\ ~trusted => BackupKeeps
  /\ save.pc \in {"dropBackup", "backup"} => trusted /\ Loaded(primary, Absent) = kept
  /\ save.pc = "dropPrimary" => ~trusted
  /\ save.pc \in {"dropBackup", "backup", "dropPrimary", "commit"} => temp = current
  /\ save.pc = "commit" => primary = Absent
  /\ save.pc = "copy" => BackupKeeps
  /\ save.pc \in Saving /\ ~split => save.old = kept

LEMMA KeptStep == TypeOK /\ KeptInv /\ [Next]_vars => KeptInv'
<1> SUFFICES ASSUME TypeOK, KeptInv, [Next]_vars PROVE KeptInv'
  OBVIOUS
<1>0. save \in Save /\ primary \in Contents /\ backup \in Contents /\ NoSave.pc = "none"
  BY SaveFields DEF TypeOK
<1> USE ValueAssumption, <1>0 DEF KeptInv, RestartKeeps, MemoryMatches, BackupKeeps, Saving
<1>1. CASE At("down") /\ Load
  BY <1>1 DEF Load, At, Loaded, TrustedAfter, Contents
<1>2. ASSUME NEW v \in Values, NEW forced \in BOOLEAN, Start(v, forced) PROVE KeptInv'
  <2>1. save'.pc = "create" /\ save'.old = current /\ save' # NoSave /\ save = NoSave
    BY <1>2 DEF Start
  <2> QED
    BY <1>2, <2>1 DEF Start
<1>3. CASE CreateTemp
  <2>1. save'.pc = "write" /\ save'.old = save.old /\ save' # NoSave
    BY <1>3, GoFields DEF CreateTemp, Pcs
  <2>2. save.pc = "create" /\ UNCHANGED <<primary, backup, current, trusted, kept, split>>
    BY <1>3 DEF CreateTemp, At
  <2> QED
    BY <2>1, <2>2 DEF Loaded
<1>4. CASE WriteTemp
  <2> DEFINE next == IF primary = Absent THEN "commit"
                     ELSE IF trusted THEN "dropBackup" ELSE "dropPrimary"
  <2>1. save'.pc = next /\ save'.old = save.old /\ save' # NoSave
    BY <1>4, GoFields DEF WriteTemp, Pcs
  <2>2. UNCHANGED <<primary, backup, current, trusted, kept, split>> /\ temp' = current
        /\ save.pc = "write"
    BY <1>4 DEF WriteTemp, At
  <2>3. CASE primary = Absent
    BY <2>1, <2>2, <2>3 DEF Loaded
  <2>4. CASE primary # Absent /\ trusted
    BY <2>1, <2>2, <2>4 DEF Loaded, Contents
  <2>5. CASE primary # Absent /\ ~trusted
    BY <2>1, <2>2, <2>5 DEF Loaded
  <2> QED
    BY <2>3, <2>4, <2>5
<1>5. CASE DropBackup
  <2>1. save'.pc = "backup" /\ save'.old = save.old /\ save' # NoSave
    BY <1>5, GoFields DEF DropBackup, Pcs
  <2>2. save.pc = "dropBackup" /\ backup' \in {Absent, backup}
        /\ UNCHANGED <<primary, temp, current, trusted, kept, split>>
    BY <1>5 DEF DropBackup, At
  <2> QED
    BY <2>1, <2>2 DEF Loaded
<1>6. CASE BackUp
  <2>1. save'.pc = "commit" /\ save'.old = save.old /\ save' # NoSave
    BY <1>6, GoFields DEF BackUp, Pcs
  <2>2. save.pc = "backup" /\ backup' = primary /\ primary' = Absent
        /\ UNCHANGED <<temp, current, trusted, kept, split>>
    BY <1>6 DEF BackUp, At
  <2> QED
    BY <2>1, <2>2 DEF Loaded
<1>7. CASE DropPrimary
  <2>1. save'.pc = "commit" /\ save'.old = save.old /\ save' # NoSave
    BY <1>7, GoFields DEF DropPrimary, Pcs
  <2>2. save.pc = "dropPrimary" /\ primary' = Absent
        /\ UNCHANGED <<backup, temp, current, trusted, kept, split>>
    BY <1>7 DEF DropPrimary, At
  <2> QED
    BY <2>1, <2>2 DEF Loaded
<1>8. CASE Commit
  BY <1>8 DEF Commit, At, TypeOK, Loaded
<1>9. CASE CommitFails
  <2>1. save'.pc \in {"copy", "fail"} /\ save'.old = save.old /\ save' # NoSave
    BY <1>9, GoFields DEF CommitFails, Pcs
  <2> QED
    BY <1>9, <2>1 DEF CommitFails, At, Loaded
<1>10. CASE Copy
  <2>1. save'.pc \in {"copy", "fail"} /\ save'.old = save.old /\ save' # NoSave
    <3>1. CASE UNCHANGED save
      BY <1>10, <3>1 DEF Copy, At
    <3>2. CASE Go("fail")
      BY <3>2, GoFields DEF Pcs
    <3> QED
      BY <1>10, <3>1, <3>2 DEF Copy
  <2>2. UNCHANGED <<backup, temp, current, trusted, kept, split>> /\ save.pc = "copy"
    BY <1>10 DEF Copy, At
  <2>3. CASE primary' = Corrupt /\ UNCHANGED save
    BY <2>1, <2>2, <2>3 DEF Loaded
  <2>4. CASE primary' = backup
    BY <2>1, <2>2, <2>4 DEF Loaded
  <2>5. CASE primary' = Absent
    BY <2>1, <2>2, <2>5 DEF Loaded
  <2> QED
    BY <1>10, <2>3, <2>4, <2>5 DEF Copy
<1>11. CASE StepFails
  BY <1>11 DEF StepFails, Fail
<1>12. CASE Crash
  BY <1>12, SaveFields DEF Crash
<1>13. CASE UNCHANGED vars
  BY <1>13 DEF vars
<1> QED
  BY <1>1, <1>2, <1>3, <1>4, <1>5, <1>6, <1>7, <1>8, <1>9, <1>10, <1>11, <1>12, <1>13 DEF Next

LEMMA StoreInit == Init => TypeOK /\ KeptInv
<1> SUFFICES ASSUME Init PROVE TypeOK /\ KeptInv
  OBVIOUS
<1>1. save \in Save /\ save.pc = "down" /\ save # NoSave
  BY SaveFields DEF Init
<1>2. TypeOK
  BY <1>1, ValueAssumption, LoadedType DEF Init, TypeOK, Contents
<1>3. KeptInv
  BY <1>1 DEF Init, KeptInv, RestartKeeps, MemoryMatches, Saving
<1> QED
  BY <1>2, <1>3

\* Every variable keeps its type; what a restart loads is always a value.
THEOREM StoreTypeCorrect == Spec => []TypeOK
BY StoreInit, TypeStep, PTL DEF Spec

\* No failing or interrupted save loses the value that was saved before it.
THEOREM StoreKeepsValue == Spec => []RestartKeeps
<1>1. KeptInv => RestartKeeps
  BY DEF KeptInv
<1> QED
  BY <1>1, StoreInit, TypeStep, KeptStep, PTL DEF Spec

\* Between saves, the value in memory is the one a restart would load.
THEOREM StoreMatchesMemory == Spec => []MemoryMatches
<1>1. KeptInv => MemoryMatches
  BY DEF KeptInv
<1> QED
  BY <1>1, StoreInit, TypeStep, KeptStep, PTL DEF Spec
-----------------------------------------------------------------------------
(* The files of the session list and of the settings (StoreFile).           *)

FileContents == FileValues \cup {Absent, Corrupt}
FilePcs      == Pcs \cup {"renameBack", "copyBack"}

FileType ==
  /\ {main, bak, tmp, legacy} \subseteq FileContents
  /\ value \in FileValues /\ kind \in {"sessions", "settings"}
  /\ mainTrusted \in BOOLEAN /\ blocked \in BOOLEAN /\ spent \in BOOLEAN
  /\ saving \in [pc : FilePcs \ {"copy"}, old : FileValues, first : BOOLEAN]

\* What a save has found out about the primary on its way.
PlaceInv ==
  /\ saving.pc \in {"dropBackup", "backup"} => mainTrusted /\ main # Absent
  /\ saving.pc = "dropPrimary" => ~mainTrusted
  /\ saving.pc \in {"dropBackup", "backup", "dropPrimary", "commit"} => tmp = value
  /\ saving.pc \in {"commit", "renameBack"} => main = Absent
  /\ saving.pc \in {"renameBack", "copyBack"} => bak # Absent
  /\ saving.pc = "renameBack" => kind = "sessions"
  /\ saving.pc = "copyBack" => kind = "settings"

\* Where the last saved version is: a trusted primary has it, and as long as the
\* primary is not trusted the backup does.
LastInv ==
  saved # Unknown /\ ~spent =>
    /\ IF main \in FileValues THEN main = saved ELSE bak = saved /\ saved \in FileValues
    /\ saving.pc # "down" /\ ~mainTrusted => bak = saved
    /\ saving.pc \notin {"down", "copyBack"} /\ mainTrusted => main \in {saved, Absent}
    /\ saving.pc \in {"commit", "renameBack", "copyBack"} => bak = saved
    /\ saving.pc \notin {"none", "down"} => saving.old = saved /\ ~saving.first
    /\ saving.pc = "none" => value = saved

\* Once the only backup was renamed, the next save may lose it (LastVersionExists);
\* as long as a restart finds it, it is the last version.
SpentInv ==
  saved # Unknown /\ spent =>
    /\ main \in {saved, Absent} /\ bak = Absent
    /\ saving.pc # "down" /\ mainTrusted => main = Absent

FileInv == FileType /\ PlaceInv /\ LastInv /\ SpentInv

LEMMA FileNoSave ==
  /\ File!NoSave = [pc |-> "none", old |-> Default, first |-> FALSE]
  /\ File!Down \in [pc : FilePcs \ {"copy"}, old : FileValues, first : BOOLEAN] /\ File!Down.pc = "down"
BY FileAssumption DEF File!NoSave, File!Down, FilePcs, Pcs

LEMMA FileGo ==
  ASSUME FileType, NEW pc \in FilePcs \ {"copy"}, File!Go(pc)
  PROVE  /\ saving' \in [pc : FilePcs \ {"copy"}, old : FileValues, first : BOOLEAN]
         /\ saving'.pc = pc /\ saving'.old = saving.old /\ saving'.first = saving.first
BY DEF FileType, File!Go

LEMMA FileInit == File!Init => FileInv
<1> SUFFICES ASSUME File!Init PROVE FileInv
  OBVIOUS
<1> USE FileAssumption, ValueAssumption DEF File!Init
<1>1. FileType
  BY FileNoSave DEF FileType, FileContents, FilePcs, Pcs
<1>2. PlaceInv /\ SpentInv
  BY FileNoSave DEF PlaceInv, SpentInv
<1>3. LastInv
  BY FileNoSave DEF LastInv, File!GoodCopy, File!Loaded
<1> QED
  BY <1>1, <1>2, <1>3 DEF FileInv

\* Steps that only move on, with the last version where it was.
LEMMA FileMoves ==
  ASSUME FileInv, NEW pc \in FilePcs \ {"copy", "none", "down"}, saving.pc \notin {"none", "down"}, File!Go(pc),
         UNCHANGED <<kind, legacy, value, mainTrusted, blocked, saved>>,
         {main', bak', tmp'} \subseteq FileContents, spent' \in BOOLEAN,
         PlaceInv', LastInv', SpentInv'
  PROVE  FileInv'
BY FileGo DEF FileInv, FileType

LEMMA FileStep == FileInv /\ [File!Next]_fileVars => FileInv'
<1> SUFFICES ASSUME FileInv, [File!Next]_fileVars PROVE FileInv'
  OBVIOUS
<1> USE FileAssumption, ValueAssumption
<1>0. saving \in [pc : FilePcs \ {"copy"}, old : FileValues, first : BOOLEAN]
  BY DEF FileInv, FileType
<1>1. CASE File!Load
  <2>1. saving' = [pc |-> IF File!Migrate THEN "create" ELSE "none", old |-> Default, first |-> File!Migrate]
    BY <1>1, FileNoSave DEF File!Load
  <2>2. UNCHANGED <<kind, main, bak, tmp, legacy, saved>>
    BY <1>1 DEF File!Load, File!files
  <2>3. FileType'
    <3>1. File!Loaded \in FileValues /\ File!Migrate \in BOOLEAN
      BY DEF File!Loaded, File!Migrate
    <3>2. File!Trusted \in BOOLEAN /\ File!Unreadable \in BOOLEAN /\ spent' \in BOOLEAN
      BY <1>1 DEF File!Load, File!Trusted, File!Unreadable
    <3>3. saving' \in [pc : FilePcs \ {"copy"}, old : FileValues, first : BOOLEAN]
      BY <2>1, <3>1 DEF FilePcs, Pcs
    <3> QED
      BY <1>1, <2>2, <3>1, <3>2, <3>3 DEF File!Load, FileInv, FileType
  <2>4. PlaceInv' /\ SpentInv'
    BY <1>1, <2>1, <2>2 DEF File!Load, FileInv, FileType, PlaceInv, SpentInv, File!Trusted, File!NoFile
  <2>5. LastInv'
    <3> SUFFICES ASSUME saved # Unknown, ~spent' PROVE LastInv'
      BY <2>2 DEF LastInv
    <3>1. IF main \in FileValues THEN main = saved ELSE bak = saved /\ saved \in FileValues
      BY <1>1 DEF File!Load, FileInv, LastInv, SpentInv, FileType
    <3>2. ~File!NoFile /\ (main \in FileValues \/ bak \in FileValues)
      BY <3>1 DEF File!NoFile
    <3>3. ~File!Migrate /\ File!Loaded = saved
      BY <3>1, <3>2 DEF File!Migrate, File!Loaded
    <3>4. File!Trusted <=> main \in FileValues
      BY <3>2 DEF File!Trusted
    <3>5. value' = saved /\ (mainTrusted' <=> main \in FileValues) /\ saving'.pc = "none"
      BY <1>1, <2>1, <3>3, <3>4 DEF File!Load
    <3> QED
      BY <2>2, <3>1, <3>5 DEF LastInv
  <2> QED
    BY <2>3, <2>4, <2>5 DEF FileInv
<1>2. CASE File!Change
  BY <1>2 DEF File!Change, File!At, File!files, FileInv, FileType, PlaceInv, LastInv, SpentInv, FilePcs, Pcs
<1>3. CASE File!CreateTemp
  <2>1. saving.pc = "create" /\ tmp' = Corrupt /\ UNCHANGED <<kind, main, bak, legacy, value, mainTrusted, blocked, saved, spent>>
    BY <1>3 DEF File!CreateTemp, File!At
  <2>2. saving'.pc = "write" /\ saving'.old = saving.old /\ saving'.first = saving.first
    BY <1>3, FileGo DEF File!CreateTemp, FileInv, FilePcs, Pcs
  <2>3. PlaceInv' /\ LastInv' /\ SpentInv'
    BY <2>1, <2>2 DEF FileInv, PlaceInv, LastInv, SpentInv
  <2> QED
    BY <1>3, <2>1, <2>3, FileMoves DEF File!CreateTemp, FileInv, FileType, FileContents, FilePcs, Pcs
<1>4. CASE File!WriteTemp
  <2> DEFINE next == IF main = Absent THEN "commit" ELSE IF mainTrusted THEN "dropBackup" ELSE "dropPrimary"
  <2>1. saving.pc = "write" /\ tmp' = value /\ UNCHANGED <<kind, main, bak, legacy, value, mainTrusted, blocked, saved, spent>>
    BY <1>4 DEF File!WriteTemp, File!At
  <2>2. saving'.pc = next /\ saving'.old = saving.old /\ saving'.first = saving.first
    BY <1>4, FileGo DEF File!WriteTemp, FileInv, FilePcs, Pcs
  <2>3. PlaceInv' /\ SpentInv'
    BY <2>1, <2>2 DEF FileInv, PlaceInv, SpentInv
  <2>4. LastInv'
    BY <2>1, <2>2 DEF FileInv, LastInv
  <2> QED
    BY <1>4, <2>1, <2>3, <2>4, FileMoves DEF File!WriteTemp, FileInv, FileType, FileContents, FilePcs, Pcs
<1>5. CASE File!DropBackup
  <2>1. saving.pc = "dropBackup" /\ bak' \in {Absent, bak} /\ UNCHANGED <<kind, main, tmp, legacy, value, mainTrusted, blocked, saved, spent>>
    BY <1>5 DEF File!DropBackup, File!At
  <2>2. saving'.pc = "backup" /\ saving'.old = saving.old /\ saving'.first = saving.first
    BY <1>5, FileGo DEF File!DropBackup, FileInv, FilePcs, Pcs
  <2>3. PlaceInv' /\ LastInv' /\ SpentInv'
    BY <2>1, <2>2 DEF FileInv, FileType, FileContents, PlaceInv, LastInv, SpentInv
  <2> QED
    BY <1>5, <2>1, <2>3, FileMoves DEF File!DropBackup, FileInv, FileType, FileContents, FilePcs, Pcs
<1>6. CASE File!BackUp
  <2>1. saving.pc = "backup" /\ bak' = main /\ main' = Absent /\ UNCHANGED <<kind, tmp, legacy, value, mainTrusted, blocked, saved, spent>>
    BY <1>6 DEF File!BackUp, File!At
  <2>2. saving'.pc = "commit" /\ saving'.old = saving.old /\ saving'.first = saving.first
    BY <1>6, FileGo DEF File!BackUp, FileInv, FilePcs, Pcs
  <2>3. PlaceInv' /\ LastInv' /\ SpentInv'
    BY <2>1, <2>2 DEF FileInv, FileType, FileContents, PlaceInv, LastInv, SpentInv
  <2> QED
    BY <1>6, <2>1, <2>3, FileMoves DEF File!BackUp, FileInv, FileType, FileContents, FilePcs, Pcs
<1>7. CASE File!DropPrimary
  <2>1. saving.pc = "dropPrimary" /\ main' = Absent /\ UNCHANGED <<kind, bak, tmp, legacy, value, mainTrusted, blocked, saved, spent>>
    BY <1>7 DEF File!DropPrimary, File!At
  <2>2. saving'.pc = "commit" /\ saving'.old = saving.old /\ saving'.first = saving.first
    BY <1>7, FileGo DEF File!DropPrimary, FileInv, FilePcs, Pcs
  <2>3. PlaceInv' /\ LastInv' /\ SpentInv'
    BY <2>1, <2>2 DEF FileInv, FileType, FileContents, PlaceInv, LastInv, SpentInv
  <2> QED
    BY <1>7, <2>1, <2>3, FileMoves DEF File!DropPrimary, FileInv, FileType, FileContents, FilePcs, Pcs
<1>8. CASE File!Commit
  <2>1. saving.pc = "commit" /\ main' = tmp /\ tmp' = Absent /\ mainTrusted' = TRUE /\ saving' = File!NoSave
        /\ saved' = value /\ spent' = FALSE /\ UNCHANGED <<kind, bak, legacy, value, blocked>>
    BY <1>8 DEF File!Commit, File!At
  <2>2. main' = value /\ value \in FileValues
    BY <2>1 DEF FileInv, FileType, PlaceInv
  <2> QED
    BY <2>1, <2>2, FileNoSave DEF FileInv, FileType, FileContents, FilePcs, Pcs, PlaceInv, LastInv, SpentInv
<1>9. CASE File!CommitFails
  <2> DEFINE next == IF main # Absent \/ bak = Absent THEN "fail" ELSE IF kind = "sessions" THEN "renameBack" ELSE "copyBack"
  <2>1. saving.pc = "commit" /\ UNCHANGED <<kind, main, bak, tmp, legacy, value, mainTrusted, blocked, saved, spent>>
    BY <1>9 DEF File!CommitFails, File!At, File!files
  <2>2. saving'.pc = next /\ saving'.old = saving.old /\ saving'.first = saving.first
    BY <1>9, FileGo DEF File!CommitFails, FileInv, FilePcs, Pcs
  <2>3. PlaceInv' /\ SpentInv'
    BY <2>1, <2>2 DEF FileInv, FileType, PlaceInv, SpentInv
  <2>4. LastInv'
    BY <2>1, <2>2 DEF FileInv, PlaceInv, LastInv
  <2> QED
    BY <1>9, <2>1, <2>3, <2>4, FileMoves DEF File!CommitFails, FileInv, FileType, FileContents, FilePcs, Pcs
<1>10. CASE File!RenameBack
  <2>1. saving.pc = "renameBack" /\ UNCHANGED <<kind, tmp, legacy, value, mainTrusted, blocked, saved>>
        /\ \/ main' = bak /\ bak' = Absent /\ spent' = ~mainTrusted
           \/ UNCHANGED <<main, bak, spent>>
    BY <1>10 DEF File!RenameBack, File!At
  <2>2. saving'.pc = "fail" /\ saving'.old = saving.old /\ saving'.first = saving.first
    BY <1>10, FileGo DEF File!RenameBack, FileInv, FilePcs, Pcs
  <2>3. PlaceInv'
    BY <2>1, <2>2 DEF FileInv, PlaceInv
  <2>4. LastInv' /\ SpentInv'
    <3>1. saved # Unknown => ~spent /\ bak = saved /\ saved \in FileValues /\ saving.old = saved /\ ~saving.first
      BY <2>1 DEF FileInv, PlaceInv, LastInv, SpentInv
    <3>2. CASE UNCHANGED <<main, bak, spent>>
      BY <2>1, <2>2, <3>2 DEF FileInv, LastInv, SpentInv
    <3>3. CASE main' = bak /\ bak' = Absent /\ spent' = ~mainTrusted
      BY <2>1, <2>2, <3>1, <3>3 DEF LastInv, SpentInv
    <3> QED
      BY <2>1, <3>2, <3>3
  <2> QED
    BY <1>10, <2>1, <2>3, <2>4, FileMoves DEF File!RenameBack, FileInv, FileType, FileContents, FilePcs, Pcs
<1>11. CASE File!CopyBack
  <2>1. saving.pc = "copyBack" /\ UNCHANGED <<kind, bak, tmp, legacy, value, mainTrusted, blocked, saved, spent>>
    BY <1>11 DEF File!CopyBack, File!At
  <2>2. CASE main' = Corrupt /\ saving' = saving
    BY <2>1, <2>2 DEF FileInv, FileType, FileContents, PlaceInv, LastInv, SpentInv
  <2>3. CASE main' \in {bak, Absent} /\ File!Go("fail")
    <3>1. saving'.pc = "fail" /\ saving'.old = saving.old /\ saving'.first = saving.first
      BY <2>3, FileGo DEF FileInv, FilePcs, Pcs
    <3>2. PlaceInv' /\ LastInv' /\ SpentInv'
      BY <2>1, <2>3, <3>1 DEF FileInv, FileType, PlaceInv, LastInv, SpentInv
    <3> QED
      BY <2>1, <2>3, <3>2, FileMoves DEF FileInv, FileType, FileContents, FilePcs, Pcs
  <2> QED
    BY <1>11, <2>2, <2>3 DEF File!CopyBack
<1>12. CASE File!StepFails
  <2>1. saving.pc \in {"create", "write", "backup", "dropPrimary", "fail"} /\ saving' = File!NoSave
        /\ UNCHANGED <<kind, main, bak, tmp, legacy, mainTrusted, saved, spent>> /\ blocked' \in BOOLEAN
        /\ value' = IF saving.first THEN value ELSE saving.old
    BY <1>12 DEF File!StepFails, File!PutBack, File!files, FileInv, FileType
  <2>2. FileType' /\ PlaceInv' /\ SpentInv'
    BY <1>0, <2>1, FileNoSave DEF FileInv, FileType, FilePcs, Pcs, PlaceInv, SpentInv
  <2>3. LastInv'
    BY <1>0, <2>1, FileNoSave DEF FileInv, LastInv
  <2> QED
    BY <2>2, <2>3 DEF FileInv
<1>13. CASE File!Crash
  <2>1. saving' = File!Down /\ value' = Default /\ mainTrusted' = FALSE /\ blocked' = FALSE
        /\ UNCHANGED <<kind, main, bak, tmp, legacy, saved, spent>>
    BY <1>13 DEF File!Crash, File!files
  <2> QED
    BY <2>1, FileNoSave DEF FileInv, FileType, FilePcs, Pcs, PlaceInv, LastInv, SpentInv
<1>14. CASE UNCHANGED fileVars
  BY <1>14 DEF fileVars, FileInv, FileType, PlaceInv, LastInv, SpentInv
<1> QED
  BY <1>1, <1>2, <1>3, <1>4, <1>5, <1>6, <1>7, <1>8, <1>9, <1>10, <1>11, <1>12, <1>13, <1>14 DEF File!Next

\* Of the file of sessions and of that of settings, for any contents: whatever fails
\* and wherever the process dies, a restart loads what was saved last, and between
\* saves memory holds it, until the only backup of a list of sessions had to be
\* renamed (see LastVersionExists).
THEOREM SavedFilesAreKept == File!Spec => []File!LastSaveKept
<1>1. FileInv => File!LastSaveKept
  BY FileAssumption DEF FileInv, LastInv, File!LastSaveKept, File!GoodCopy, File!Loaded, File!At
<1>2. FileInv /\ [File!Next]_File!vars => FileInv'
  BY FileStep DEF fileVars, File!vars, File!files
<1> QED
  BY FileInit, <1>1, <1>2, PTL DEF File!Spec
-----------------------------------------------------------------------------
(* The rights that move to the database (SharedSettings).                   *)

Settings == [value : Values, permissions : {"none", "legacy", "edited"}]
Legacy   == [value |-> Default, permissions |-> "legacy"]

\* Until the rights are in the database nobody has got further than its opening, so
\* that the file is as it was, and so is what everybody has read of it.
RightsInv ==
  /\ migrated \in BOOLEAN
  /\ ~migrated =>
       /\ shared = Legacy /\ rows = "none"
       /\ at \in [Shared!Processes -> {"off", "open", "migrate"}]
       /\ memory \in [Shared!Processes -> Settings]
       /\ \A p \in Shared!Processes : at[p] # "off" => memory[p] = Legacy

\* The database keeps what it has, but for the step that fills it.
Arrives == migrated' # migrated => migrated' /\ rows = "none" /\ rows' = "legacy"

LEMMA LegacyFile == Legacy = Shared!Was /\ Legacy \in Settings /\ Shared!Proper(Legacy)
BY NamesAssumption, ValueAssumption DEF Legacy, Settings, Shared!Was, Shared!Proper

LEMMA RightsInit == Shared!Init => RightsInv
<1> SUFFICES ASSUME Shared!Init PROVE RightsInv
  OBVIOUS
<1>1. memory \in [Shared!Processes -> Settings] /\ at \in [Shared!Processes -> {"off", "open", "migrate"}]
  BY ValueAssumption DEF Shared!Init, Settings
<1> QED
  BY <1>1, LegacyFile DEF Shared!Init, RightsInv

\* Once they are there, the invariant asks no more.
LEMMA RightsArrived ==
  ASSUME RightsInv, migrated, [Shared!Next]_(Shared!vars)
  PROVE  migrated' = migrated
BY DEF RightsInv, Shared!Next, Shared!vars, Shared!files, Shared!database, Shared!process, Shared!Change, Shared!Edit,
       Shared!LoadPrimary, Shared!LoadBackup, Shared!Open, Shared!Migrate, Shared!Externalize, Shared!Create,
       Shared!Write, Shared!Exists, Shared!DropBackup, Shared!KeepBackup, Shared!ReplacePrimary, Shared!Commit,
       Shared!Reload, Shared!Ends

LEMMA RightsStep ==
  ASSUME RightsInv, [Shared!Next]_(Shared!vars)
  PROVE  RightsInv' /\ Arrives
<1>1. CASE migrated
  BY <1>1, RightsArrived DEF RightsInv, Arrives
<1>2. CASE ~migrated
  <2> DEFINE P == Shared!Processes
  <2>0. /\ shared = Legacy /\ rows = "none" /\ migrated = FALSE
        /\ at \in [P -> {"off", "open", "migrate"}] /\ memory \in [P -> Settings]
        /\ \A p \in P : at[p] # "off" => memory[p] = Legacy
    BY <1>2 DEF RightsInv
  <2>1. Gui \in P
    BY DEF Shared!Processes
  <2>2. ASSUME NEW p \in P, Shared!LoadPrimary(p) PROVE RightsInv' /\ Arrives
    <3>1. /\ memory' = [memory EXCEPT ![p] = Legacy] /\ at' = [at EXCEPT ![p] = "open"]
          /\ UNCHANGED <<shared, rows, migrated>>
      BY <2>0, <2>2, LegacyFile DEF Shared!LoadPrimary, Shared!Knows, Shared!Goto, Shared!files, Shared!database
    <3> QED
      BY <2>0, <3>1, LegacyFile DEF RightsInv, Arrives
  <2>3. ASSUME NEW p \in P, Shared!Open(p) PROVE RightsInv' /\ Arrives
    BY <2>0, <2>3 DEF Shared!Open, Shared!Goto, Shared!files, RightsInv, Arrives
  <2>4. ASSUME NEW p \in P, Shared!Migrate(p) PROVE RightsInv' /\ Arrives
    <3>1. memory[p] = Legacy /\ migrated' = TRUE /\ rows' = memory[p].permissions
      BY <2>0, <2>4 DEF Shared!Migrate
    <3> QED
      BY <2>0, <3>1 DEF RightsInv, Arrives, Legacy
  <2>5. ASSUME NEW p \in P, Shared!Ends(p) PROVE RightsInv' /\ Arrives
    BY <2>0, <2>5 DEF Shared!Ends, Shared!Goto, Shared!files, Shared!database, RightsInv, Arrives
  <2>6. CASE UNCHANGED Shared!vars
    BY <2>0, <2>6 DEF Shared!vars, Shared!files, Shared!database, Shared!process, RightsInv, Arrives
  <2>7. ~Shared!Change /\ ~Shared!Edit
    BY <2>0, <2>1 DEF Shared!Change, Shared!Edit
  <2>8. ASSUME NEW p \in P
        PROVE  /\ ~Shared!LoadBackup(p) /\ ~Shared!Externalize(p) /\ ~Shared!Create(p) /\ ~Shared!Write(p)
               /\ ~Shared!Exists(p) /\ ~Shared!DropBackup(p) /\ ~Shared!KeepBackup(p)
               /\ ~Shared!ReplacePrimary(p) /\ ~Shared!Commit(p) /\ ~Shared!Reload(p)
    BY <2>0 DEF Shared!LoadBackup, Shared!Externalize, Shared!Create, Shared!Write, Shared!Exists,
                Shared!DropBackup, Shared!KeepBackup, Shared!ReplacePrimary, Shared!Commit, Shared!Reload
  <2> QED
    BY <2>2, <2>3, <2>4, <2>5, <2>6, <2>7, <2>8 DEF Shared!Next
<1> QED
  BY <1>1, <1>2 DEF RightsInv

\* Only the user's own edit changes the rows that are there.
LEMMA RowsStep ==
  ASSUME [Shared!Next]_(Shared!vars), migrated, rows' # rows
  PROVE  at[Gui] = "ready" /\ UNCHANGED Shared!process
BY DEF Shared!Next, Shared!vars, Shared!files, Shared!database, Shared!Change, Shared!Edit,
       Shared!LoadPrimary, Shared!LoadBackup, Shared!Open, Shared!Migrate, Shared!Externalize, Shared!Create,
       Shared!Write, Shared!Exists, Shared!DropBackup, Shared!KeepBackup, Shared!ReplacePrimary, Shared!Commit,
       Shared!Reload, Shared!Ends

\* Whichever of any number of processes starts first, and wherever they are killed,
\* the rights of an older settings file reach the database as they were, stay in the
\* file until then, and are changed by nobody but the user from then on.
THEOREM RightsAreMovedOnce == Shared!Spec => RightsMoveOnce
<1>1. RightsInv => Shared!PermissionsMove
  BY LegacyFile DEF RightsInv, Shared!PermissionsMove, Legacy
<1>2. RightsInv /\ [Shared!Next]_(Shared!vars) => RightsInv'
  BY RightsStep
<1>3. RightsInv /\ [Shared!Next]_(Shared!vars) =>
        [migrated' # migrated => migrated' /\ rows = "none" /\ rows' = "legacy"]_(Shared!vars)
  BY RightsStep DEF Arrives
<1>4. [Shared!Next]_(Shared!vars) =>
        [migrated /\ rows' # rows => at[Gui] = "ready" /\ UNCHANGED Shared!process]_(Shared!vars)
  BY RowsStep
<1> QED
  BY <1>1, <1>2, <1>3, <1>4, RightsInit, PTL
     DEF Shared!Spec, RightsMoveOnce, Shared!RightsArrive, Shared!RowsOnlyEdited
-----------------------------------------------------------------------------
(* The update of the program (AppUpdate).                                   *)

Verified(h) == helper[h] \in {"verified", "runs"}

UpdateType ==
  /\ desk \in [Desktops -> {"idle", "downloaded", "staged", "elevated"}]
  /\ helper \in [Helpers -> {"none", "started", "opened", "verified", "runs", "over", "released"}]
  /\ ticket \in [Desktops \cup Helpers -> Nat]
  /\ issued \in Nat /\ installer \in 0..issued \cup {None}
  /\ claimed \in BOOLEAN /\ upload \in Desktops \cup {None}
  /\ installs \subseteq [helper : Helpers, ticket : 1..issued]

\* Whoever was given a ticket has one that was issued.
TicketsInv ==
  /\ \A d \in Desktops : desk[d] \in {"staged", "elevated"} => ticket[d] \in 1..issued
  /\ \A h \in Helpers : helper[h] # "none" => ticket[h] \in 1..issued

\* A package that was verified is the one of the helper's ticket; it runs under a claim,
\* alone, and without a claim it has not been run.  While a package is received there
\* is none to run, and none was run under its ticket.
ClaimInv ==
  /\ \A h \in Helpers : Verified(h) => installer = ticket[h]
  /\ \A h \in Helpers : helper[h] = "runs" => claimed
  /\ \A g, h \in Helpers : helper[g] = "runs" /\ helper[h] = "runs" => g = h
  /\ ~claimed => \A i \in installs : i.ticket # installer
  /\ upload # None => /\ issued > 0 /\ installer = 0 /\ ~claimed
                      /\ \A i \in installs : i.ticket # issued

\* What was run stays with the helper that ran it.
RunInv ==
  \A i \in installs : helper[i.helper] \in {"runs", "over", "released"} /\ ticket[i.helper] = i.ticket
RunOnce == \A i, o \in installs : i.ticket = o.ticket => i = o

UpdateInv == UpdateType /\ TicketsInv /\ ClaimInv /\ RunInv /\ RunOnce

LEMMA UpdateInit == Update!Init => UpdateInv
<1> SUFFICES ASSUME Update!Init PROVE UpdateInv
  OBVIOUS
<1>1. UpdateType
  BY DEF Update!Init, UpdateType
<1> QED
  BY <1>1 DEF Update!Init, UpdateInv, TicketsInv, ClaimInv, RunInv, RunOnce, Verified

\* The steps of a desktop that touch neither tickets nor the stage.
LEMMA UpdateQuiet ==
  ASSUME UpdateInv, UNCHANGED <<ticket, installer, claimed, upload, issued, helper, installs>>,
         desk' \in [Desktops -> {"idle", "downloaded", "staged", "elevated"}],
         \A d \in Desktops : desk'[d] \in {"staged", "elevated"} => desk[d] \in {"staged", "elevated"}
  PROVE  UpdateInv'
BY DEF UpdateInv, UpdateType, TicketsInv, ClaimInv, RunInv, RunOnce, Verified

\* The steps of a helper that neither verifies nor runs.
LEMMA UpdateHelper ==
  ASSUME UpdateInv, UNCHANGED <<desk, ticket, installer, claimed, upload, issued, installs>>,
         NEW h \in Helpers, helper[h] # "none",
         NEW then \in {"opened", "over", "released"}, helper' = [helper EXCEPT ![h] = then],
         then = "opened" => helper[h] = "started"
  PROVE  UpdateInv'
<1> USE DEF UpdateInv
<1>1. UpdateType' /\ TicketsInv'
  BY DEF UpdateType, TicketsInv
<1>2. ClaimInv'
  BY DEF UpdateType, ClaimInv, Verified
<1>3. RunInv' /\ RunOnce'
  BY DEF UpdateType, RunInv, RunOnce
<1> QED
  BY <1>1, <1>2, <1>3

\* A helper is started with a ticket that was issued.
LEMMA UpdateStarts ==
  ASSUME UpdateInv, UNCHANGED <<installer, claimed, upload, issued, installs>>,
         NEW h \in Helpers, helper[h] = "none", helper' = [helper EXCEPT ![h] = "started"],
         NEW t \in 1..issued, ticket' = [ticket EXCEPT ![h] = t],
         desk' \in [Desktops -> {"idle", "downloaded", "staged", "elevated"}],
         \A d \in Desktops : desk'[d] \in {"staged", "elevated"} => desk[d] \in {"staged", "elevated"}
  PROVE  UpdateInv'
<1> USE NamesAssumption DEF UpdateInv
<1>1. UpdateType'
  BY DEF UpdateType
<1>2. TicketsInv'
  BY DEF UpdateType, TicketsInv
<1>3. ClaimInv'
  BY DEF UpdateType, ClaimInv, Verified
<1>4. RunInv' /\ RunOnce'
  BY DEF UpdateType, RunInv, RunOnce
<1> QED
  BY <1>1, <1>2, <1>3, <1>4

LEMMA UpdateStep ==
  ASSUME UpdateInv, [Update!Next]_(Update!vars)
  PROVE  UpdateInv'
<1> USE DEF UpdateInv
<1>1. ASSUME NEW d \in Desktops, Update!Check(d) \/ Update!Download(d) \/ Update!Fails(d) \/ Update!Done(d)
      PROVE  UpdateInv'
  BY <1>1, UpdateQuiet DEF UpdateType, Update!Check, Update!Download, Update!Fails, Update!Done, Update!Goto
<1>2. ASSUME NEW d \in Desktops, Update!Receive(d) PROVE UpdateInv'
  <2>1. CASE Update!HoldsManifest /\ Update!HoldsInstaller
    BY <1>2, <2>1, UpdateQuiet DEF UpdateType, Update!Receive, Update!Goto
  <2>2. CASE Update!HoldsManifest /\ ~Update!HoldsInstaller
    <3>1. /\ installer' = None /\ claimed' = FALSE /\ desk' = [desk EXCEPT ![d] = "idle"]
          /\ UNCHANGED <<ticket, upload, issued, helper, installs>> /\ upload = None
          /\ \A h \in Helpers : ~Verified(h)
      BY <1>2, <2>2 DEF Update!Receive, Update!Goto, Update!HoldsInstaller, Verified
    <3>2. UpdateType' /\ TicketsInv'
      BY <3>1 DEF UpdateType, TicketsInv
    <3>3. \A i \in installs : i.ticket # None
      BY NamesAssumption DEF UpdateType
    <3>4. \A h \in Helpers : ~Verified(h)'
      BY <3>1 DEF Verified
    <3>5. ClaimInv'
      BY <3>1, <3>3, <3>4 DEF ClaimInv, Verified
    <3>6. RunInv' /\ RunOnce'
      BY <3>1 DEF RunInv, RunOnce
    <3> QED
      BY <3>2, <3>5, <3>6
  <2>3. CASE ~Update!HoldsManifest
    <3>1. /\ upload' = d /\ issued' = issued + 1 /\ installer' = 0 /\ claimed' = FALSE
          /\ UNCHANGED <<desk, ticket, helper, installs>>
          /\ \A h \in Helpers : ~Verified(h)
      BY <1>2, <2>3 DEF Update!Receive, Update!HoldsManifest, Verified
    <3>2. issued \in Nat /\ 1..issued \subseteq 1..issued' /\ 0 \in 0..issued'
      BY <3>1 DEF UpdateType
    <3>3. UpdateType'
      <4>1. installs' \subseteq [helper : Helpers, ticket : 1..issued']
        BY <3>1, <3>2 DEF UpdateType
      <4>2. issued' \in Nat /\ installer' \in 0..issued' \cup {None} /\ upload' \in Desktops
        BY <3>1, <3>2
      <4> QED
        BY <3>1, <4>1, <4>2 DEF UpdateType
    <3>4. TicketsInv'
      BY <3>1, <3>2 DEF TicketsInv
    <3>5. \A i \in installs : i.ticket # 0 /\ i.ticket # issued'
      BY <3>1 DEF UpdateType
    <3>6. ClaimInv'
      BY <3>1, <3>2, <3>5 DEF ClaimInv, Verified
    <3>7. RunInv' /\ RunOnce'
      BY <3>1 DEF RunInv, RunOnce
    <3> QED
      BY <3>3, <3>4, <3>6, <3>7
  <2> QED
    BY <2>1, <2>2, <2>3
<1>3. ASSUME NEW d \in Desktops, Update!Received(d) PROVE UpdateInv'
  <2>0. /\ upload # None /\ upload' = None /\ issued > 0 /\ installer = 0 /\ ~claimed
        /\ \A i \in installs : i.ticket # issued /\ i.ticket # 0
        /\ \A h \in Helpers : ~Verified(h)
        /\ UNCHANGED <<claimed, issued, helper, installs>>
    <3>1. upload = d /\ upload # None
      BY <1>3, NamesAssumption DEF Update!Received
    <3>2. \A h \in Helpers : Verified(h) => ticket[h] # 0
      BY DEF TicketsInv, Verified
    <3> QED
      BY <1>3, <3>1, <3>2 DEF Update!Received, ClaimInv, UpdateType
  <2>1. CASE installer' = issued /\ ticket' = [ticket EXCEPT ![d] = issued] /\ Update!Goto(d, "staged")
    <3>1. UpdateType'
      BY <2>0, <2>1 DEF UpdateType, Update!Goto
    <3>2. TicketsInv'
      BY <2>0, <2>1, NamesAssumption DEF UpdateType, TicketsInv, Update!Goto
    <3>3. ClaimInv'
      BY <2>0, <2>1 DEF ClaimInv, Verified
    <3>4. RunInv' /\ RunOnce'
      BY <2>0, <2>1, NamesAssumption DEF UpdateType, RunInv, RunOnce
    <3> QED
      BY <3>1, <3>2, <3>3, <3>4
  <2>2. CASE Update!Goto(d, "idle") /\ UNCHANGED <<installer, ticket>>
    BY <2>0, <2>2 DEF UpdateType, TicketsInv, ClaimInv, RunInv, RunOnce, Verified, Update!Goto
  <2> QED
    BY <1>3, <2>1, <2>2 DEF Update!Received
<1>4. ASSUME NEW d \in Desktops, NEW h \in Helpers, Update!Elevate(d, h) PROVE UpdateInv'
  BY <1>4, UpdateStarts DEF UpdateType, TicketsInv, Update!Elevate, Update!Goto
<1>5. ASSUME NEW h \in Helpers, Update!Again(h) PROVE UpdateInv'
  BY <1>5, UpdateStarts DEF UpdateType, Update!Again
<1>6. ASSUME NEW h \in Helpers, Update!Open(h) \/ Update!Ends(h) \/ Update!Release(h) PROVE UpdateInv'
  BY <1>6, UpdateHelper DEF Update!Open, Update!Ends, Update!Release, Update!Become
<1>7. ASSUME NEW h \in Helpers, Update!Verify(h) PROVE UpdateInv'
  <2>1. CASE helper' = [helper EXCEPT ![h] = "over"]
    BY <1>7, <2>1, UpdateHelper DEF Update!Verify
  <2>2. CASE installer = ticket[h] /\ helper' = [helper EXCEPT ![h] = "verified"]
    <3>1. UNCHANGED <<desk, ticket, installer, claimed, upload, issued, installs>> /\ helper[h] = "opened"
      BY <1>7 DEF Update!Verify
    <3>2. UpdateType' /\ TicketsInv'
      BY <2>2, <3>1 DEF UpdateType, TicketsInv
    <3>3. ClaimInv'
      BY <2>2, <3>1 DEF UpdateType, ClaimInv, Verified
    <3>4. RunInv' /\ RunOnce'
      BY <2>2, <3>1 DEF UpdateType, RunInv, RunOnce
    <3> QED
      BY <3>2, <3>3, <3>4
  <2> QED
    BY <1>7, <2>1, <2>2 DEF Update!Verify, Update!Become
<1>8. ASSUME NEW h \in Helpers, Update!Run(h) PROVE UpdateInv'
  <2>1. CASE claimed
    BY <1>8, <2>1, UpdateHelper DEF Update!Run, Update!Become
  <2>2. CASE ~claimed
    <3> DEFINE new == [helper |-> h, ticket |-> installer]
    <3>1. /\ helper[h] = "verified" /\ helper' = [helper EXCEPT ![h] = "runs"] /\ claimed' = TRUE
          /\ installs' = installs \cup {new}
          /\ UNCHANGED <<desk, ticket, installer, upload, issued>>
      BY <1>8, <2>2 DEF Update!Run, Update!Become
    <3>2. installer = ticket[h] /\ ticket[h] \in 1..issued
      BY <3>1 DEF ClaimInv, TicketsInv, Verified
    <3>3. \A i \in installs : i.ticket # installer
      BY <2>2 DEF ClaimInv
    <3>4. UpdateType'
      BY <3>1, <3>2 DEF UpdateType
    <3>5. TicketsInv'
      BY <3>1 DEF UpdateType, TicketsInv
    <3>6. \A g \in Helpers : helper[g] # "runs"
      BY <2>2 DEF ClaimInv
    <3>7. upload = None
      BY <3>2 DEF ClaimInv
    <3>8. ClaimInv'
      BY <3>1, <3>6, <3>7 DEF UpdateType, ClaimInv, Verified
    <3>9. RunInv'
      BY <3>1, <3>2 DEF UpdateType, RunInv
    <3>10. RunOnce'
      BY <3>1, <3>3 DEF RunOnce
    <3> QED
      BY <3>4, <3>5, <3>8, <3>9, <3>10
  <2> QED
    BY <2>1, <2>2
<1>9. CASE Update!Expire \/ UNCHANGED Update!vars
  BY <1>9, UpdateQuiet DEF UpdateType, Update!Expire, Update!vars
<1> QED
  BY <1>1, <1>2, <1>3, <1>4, <1>5, <1>6, <1>7, <1>8, <1>9 DEF Update!Next

\* The cardinality of AppUpdate is that of the library.
LEMMA OneRuns == UpdateInv => Update!OneInstaller
<1> SUFFICES ASSUME UpdateInv PROVE Update!OneInstaller
  OBVIOUS
<1> DEFINE R == {h \in Helpers : helper[h] = "runs"}
<1>1. Update!Cardinality(R) = Cardinality(R)
  BY DEF Update!Cardinality, Cardinality
<1>2. CASE R = {}
  BY <1>1, <1>2, FS_EmptySet DEF Update!OneInstaller
<1>3. CASE R # {}
  <2>1. PICK h : h \in R
    BY <1>3
  <2>2. R = {h}
    BY <2>1 DEF UpdateInv, ClaimInv
  <2>3. Cardinality(R) = 1
    BY <2>2, FS_Singleton
  <2> QED
    BY <1>1, <2>3 DEF Update!OneInstaller
<1> QED
  BY <1>2, <1>3

\* However many desktops stage packages, helpers are started with old and new tickets,
\* and however long the user takes: one installer runs at a time, and each ticket runs
\* one, the package it was given for.
THEOREM UpdateRunsOnce == Update!Spec => []UpdateOnce
<1>1. UpdateInv => UpdateOnce
  BY OneRuns DEF UpdateInv, RunInv, RunOnce, UpdateOnce, Update!TicketOnce
<1>2. UpdateInv /\ [Update!Next]_(Update!vars) => UpdateInv'
  BY UpdateStep
<1> QED
  BY <1>1, <1>2, UpdateInit, PTL DEF Update!Spec
-----------------------------------------------------------------------------
(* An installation, its journal and its copies (Installer).                 *)

Files    == Package!Programs
Versions == Nat \cup {None}
Entries  == [old : Nat, existing : [Files -> BOOLEAN], database : BOOLEAN, registered : Nat, saved : Versions]
Undoes   == {"restore", "service", "record", "registration"}   \* of a recovery
Advances == {"replace", "install", "register", "activate"}     \* of a deployment with a journal
Plain    == {"check", "stop", "database", "backup", "journal", "copies", "delete", "unregister", "forget"}
Kind     == {"none", "deploy", "deploying", "uninstall", "recover"}

Steps    == Undoes \cup Advances \cup Plain \cup {"recover", "cleanup"}
Ops      == [kind : Kind, new : Nat, step : Steps \cup {"end"}, n : Files, was : BOOLEAN]

PackageType ==
  /\ programs \in [Files -> Nat] /\ service \in {"none", "stopped", "running"}
  /\ database \in Versions /\ copy \in Versions /\ record \in Nat /\ registered \in Nat
  /\ journal \in Entries \cup {None} /\ rollback \in [Files -> Versions]
  /\ op \in Ops
  /\ service = "running" => database # None
  /\ op.kind = "none" <=> op.step = "end"

\* Programs, record and registration of one version, or what an uninstall has left of it.
OneOf(p, r, g) ==
  /\ p[2] = p[3] /\ p[1] \in {0, r} /\ g \in {0, r}
  /\ (r # 0 => p[2] = r)

\* What a recovery makes of the programs and of the registration.
Before(n) == IF journal.existing[n] THEN rollback[n] ELSE 0
Was       == [n \in Files |-> Before(n)]
WasKnown  == IF journal.old # 0 THEN journal.old ELSE journal.registered

\* The journal is there in the steps that need it, and what it describes is one version.
JournalInv ==
  /\ op.step \in Undoes \cup Advances \cup {"cleanup"} => journal # None
  /\ op.step \in Plain => journal = None
  /\ journal # None =>
       /\ \A n \in Files : journal.existing[n] => rollback[n] \notin {None, 0}
       /\ OneOf(Was, journal.old, WasKnown)
       /\ journal.database => copy = journal.saved /\ copy # None

\* What a step finds: without a journal one version; with one, what it has changed so far.
StepInv ==
  /\ journal = None \/ op.step = "cleanup" => OneOf(programs, record, registered)
  /\ op.step = "unregister" => programs[1] = 0
  /\ op.step = "forget" => programs[1] = 0 /\ registered = 0
  /\ op.step \in {"database", "backup", "journal"} => service # "running"
  /\ op.step \in {"backup", "journal"} => (database # None => copy = database)
  /\ op.step = "backup" => \A n \in 1..(op.n - 1) : rollback[n] = programs[n]
  /\ op.step = "journal" => rollback = programs
  /\ op.step = "replace" => \A n \in 1..(op.n - 1) : programs[n] = op.new
  /\ op.step \in {"install", "register", "activate"} => \A n \in Files : programs[n] = op.new
  /\ op.step = "activate" => registered = op.new
  /\ op.step = "restore" => \A n \in 1..(op.n - 1) : programs[n] = Before(n)
  /\ op.step \in {"service", "record", "registration"} => programs = Was
  /\ op.step = "registration" => record = journal.old

PackageInv == PackageType /\ JournalInv /\ StepInv

\* Credentials change by what the desktop saves, or go back to what the journal found.
Returns == database # None /\ database' # database /\ database' # database + 1 => database' = journal.saved

LEMMA PackageInit == Package!Init => PackageInv
<1> SUFFICES ASSUME Package!Init PROVE PackageInv
  OBVIOUS
<1> USE NamesAssumption DEF Package!Init, Package!NoOp, Package!Programs, Files, Versions
<1>1. PackageType
  BY DEF PackageType, Ops, Kind
<1>2. JournalInv
  BY DEF JournalInv, Undoes, Advances, Plain
<1>3. StepInv
  BY DEF StepInv, OneOf
<1> QED
  BY <1>1, <1>2, <1>3 DEF PackageInv

\* Where an operation goes.
LEMMA OpTypes ==
  ASSUME op \in Ops
  PROVE  op.new \in Nat /\ op.n \in 1..3 /\ op.step \in Steps \cup {"end"}
BY DEF Ops, Files, Package!Programs

LEMMA GotoOp ==
  ASSUME op \in Ops, op.kind # "none"
  PROVE  \A s \in Steps : Package!Goto(s) =>
           op' \in Ops /\ op'.kind = op.kind /\ op'.new = op.new /\ op'.step = s /\ op'.n = 1
<1> TAKE s \in Steps
<1> HAVE Package!Goto(s)
<1>1. op' = [op EXCEPT !.step = s, !.n = 1]
  BY DEF Package!Goto
<1>2. op' = [kind |-> op.kind, new |-> op.new, step |-> s, n |-> 1, was |-> op.was]
  BY <1>1 DEF Ops
<1> QED
  BY <1>2 DEF Ops, Files, Package!Programs

LEMMA EndOp == Package!End => op' \in Ops /\ op'.kind = "none" /\ op'.step = "end"
BY DEF Ops, Kind, Files, Package!Programs, Package!End, Package!NoOp

LEMMA EachOp ==
  ASSUME op \in Ops, op.kind # "none"
  PROVE  \A s \in Steps : Package!Each(s) =>
           /\ op' \in Ops /\ op'.kind = op.kind /\ op'.new = op.new
           /\ \/ op.n < 3 /\ op'.step = op.step /\ op'.n = op.n + 1
              \/ op.n = 3 /\ op'.step = s /\ op'.n = 1
BY GotoOp, OpTypes DEF Ops, Files, Package!Programs, Package!Each

LEMMA ContinueOp ==
  ASSUME op \in Ops, op.kind # "none", Package!Continue
  PROVE  /\ op' \in Ops /\ (op'.kind = "none" <=> op'.step = "end")
         /\ op'.step \in {"check", "end"}
BY GotoOp, EndOp DEF Steps, Plain, Package!Continue

LEMMA PackageStep ==
  ASSUME PackageInv, [Package!Next]_(Package!vars)
  PROVE  PackageInv' /\ Returns
<1> USE NamesAssumption, InstallationAssumption, OpTypes
    DEF PackageInv, PackageType, JournalInv, StepInv, OneOf, Before, Was, WasKnown, Returns, Undoes, Advances, Plain,
        Steps, Versions, Entries, Files, Package!Programs, Package!At, Package!disk, Package!faults, Package!Started
<1>1. CASE Package!Recover
  BY <1>1, GotoOp, ContinueOp DEF Package!Recover
<1>2. CASE Package!Restore
  BY <1>2, EachOp, EndOp DEF Package!Restore
<1>3. CASE Package!RestoreService
  BY <1>3, GotoOp DEF Package!RestoreService
<1>4. CASE Package!RestoreRecord
  BY <1>4, GotoOp DEF Package!RestoreRecord
<1>5. CASE Package!RestoreRegistration
  BY <1>5, GotoOp DEF Package!RestoreRegistration
<1>6. CASE Package!Cleanup
  BY <1>6, GotoOp, ContinueOp DEF Package!Cleanup, Ops
<1>7. CASE Package!Check
  <2>1. CASE op.new < record \/ op.new < programs[1]
    BY <1>7, <2>1, EndOp DEF Package!Check
  <2>2. CASE ~(op.new < record \/ op.new < programs[1])
    <3>1. op' = [op EXCEPT !.kind = "deploying", !.step = "stop"] /\ op.step = "check"
          /\ UNCHANGED <<programs, record, registered, journal, rollback, service, database, copy>>
      BY <1>7, <2>2 DEF Package!Check
    <3>2. op' \in Ops /\ op'.kind = "deploying" /\ op'.step = "stop"
      BY <3>1 DEF Ops, Kind
    <3> QED
      BY <3>1, <3>2
  <2> QED
    BY <2>1, <2>2
<1>8. CASE Package!Stop
  BY <1>8 DEF Package!Stop, Ops
<1>9. CASE Package!CopyDatabase
  BY <1>9, GotoOp DEF Package!CopyDatabase
<1>10. CASE Package!Backup
  BY <1>10, EachOp DEF Package!Backup
<1>11. CASE Package!WriteJournal
  <2>1. /\ op' \in Ops /\ op'.kind = op.kind /\ op'.new = op.new /\ op'.step = "replace" /\ op'.n = 1
        /\ op.step = "journal" /\ op.kind # "none"
        /\ UNCHANGED <<programs, record, registered, rollback, service, database, copy>>
    BY <1>11, GotoOp DEF Package!WriteJournal
  <2>2. /\ journal' \in Entries /\ journal' # None
        /\ journal'.old = record /\ journal'.registered = registered /\ journal'.saved = database
        /\ journal'.database = (database # None) /\ \A n \in Files : journal'.existing[n] = (programs[n] # 0)
    <3> DEFINE F == [n \in Files |-> programs[n] # 0]
    <3>1. journal' = [old |-> record, existing |-> F, database |-> database # None, registered |-> registered, saved |-> database]
      BY <1>11 DEF Package!WriteJournal
    <3>2. F \in [Files -> BOOLEAN] /\ \A n \in Files : F[n] = (programs[n] # 0)
      OBVIOUS
    <3>3. (database # None) \in BOOLEAN
      OBVIOUS
    <3> HIDE DEF F
    <3>4. journal' \in Entries
      BY <3>1, <3>2, <3>3
    <3> QED
      BY <3>1, <3>2, <3>4, JournalAssumption
  <2>3. PackageType' /\ StepInv'
    BY <2>1, <2>2
  <2>4. Was' = programs /\ (WasKnown)' \in {0, record}
    BY <2>1, <2>2
  <2>5. JournalInv'
    BY <2>1, <2>2, <2>4
  <2>6. Returns
    BY <2>1
  <2> QED
    BY <2>3, <2>5, <2>6
<1>12. CASE Package!Replace
  BY <1>12, EachOp DEF Package!Replace
<1>13. CASE Package!Install
  BY <1>13, GotoOp DEF Package!Install
<1>14. CASE Package!Register
  BY <1>14, GotoOp DEF Package!Register
<1>15. CASE Package!Activate
  BY <1>15, GotoOp DEF Package!Activate
<1>16. CASE Package!Remove
  BY <1>16, GotoOp, EndOp DEF Package!Remove
<1>17. CASE Package!Delete
  BY <1>17, GotoOp DEF Package!Delete
<1>18. CASE Package!Unregister
  BY <1>18, GotoOp DEF Package!Unregister
<1>19. CASE Package!Forget
  BY <1>19, EndOp DEF Package!Forget
<1>20. CASE Package!Fail
  BY <1>20, GotoOp, EndOp DEF Package!Fail, Package!Undo
<1>21. CASE Package!Crash
  BY <1>21, EndOp DEF Package!Crash
<1>22. CASE Package!Boot
  BY <1>22 DEF Package!Boot
<1>23. CASE Package!Save
  BY <1>23 DEF Package!Save
<1>24. ASSUME NEW new \in 1..MaxVersion, Package!Lock("deploy", new) PROVE PackageInv' /\ Returns
  <2>1. /\ op' = [kind |-> "deploy", new |-> new, step |-> "recover", n |-> 1, was |-> FALSE]
        /\ op.kind = "none" /\ UNCHANGED <<programs, record, registered, journal, rollback, service, database, copy>>
    BY <1>24 DEF Package!Lock, Package!NoOp
  <2>2. op' \in Ops /\ op'.kind # "none" /\ op'.step = "recover"
    BY <1>24, <2>1 DEF Ops, Kind
  <2> QED
    BY <2>1, <2>2
<1>25. ASSUME NEW what \in Package!Kinds, Package!Lock(what, 0) PROVE PackageInv' /\ Returns
  <2>1. /\ op' = [kind |-> what, new |-> 0, step |-> "recover", n |-> 1, was |-> FALSE]
        /\ op.kind = "none" /\ UNCHANGED <<programs, record, registered, journal, rollback, service, database, copy>>
    BY <1>25 DEF Package!Lock, Package!NoOp
  <2>2. op' \in Ops /\ op'.kind # "none" /\ op'.step = "recover"
    BY <1>25, <2>1 DEF Ops, Kind, Package!Kinds
  <2> QED
    BY <2>1, <2>2
<1>26. CASE UNCHANGED Package!vars
  BY <1>26 DEF Package!vars
<1> QED
  BY <1>1, <1>2, <1>3, <1>4, <1>5, <1>6, <1>7, <1>8, <1>9, <1>10, <1>11, <1>12, <1>13, <1>14, <1>15, <1>16, <1>17, <1>18, <1>19, <1>20, <1>21, <1>22, <1>23, <1>24, <1>25, <1>26 DEF Package!Next

\* Whatever fails or crashes, and however often: without a journal the machine has one
\* version, and a journal has every copy it needs.
LEMMA PackageWhole == PackageInv => Package!OneVersion /\ Package!Recoverable
BY DEF PackageInv, PackageType, JournalInv, StepInv, OneOf, Files, Package!OneVersion, Package!Recoverable
-----------------------------------------------------------------------------
(* A program file of the installation (ProgramFile).                        *)

Contained == {"none", "old", "partial", "new", "foreign"}
Locked  == {"file", "opened", "created", "written", "closed", "replaced", "deleted"}

ProgramType ==
  /\ entry \in Objects \cup {None} /\ content \in [Objects -> Contained]
  /\ linked \subseteq Objects /\ held \in Objects \cup {None} /\ scratch \in Objects \cup {None}

\* The guard keeps the directory what it was when it was verified.
GuardInv ==
  /\ step \in Locked => plain /\ guard
  /\ step = "recheck" => guard

\* What has a name is complete, and the temporary file has none.
NameInv ==
  /\ entry # None => content[entry] \notin {"none", "partial"}
  /\ \A o \in linked : content[o] \notin {"none", "partial"}

TempInv ==
  /\ step \in {"created", "written", "closed"} => scratch # None /\ scratch # entry /\ scratch \notin linked
  /\ step = "created" => content[scratch] = "partial"
  /\ step \in {"written", "closed"} => content[scratch] = "new"
  /\ step = "replaced" => entry # None /\ held = entry /\ content[entry] = "new"

ProgramInv == ProgramType /\ GuardInv /\ NameInv /\ TempInv

\* A name in another directory loses nothing to the installation.
NamesKeep == \A o \in linked : content'[o] \in {content[o], "foreign"}

LEMMA ProgramInit == Program!Init => ProgramInv
<1> SUFFICES ASSUME Program!Init PROVE ProgramInv
  OBVIOUS
<1>1. entry \in Objects \cup {None}
  BY InstallationAssumption DEF Program!Init
<1> QED
  BY <1>1, NamesAssumption
     DEF Program!Init, ProgramInv, ProgramType, Contained, GuardInv, Locked, NameInv, TempInv

LEMMA ProgramStep ==
  ASSUME ProgramInv, [Program!Next]_(Program!vars)
  PROVE  ProgramInv' /\ NamesKeep
<1> USE NamesAssumption
    DEF ProgramInv, ProgramType, GuardInv, Locked, NameInv, TempInv, NamesKeep, Contained, Program!disk
<1>1. CASE Program!OpenDirectory
  BY <1>1 DEF Program!OpenDirectory
<1>2. CASE Program!MakeGuard
  BY <1>2 DEF Program!MakeGuard
<1>3. CASE Program!Recheck
  BY <1>3 DEF Program!Recheck
<1>4. CASE Program!OpenFile
  BY <1>4 DEF Program!OpenFile
<1>5. CASE Program!Write
  BY <1>5 DEF Program!Write, Program!Discard, Program!Kept
<1>6. CASE Program!Close
  BY <1>6 DEF Program!Close
<1>7. CASE Program!Rename
  BY <1>7 DEF Program!Rename, Program!Discard, Program!Kept
<1>8. CASE Program!Delete
  BY <1>8 DEF Program!Delete, Program!Kept
<1>9. CASE Program!Leave
  BY <1>9 DEF Program!Leave
<1>10. CASE Program!Redirect
  BY <1>10 DEF Program!Redirect
<1>11. CASE Program!Link
  BY <1>11 DEF Program!Link
<1>12. CASE Program!Use
  BY <1>12 DEF Program!Use
<1>13. ASSUME NEW o \in Objects, Program!Create(o) PROVE ProgramInv' /\ NamesKeep
  BY <1>13 DEF Program!Create, Program!Unused
<1>14. ASSUME NEW o \in Objects, Program!Change(o) PROVE ProgramInv' /\ NamesKeep
  BY <1>14 DEF Program!Change
<1>15. ASSUME NEW o \in Objects, Program!Put(o) PROVE ProgramInv' /\ NamesKeep
  BY <1>15 DEF Program!Put, Program!Kept, Program!Unused
<1>16. CASE UNCHANGED Program!vars
  BY <1>16 DEF Program!vars
<1> QED
  BY <1>1, <1>2, <1>3, <1>4, <1>5, <1>6, <1>7, <1>8, <1>9, <1>10, <1>11, <1>12, <1>13, <1>14, <1>15, <1>16 DEF Program!Next
-----------------------------------------------------------------------------
(* The desktops that an installation closes (DesktopShutdown).              *)

Closes == {"terminate", "wait", "again"}

ClosingType ==
  /\ pid \in [Closing!Processes -> Pids \cup {None}] /\ alive \subseteq Closing!Processes
  /\ confirm \in BOOLEAN /\ approved \in BOOLEAN /\ round \in {"first", "second", "last"}
  /\ targets \in Seq(Desktops) /\ place \in Nat \ {0}

\* An identifier names one process.
NamedInv ==
  /\ \A p \in alive : pid[p] # None
  /\ \A p, q \in alive : pid[p] = pid[q] => p = q

\* The answer comes after the first scan, and before it there is nothing to terminate.
AskInv ==
  /\ killed \subseteq Desktops
  /\ scan = "ask" => round = "first" /\ confirm
  /\ approved => round # "first"
  /\ confirm /\ ~approved => killed = {} /\ round # "second" /\ (scan \in Closes => targets = <<>>)

\* The last scan misses no desktop that ran when it began.
Found(d) == \E i \in DOMAIN targets : targets[i] = d
ScanInv ==
  /\ scan \in {"remaining", "done"} => round = "last"
  /\ round = "last" => \A d \in (Desktops \cap alive) \ since :
                         /\ scan = "open" => pid[d] \in left \/ Found(d)
                         /\ scan = "remaining" => Found(d)
                         /\ scan # "done"

ClosingInv == ClosingType /\ NamedInv /\ AskInv /\ ScanInv

LEMMA NoTargets == <<>> \in Seq(Desktops) /\ Len(<<>>) = 0 /\ \A s \in Seq(Desktops) : s # <<>> => Len(s) > 0
OBVIOUS

LEMMA ClosingInit == Closing!Init => ClosingInv
<1> SUFFICES ASSUME Closing!Init PROVE ClosingInv
  OBVIOUS
<1>1. ClosingType
  <2>1. pid \in [Closing!Processes -> Pids \cup {None}] /\ alive \subseteq Closing!Processes
    BY DEF Closing!Init
  <2>2. confirm \in BOOLEAN /\ approved \in BOOLEAN /\ round \in {"first", "second", "last"}
    BY DEF Closing!Init
  <2>3. targets \in Seq(Desktops)
    BY NoTargets DEF Closing!Init
  <2>4. place \in Nat \ {0}
    BY DEF Closing!Init
  <2> QED
    BY <2>1, <2>2, <2>3, <2>4 DEF ClosingType
<1>2. NamedInv
  BY DEF Closing!Init, NamedInv
<1> QED
  BY <1>1, <1>2 DEF Closing!Init, ClosingInv, AskInv, ScanInv, Closes

LEMMA ClosingStep ==
  ASSUME ClosingInv, [Closing!Next]_(Closing!vars)
  PROVE  ClosingInv'
<1> USE NamesAssumption
    DEF ClosingInv, ClosingType, NamedInv, AskInv, ScanInv, Found, Closes,
        Closing!system, Closing!scanned, Closing!history, Closing!Named, Closing!Processes
<1>1. CASE Closing!Snapshot
  <2>1. UNCHANGED <<pid, alive, confirm, approved, round>>
    BY <1>1 DEF Closing!Snapshot
  <2>2. targets' \in Seq(Desktops)
    BY <1>1, NoTargets DEF Closing!Snapshot
  <2>3. place' \in Nat \ {0}
    BY <1>1 DEF Closing!Snapshot
  <2>4. ClosingType' /\ NamedInv'
    BY <2>1, <2>2, <2>3
  <2>5. AskInv'
    BY <1>1, NoTargets DEF Closing!Snapshot
  <2>6. ScanInv'
    BY <1>1, NoTargets DEF Closing!Snapshot
  <2> QED
    BY <2>4, <2>5, <2>6
<1>2. CASE Closing!Scanned
  <2>1. UNCHANGED <<pid, alive, confirm, approved, round>>
    BY <1>2 DEF Closing!Scanned
  <2>2. targets' \in Seq(Desktops)
    BY <1>2, NoTargets DEF Closing!Scanned
  <2>3. place' \in Nat \ {0}
    BY <1>2 DEF Closing!Scanned
  <2>4. ClosingType' /\ NamedInv'
    BY <2>1, <2>2, <2>3
  <2>5. AskInv'
    BY <1>2, NoTargets DEF Closing!Scanned
  <2>6. ScanInv'
    BY <1>2, NoTargets DEF Closing!Scanned
  <2> QED
    BY <2>4, <2>5, <2>6
<1>3. CASE Closing!Terminate
  BY <1>3 DEF Closing!Terminate, Closing!Following, Closing!After
<1>4. CASE Closing!Wait
  BY <1>4 DEF Closing!Wait, Closing!Following, Closing!After
<1>5. CASE Closing!Stopped
  BY <1>5 DEF Closing!Stopped, Closing!AllWaited
<1>6. CASE Closing!Remaining
  BY <1>6 DEF Closing!Remaining
<1>7. ASSUME NEW n \in Pids, Closing!Open(n) PROVE ClosingInv'
  <2>1. ClosingType' /\ NamedInv'
    BY <1>7 DEF Closing!Open
  <2>2. AskInv'
    BY <1>7 DEF Closing!Open
  <2>3. ScanInv'
    BY <1>7 DEF Closing!Open
  <2> QED
    BY <2>1, <2>2, <2>3
<1>8. ASSUME NEW yes \in BOOLEAN, Closing!Answer(yes) PROVE ClosingInv'
  BY <1>8, NoTargets DEF Closing!Answer
<1>9. ASSUME NEW p \in Closing!Processes, Closing!End(p) PROVE ClosingInv'
  BY <1>9 DEF Closing!End
<1>10. ASSUME NEW p \in Closing!Processes, NEW n \in Pids, Closing!Start(p, n) PROVE ClosingInv'
  BY <1>10 DEF Closing!Start
<1>11. CASE UNCHANGED Closing!vars
  BY <1>11 DEF Closing!vars
<1> QED
  BY <1>1, <1>2, <1>3, <1>4, <1>5, <1>6, <1>7, <1>8, <1>9, <1>10, <1>11 DEF Closing!Next, Closing!Install

LEMMA ClosesAll == ClosingInv => Closing!OnlyDesktopsKilled /\ Closing!AllClosed
BY DEF ClosingInv, ClosingType, AskInv, ScanInv, Closing!OnlyDesktopsKilled, Closing!AllClosed
-----------------------------------------------------------------------------
\* Whatever fails, crashes or interferes: an installation ends with one version or can
\* be recovered, replaces its files where it verified them and as a whole, and closes
\* desktops only, and all of them.
THEOREM InstallationIsWhole == Package!Spec /\ Program!Spec /\ Closing!Spec => []InstallationWhole
<1>1. PackageInv /\ [Package!Next]_(Package!vars) => PackageInv'
  BY PackageStep
<1>2. ProgramInv /\ [Program!Next]_(Program!vars) => ProgramInv'
  BY ProgramStep
<1>3. ClosingInv /\ [Closing!Next]_(Closing!vars) => ClosingInv'
  BY ClosingStep
<1>4. ProgramInv => Program!DirectoryStays /\ Program!WholeProgram
  BY DEF ProgramInv, GuardInv, Locked, NameInv, TempInv, Program!DirectoryStays, Program!WholeProgram
<1>5. PackageInv /\ ProgramInv /\ ClosingInv => InstallationWhole
  BY <1>4, PackageWhole, ClosesAll DEF InstallationWhole
<1> QED
  BY <1>1, <1>2, <1>3, <1>5, PackageInit, ProgramInit, ClosingInit, PTL
     DEF Package!Spec, Program!Spec, Closing!Spec

\* No step of an installation puts credentials back that its own upgrade did not find,
\* or changes what another name of a program's file refers to.
THEOREM InstallationKeepsOthers == Package!Spec /\ Program!Spec => InstallationKeeps
<1>1. PackageInv /\ [Package!Next]_(Package!vars) => PackageInv'
  BY PackageStep
<1>2. ProgramInv /\ [Program!Next]_(Program!vars) => ProgramInv'
  BY ProgramStep
<1>3. PackageInv /\ [Package!Next]_(Package!vars) =>
        [(database # None /\ database' # database /\ database' # database + 1)
           => database' = journal.saved]_(Package!vars)
  BY PackageStep DEF Returns
<1>4. ProgramInv /\ [Program!Next]_(Program!vars) =>
        [\A o \in linked : content'[o] \in {content[o], "foreign"}]_(Program!vars)
  BY ProgramStep DEF NamesKeep
<1> QED
  BY <1>1, <1>2, <1>3, <1>4, PackageInit, ProgramInit, PTL
     DEF Package!Spec, Program!Spec, InstallationKeeps, Package!OwnCopy, Program!OtherNamesKept
-----------------------------------------------------------------------------
-----------------------------------------------------------------------------
(* A private key in the credential store (CredentialVault).                 *)

Stored == PrivateKeys \cup Passwords \cup Chunks \cup {None, Bad}
Accesses   == [op : {"put", "del", "check"}, account : Vault!Accounts, value : Stored]
Keyed      == PrivateKeys \cup {None}

\* The accesses of the requests, by their number.
Writes(k) ==
  [j \in 1..MaxChunks + 2 |->
     IF j <= Len(k) THEN Vault!Put(j, k[j])
     ELSE IF j = Len(k) + 1 THEN Vault!Put(0, k)
     ELSE IF j <= MaxChunks + 1 THEN Vault!Del(j - 1)
     ELSE Vault!Check(k)]
Deletes == [j \in 1..MaxChunks + 1 |-> Vault!Del(j - 1)]
DeletesAll ==
  [j \in 1..MaxChunks + 3 |->
     IF j = 1 THEN Vault!Del(Vault!Session)
     ELSE IF j <= MaxChunks + 2 THEN Vault!Del(j - 2)
     ELSE Vault!Check(None)]

\* What is left to do is the end of such a list; how much of it is done.
Rest(f, n) ==
  /\ Len(request.todo) <= n
  /\ \A j \in 1..Len(request.todo) : request.todo[j] = f[n - Len(request.todo) + j]
Done(n) == n - Len(request.todo)

LEMMA ChunkBound == MaxChunks \in Nat
BY VaultAssumption

LEMMA KeyTypes ==
  ASSUME NEW k \in PrivateKeys
  PROVE  /\ k \in Seq(Chunks) /\ Len(k) \in 0..MaxChunks /\ k # None /\ k # Damaged
         /\ \A i \in 1..Len(k) : k[i] \in Chunks
BY VaultAssumption

LEMMA DeleteList ==
  /\ Vault!DeleteKey \in Seq(Accesses) /\ Len(Vault!DeleteKey) = MaxChunks + 1
  /\ \A j \in 1..MaxChunks + 1 : Vault!DeleteKey[j] = Deletes[j]
<1> DEFINE first == <<Vault!Del(0)>>
           others == [i \in 1..MaxChunks |-> Vault!Del(i)]
           both == first \o others
<1> USE ChunkBound
<1>1. \A i \in 0..MaxChunks + 1 : Vault!Del(i) \in Accesses
  BY DEF Vault!Del, Accesses, Vault!Accounts, Stored
<1>2. first \in Seq(Accesses) /\ Len(first) = 1 /\ first[1] = Vault!Del(0)
  BY <1>1
<1>3. others \in Seq(Accesses) /\ Len(others) = MaxChunks /\ \A i \in 1..MaxChunks : others[i] = Vault!Del(i)
  BY <1>1
<1>4. Vault!DeleteKey = both
  BY DEF Vault!DeleteKey, Vault!Manifest
<1> HIDE DEF first, others
<1>5. /\ both \in Seq(Accesses) /\ Len(both) = Len(first) + Len(others)
      /\ \A i \in 1..Len(first) + Len(others) : both[i] = IF i <= Len(first) THEN first[i] ELSE others[i - Len(first)]
  BY <1>2, <1>3, ConcatProperties
<1> HIDE DEF both
<1>6. \A j \in 1..MaxChunks + 1 : both[j] = Vault!Del(j - 1)
  BY <1>2, <1>3, <1>5
<1> QED
  BY <1>2, <1>3, <1>4, <1>5, <1>6 DEF Deletes

LEMMA DeleteAllList ==
  LET all == <<Vault!Del(Vault!Session)>> \o Vault!DeleteKey \o <<Vault!Check(None)>> IN
  /\ all \in Seq(Accesses) /\ Len(all) = MaxChunks + 3
  /\ \A j \in 1..MaxChunks + 3 : all[j] = DeletesAll[j]
<1> DEFINE first == <<Vault!Del(Vault!Session)>>
           last0 == <<Vault!Check(None)>>
           most == first \o Vault!DeleteKey
           all == most \o last0
<1> USE ChunkBound
<1>1. first \in Seq(Accesses) /\ Len(first) = 1 /\ first[1] = Vault!Del(Vault!Session)
  <2>1. Vault!Del(Vault!Session) \in Accesses
    BY DEF Vault!Del, Accesses, Vault!Accounts, Vault!Session, Stored
  <2> QED
    BY <2>1
<1>2. last0 \in Seq(Accesses) /\ Len(last0) = 1 /\ last0[1] = Vault!Check(None)
  <2>1. Vault!Check(None) \in Accesses
    BY DEF Vault!Check, Accesses, Vault!Accounts, Vault!Manifest, Stored
  <2> QED
    BY <2>1
<1>3. <<Vault!Del(Vault!Session)>> \o Vault!DeleteKey \o <<Vault!Check(None)>> = all
  OBVIOUS
<1> HIDE DEF first, last0
<1>4. /\ most \in Seq(Accesses) /\ Len(most) = Len(first) + Len(Vault!DeleteKey)
      /\ \A i \in 1..Len(first) + Len(Vault!DeleteKey) : most[i] = IF i <= Len(first) THEN first[i] ELSE Vault!DeleteKey[i - Len(first)]
  BY <1>1, DeleteList, ConcatProperties
<1> HIDE DEF most
<1>5. /\ all \in Seq(Accesses) /\ Len(all) = Len(most) + Len(last0)
      /\ \A i \in 1..Len(most) + Len(last0) : all[i] = IF i <= Len(most) THEN most[i] ELSE last0[i - Len(most)]
  BY <1>2, <1>4, ConcatProperties
<1> HIDE DEF all
<1>6. Len(most) = MaxChunks + 2 /\ Len(all) = MaxChunks + 3
  BY <1>1, <1>2, <1>4, <1>5, DeleteList
<1>7. ASSUME NEW j \in 1..MaxChunks + 3 PROVE all[j] = DeletesAll[j]
  <2>1. CASE j = 1
    BY <2>1, <1>1, <1>4, <1>5, <1>6 DEF DeletesAll
  <2>2. CASE j \in 2..MaxChunks + 2
    <3>1. all[j] = Vault!DeleteKey[j - 1]
      BY <2>2, <1>1, <1>4, <1>5, <1>6
    <3>2. Vault!DeleteKey[j - 1] = Vault!Del(j - 2)
      BY <2>2, DeleteList DEF Deletes
    <3> QED
      BY <2>2, <3>1, <3>2 DEF DeletesAll
  <2>3. CASE j = MaxChunks + 3
    BY <2>3, <1>2, <1>5, <1>6 DEF DeletesAll
  <2> QED
    BY <2>1, <2>2, <2>3
<1> QED
  BY <1>3, <1>5, <1>6, <1>7

LEMMA WriteList ==
  ASSUME NEW k \in PrivateKeys
  PROVE  /\ Vault!WriteKey(k) \in Seq(Accesses) /\ Len(Vault!WriteKey(k)) = MaxChunks + 2
         /\ \A j \in 1..MaxChunks + 2 : Vault!WriteKey(k)[j] = Writes(k)[j]
<1> DEFINE n == Len(k)
           a == [i \in 1..n |-> Vault!Put(i, k[i])]
           b == <<Vault!Put(Vault!Manifest, k)>>
           c == [i \in 1..MaxChunks - n |-> Vault!Del(n + i)]
           d == <<Vault!Check(k)>>
           ab == a \o b
           abc == ab \o c
           all == abc \o d
<1> USE ChunkBound
<1>1. n \in 0..MaxChunks
  BY KeyTypes
<1> HIDE DEF n
<1>2. a \in Seq(Accesses) /\ Len(a) = n /\ \A i \in 1..n : a[i] = Vault!Put(i, k[i])
  <2>1. \A i \in 1..n : Vault!Put(i, k[i]) \in Accesses
    BY <1>1, KeyTypes DEF Vault!Put, Accesses, Vault!Accounts, Stored, n
  <2> QED
    BY <1>1, <2>1
<1>3. b \in Seq(Accesses) /\ Len(b) = 1 /\ b[1] = Vault!Put(0, k)
  <2>1. Vault!Put(0, k) \in Accesses
    BY DEF Vault!Put, Accesses, Vault!Accounts, Stored
  <2> QED
    BY <2>1 DEF Vault!Manifest
<1>4. c \in Seq(Accesses) /\ Len(c) = MaxChunks - n /\ \A i \in 1..MaxChunks - n : c[i] = Vault!Del(n + i)
  <2>1. \A i \in 1..MaxChunks - n : Vault!Del(n + i) \in Accesses
    BY <1>1 DEF Vault!Del, Accesses, Vault!Accounts, Stored
  <2>2. MaxChunks - n \in Nat
    BY <1>1
  <2> QED
    BY <2>1, <2>2
<1>5. d \in Seq(Accesses) /\ Len(d) = 1 /\ d[1] = Vault!Check(k)
  <2>1. Vault!Check(k) \in Accesses
    BY DEF Vault!Check, Accesses, Vault!Accounts, Vault!Manifest, Stored
  <2> QED
    BY <2>1
<1>6. Vault!WriteKey(k) = all
  BY DEF Vault!WriteKey, n
<1> HIDE DEF a, b, c, d
<1>7. /\ ab \in Seq(Accesses) /\ Len(ab) = Len(a) + Len(b)
      /\ \A i \in 1..Len(a) + Len(b) : ab[i] = IF i <= Len(a) THEN a[i] ELSE b[i - Len(a)]
  BY <1>2, <1>3, ConcatProperties
<1> HIDE DEF ab
<1>8. /\ abc \in Seq(Accesses) /\ Len(abc) = Len(ab) + Len(c)
      /\ \A i \in 1..Len(ab) + Len(c) : abc[i] = IF i <= Len(ab) THEN ab[i] ELSE c[i - Len(ab)]
  BY <1>4, <1>7, ConcatProperties
<1> HIDE DEF abc
<1>9. /\ all \in Seq(Accesses) /\ Len(all) = Len(abc) + Len(d)
      /\ \A i \in 1..Len(abc) + Len(d) : all[i] = IF i <= Len(abc) THEN abc[i] ELSE d[i - Len(abc)]
  <2>1. abc \in Seq(Accesses) /\ d \in Seq(Accesses)
    BY <1>5, <1>8
  <2> QED
    BY <2>1, ConcatProperties
<1> HIDE DEF all
<1>10. Len(ab) = n + 1 /\ Len(abc) = MaxChunks + 1 /\ Len(all) = MaxChunks + 2
  BY <1>1, <1>2, <1>3, <1>4, <1>5, <1>7, <1>8, <1>9
<1>11. ASSUME NEW j \in 1..MaxChunks + 2 PROVE all[j] = Writes(k)[j]
  <2>1. CASE j <= n
    <3>1. all[j] = abc[j] /\ abc[j] = ab[j] /\ j \in 1..n
      BY <1>1, <1>8, <1>9, <1>10, <2>1
    <3>2. ab[j] = a[j]
      BY <1>1, <1>2, <1>3, <1>7, <3>1
    <3> QED
      BY <1>1, <1>2, <2>1, <3>1, <3>2 DEF Writes, n
  <2>2. CASE j = n + 1
    <3>1. all[j] = abc[j] /\ abc[j] = ab[j]
      BY <1>1, <1>8, <1>9, <1>10, <2>2
    <3>2. ab[j] = b[1]
      BY <1>1, <1>2, <1>3, <1>7, <2>2
    <3> QED
      BY <1>1, <1>3, <2>2, <3>1, <3>2 DEF Writes, n
  <2>3. CASE j \in n + 2..MaxChunks + 1
    <3>0. all[j] = abc[j]
      BY <1>1, <1>9, <1>10, <2>3
    <3>1. all[j] = c[j - (n + 1)] /\ j - (n + 1) \in 1..MaxChunks - n
      BY <1>1, <1>8, <1>10, <2>3, <3>0
    <3>2. c[j - (n + 1)] = Vault!Del(n + (j - (n + 1))) /\ n + (j - (n + 1)) = j - 1
      BY <1>1, <1>4, <2>3, <3>1
    <3> QED
      BY <1>1, <2>3, <3>1, <3>2 DEF Writes, n
  <2>4. CASE j = MaxChunks + 2
    BY <1>1, <1>5, <1>9, <1>10, <2>4 DEF Writes, n
  <2> QED
    BY <1>1, <2>1, <2>2, <2>3, <2>4
<1> QED
  BY <1>6, <1>9, <1>10, <1>11

VaultType ==
  /\ vault \in [Vault!Accounts -> Stored]
  /\ request \in [phase : {"idle", "password", "clear", "write", "undo", "delete", "deleteAll"},
                  new : PrivateKeys \cup Passwords \cup {None}, before : Keyed \cup {Damaged}, todo : Seq(Accesses)]
  /\ reply \in [result : {"none", "password", "write", "delete", "deleteAll", "failed", "broken"},
                new : PrivateKeys \cup Passwords \cup {None}, before : Keyed \cup {Damaged}]
  /\ request.phase = "idle" <=> request = Vault!Idle
  /\ request # Vault!Idle => reply.result = "none"

\* What p accesses of such a list have made of the store.
Written(k, p) ==
  /\ \A i \in 1..Len(k) : i <= p => vault[i] = k[i]
  /\ p > Len(k) => vault[0] = k
  /\ \A i \in 1..MaxChunks : i > Len(k) /\ i < p => vault[i] = None
Deleted(p) == \A i \in 0..MaxChunks : i < p => vault[i] = None
DeletedAll(p) ==
  /\ p > 0 => vault[Vault!Session] = None
  /\ \A i \in 0..MaxChunks : i + 1 < p => vault[i] = None

Writing(k)  == Rest(Writes(k), MaxChunks + 2) /\ Written(k, Done(MaxChunks + 2))
Deleting    == Rest(Deletes, MaxChunks + 1) /\ Deleted(Done(MaxChunks + 1))
DeletingAll == Rest(DeletesAll, MaxChunks + 3) /\ DeletedAll(Done(MaxChunks + 3))

PhaseInv ==
  /\ request.phase = "password" =>
       /\ request.new \in Passwords /\ Rest(<<Vault!Put(Vault!Session, request.new)>>, 1)
  /\ request.phase = "clear" =>
       /\ request.new \in PrivateKeys /\ request.before = Damaged /\ Deleting
       /\ Done(MaxChunks + 1) = 0 => Vault!Key(vault) = Damaged
  /\ request.phase = "write" => request.new \in PrivateKeys /\ request.before \in Keyed /\ Writing(request.new)
  /\ request.phase = "undo" =>
       /\ request.new \in PrivateKeys /\ request.before \in Keyed
       /\ IF request.before = None THEN Deleting ELSE Writing(request.before)
  /\ request.phase = "delete" => request.new = None /\ Deleting
  /\ request.phase = "deleteAll" => request.new = None /\ DeletingAll

VaultInv == VaultType /\ PhaseInv /\ Vault!KeyAtomic /\ Vault!NothingLeft

\* What is done when a list is at its end.
LEMMA WrittenKey ==
  ASSUME VaultType, NEW k \in PrivateKeys, NEW p \in Nat, p > MaxChunks, Written(k, p)
  PROVE  Vault!Key(vault) = k /\ \A i \in Len(k) + 1..MaxChunks : vault[i] = None
<1>1. vault[0] = k /\ Len(k) \in 0..MaxChunks /\ \A i \in 1..Len(k) : vault[i] = k[i]
  BY KeyTypes, ChunkBound DEF Written
<1>2. Vault!Key(vault) = k
  BY <1>1, KeyTypes DEF Vault!Key, Vault!Manifest
<1> QED
  BY <1>1, <1>2, ChunkBound DEF Written

LEMMA DeletedKey ==
  ASSUME NEW p \in Nat, p > 0, Deleted(p)
  PROVE  Vault!Key(vault) = None /\ (p > MaxChunks => \A i \in 0..MaxChunks : vault[i] = None)
BY ChunkBound DEF Deleted, Vault!Key, Vault!Manifest

\* A key is what its manifest and its chunks say, and no other account.
LEMMA KeyOfChunks ==
  ASSUME VaultType, \A i \in 0..MaxChunks : vault'[i] = vault[i]
  PROVE  (Vault!Key(vault))' = Vault!Key(vault)
BY KeyTypes, ChunkBound DEF Vault!Key, Vault!Manifest

LEMMA KeyIs == VaultType => Vault!Key(vault) \in Keyed \cup {Damaged}
BY DEF Vault!Key, Keyed

LEMMA VaultInit == Vault!Init => VaultInv
<1> SUFFICES ASSUME Vault!Init PROVE VaultInv
  OBVIOUS
<1>1. VaultType
  BY DEF Vault!Init, VaultType, Vault!Idle, Stored, Keyed
<1>2. PhaseInv
  BY DEF Vault!Init, Vault!Idle, PhaseInv
<1> QED
  BY <1>1, <1>2 DEF Vault!Init, VaultInv, Vault!KeyAtomic, Vault!NothingLeft

\* A request begins with a whole list.
LEMMA Begins ==
  ASSUME VaultInv, NEW phase \in {"password", "clear", "write", "delete", "deleteAll"},
         NEW new \in PrivateKeys \cup Passwords \cup {None}, NEW todo \in Seq(Accesses), Vault!Begin(phase, new, todo)
  PROVE  /\ VaultType' /\ Vault!KeyAtomic' /\ Vault!NothingLeft' /\ UNCHANGED vault
         /\ request'.phase = phase /\ request'.new = new /\ request'.before = Vault!Key(vault) /\ request'.todo = todo
<1>1. /\ request' = [phase |-> phase, new |-> new, before |-> Vault!Key(vault), todo |-> todo] /\ UNCHANGED vault
      /\ reply' = [result |-> "none", new |-> None, before |-> None]
  BY DEF Vault!Begin
<1>2. Vault!Key(vault) \in Keyed \cup {Damaged}
  BY KeyIs DEF VaultInv
<1>3. request' # Vault!Idle
  BY <1>1 DEF Vault!Idle
<1>4. VaultType'
  BY <1>1, <1>2, <1>3 DEF VaultInv, VaultType, Keyed
<1> QED
  BY <1>1, <1>3, <1>4 DEF Vault!KeyAtomic, Vault!NothingLeft

LEMMA Begun ==
  /\ request'.todo = Vault!DeleteKey => Deleting'
  /\ \A k \in PrivateKeys : request'.todo = Vault!WriteKey(k) => Writing(k)'
<1>1. ASSUME request'.todo = Vault!DeleteKey PROVE Deleting'
  BY <1>1, DeleteList, ChunkBound DEF Deleting, Deleted, Rest, Done
<1>2. ASSUME NEW k \in PrivateKeys, request'.todo = Vault!WriteKey(k) PROVE Writing(k)'
  BY <1>2, WriteList, KeyTypes, ChunkBound DEF Writing, Written, Rest, Done
<1> QED
  BY <1>1, <1>2

\* One access more.
LEMMA NextAccess ==
  ASSUME VaultType, request.todo # << >>, request' = [request EXCEPT !.todo = Tail(@)], NEW f, NEW n \in Nat, Rest(f, n)
  PROVE  /\ Rest(f, n)' /\ Done(n)' = Done(n) + 1 /\ Done(n) \in 0..n - 1
         /\ Head(request.todo) = f[Done(n) + 1]
<1>1. request'.todo = Tail(request.todo) /\ request.todo \in Seq(Accesses)
  BY DEF VaultType
<1>2. Len(request'.todo) = Len(request.todo) - 1 /\ Len(request.todo) \in 1..n
  BY <1>1, HeadTailProperties, EmptySeq DEF Rest
<1>3. \A j \in 1..Len(request'.todo) : request'.todo[j] = request.todo[j + 1]
  BY <1>1, HeadTailProperties
<1>4. Head(request.todo) = request.todo[1]
  BY <1>1
<1>5. Done(n)' = Done(n) + 1 /\ Done(n) \in 0..n - 1
  BY <1>2 DEF Done
<1>6. Head(request.todo) = f[Done(n) + 1]
  BY <1>2, <1>4 DEF Done, Rest
<1>7. Rest(f, n)'
  <2>1. ASSUME NEW j \in 1..Len(request'.todo) PROVE request'.todo[j] = f[n - Len(request'.todo) + j]
    <3> DEFINE a == Len(request.todo)
    <3>0. a \in 1..n /\ Len(request'.todo) = a - 1 /\ j \in 1..a - 1
      BY <1>2, <2>1
    <3> HIDE DEF a
    <3>1. j + 1 \in 1..a /\ n - a + (j + 1) = n - Len(request'.todo) + j
      BY <3>0
    <3> USE DEF a
    <3>2. request.todo[j + 1] = f[n - Len(request.todo) + (j + 1)]
      BY <3>1 DEF Rest
    <3> QED
      BY <1>3, <3>1, <3>2
  <2> QED
    BY <1>2, <2>1 DEF Rest
<1> QED
  BY <1>5, <1>6, <1>7

LEMMA Effect ==
  ASSUME VaultType, Vault!Step
  PROVE  /\ request.todo # << >> /\ request' = [request EXCEPT !.todo = Tail(@)] /\ UNCHANGED reply
         /\ request'.phase = request.phase /\ request'.new = request.new /\ request'.before = request.before
         /\ Head(request.todo).op = "check" => UNCHANGED vault
         /\ Head(request.todo).op # "check" =>
              vault' = [vault EXCEPT ![Head(request.todo).account] = Head(request.todo).value]
         /\ vault' \in [Vault!Accounts -> Stored] /\ request'.todo \in Seq(Accesses)
<1>1. request.todo \in Seq(Accesses) /\ request.todo # << >>
  BY DEF VaultType, Vault!Step
<1>2. Head(request.todo) \in Accesses /\ Tail(request.todo) \in Seq(Accesses)
  BY <1>1, HeadTailProperties
<1> QED
  BY <1>1, <1>2 DEF VaultType, Vault!Step, Accesses

LEMMA DeleteStep == ASSUME VaultType, Vault!Step, Deleting PROVE Deleting' /\ Done(MaxChunks + 1)' > 0
<1> DEFINE p == Done(MaxChunks + 1)
<1>1. /\ Rest(Deletes, MaxChunks + 1)' /\ Done(MaxChunks + 1)' = p + 1 /\ p \in 0..MaxChunks
      /\ Head(request.todo) = Deletes[p + 1]
  BY Effect, NextAccess, ChunkBound DEF Deleting
<1>2. Head(request.todo) = Vault!Del(p)
  BY <1>1, ChunkBound DEF Deletes
<1>3. vault' = [vault EXCEPT ![p] = None]
  BY <1>2, Effect DEF Vault!Del
<1> HIDE DEF p
<1>4. \A i \in 0..MaxChunks : i < p + 1 => vault'[i] = None
  BY <1>1, <1>3, ChunkBound DEF Deleting, Deleted, VaultType, Vault!Accounts, p
<1> QED
  BY <1>1, <1>4, ChunkBound DEF Deleting, Deleted

LEMMA DeleteAllStep == ASSUME VaultType, Vault!Step, DeletingAll PROVE DeletingAll'
<1> DEFINE p == Done(MaxChunks + 3)
<1>1. /\ Rest(DeletesAll, MaxChunks + 3)' /\ Done(MaxChunks + 3)' = p + 1 /\ p \in 0..MaxChunks + 2
      /\ Head(request.todo) = DeletesAll[p + 1]
  BY Effect, NextAccess, ChunkBound DEF DeletingAll
<1> USE ChunkBound DEF Vault!Session, Vault!Accounts
<1>2. DeletedAll(p)
  BY DEF DeletingAll
<1> HIDE DEF p
<1>3. CASE p = 0
  <2>1. vault' = [vault EXCEPT ![MaxChunks + 1] = None]
    BY <1>1, <1>3, Effect DEF DeletesAll, Vault!Del
  <2> QED
    BY <1>1, <1>3, <2>1 DEF DeletingAll, DeletedAll, VaultType
<1>4. CASE p \in 1..MaxChunks + 1
  <2>1. vault' = [vault EXCEPT ![p - 1] = None]
    BY <1>1, <1>4, Effect DEF DeletesAll, Vault!Del
  <2> QED
    BY <1>1, <1>2, <1>4, <2>1 DEF DeletingAll, DeletedAll, VaultType
<1>5. CASE p = MaxChunks + 2
  <2>1. UNCHANGED vault
    BY <1>1, <1>5, Effect DEF DeletesAll, Vault!Check
  <2> QED
    BY <1>1, <1>2, <1>5, <2>1 DEF DeletingAll, DeletedAll
<1> QED
  BY <1>1, <1>3, <1>4, <1>5

LEMMA WriteStep == ASSUME VaultType, Vault!Step, NEW k \in PrivateKeys, Writing(k) PROVE Writing(k)'
<1> DEFINE p == Done(MaxChunks + 2)  n == Len(k)
<1>1. /\ Rest(Writes(k), MaxChunks + 2)' /\ Done(MaxChunks + 2)' = p + 1 /\ p \in 0..MaxChunks + 1
      /\ Head(request.todo) = Writes(k)[p + 1]
  BY Effect, NextAccess, ChunkBound DEF Writing
<1>2. Written(k, p)
  BY DEF Writing
<1>3. n \in 0..MaxChunks /\ n = Len(k)
  BY KeyTypes
<1> USE ChunkBound DEF Vault!Accounts
<1> HIDE DEF p, n
<1>4. CASE p < n
  <2>1. vault' = [vault EXCEPT ![p + 1] = k[p + 1]]
    BY <1>1, <1>3, <1>4, Effect DEF Writes, Vault!Put
  <2> QED
    BY <1>1, <1>2, <1>3, <1>4, <2>1 DEF Writing, Written, VaultType
<1>5. CASE p = n
  <2>1. vault' = [vault EXCEPT ![0] = k]
    BY <1>1, <1>3, <1>5, Effect DEF Writes, Vault!Put
  <2> QED
    BY <1>1, <1>2, <1>3, <1>5, <2>1 DEF Writing, Written, VaultType
<1>6. CASE p \in n + 1..MaxChunks
  <2>1. Writes(k)[p + 1] = Vault!Del((p + 1) - 1) /\ (p + 1) - 1 = p
    BY <1>1, <1>3, <1>6 DEF Writes
  <2>2. vault' = [vault EXCEPT ![p] = None]
    BY <1>1, <2>1, Effect DEF Vault!Del
  <2>3. vault'[p] = None /\ \A i \in 0..MaxChunks : i # p => vault'[i] = vault[i]
    BY <1>6, <1>3, <2>2 DEF VaultType
  <2> QED
    BY <1>1, <1>2, <1>3, <1>6, <2>3 DEF Writing, Written
<1>7. CASE p = MaxChunks + 1
  <2>1. UNCHANGED vault
    BY <1>1, <1>3, <1>7, Effect DEF Writes, Vault!Check
  <2> QED
    BY <1>1, <1>2, <1>3, <1>7, <2>1 DEF Writing, Written
<1> QED
  BY <1>1, <1>3, <1>4, <1>5, <1>6, <1>7

LEMMA VaultStarts ==
  ASSUME VaultInv, Vault!SetPassword \/ Vault!SetKey \/ Vault!DeletePrivateKey \/ Vault!DeleteAll
  PROVE  VaultInv'
<1> USE VaultAssumption
<1>1. ASSUME Vault!SetPassword PROVE VaultInv'
  <2>1. PICK p \in Passwords : Vault!Begin("password", p, <<Vault!Put(Vault!Session, p)>>)
    BY <1>1 DEF Vault!SetPassword
  <2>2. Vault!Put(Vault!Session, p) \in Accesses
    BY DEF Vault!Put, Accesses, Vault!Session, Vault!Accounts, Stored
  <2> DEFINE todo == <<Vault!Put(Vault!Session, p)>>
  <2>3. todo \in Seq(Accesses) /\ Len(todo) = 1 /\ todo[1] = Vault!Put(Vault!Session, p)
    BY <2>2
  <2> HIDE DEF todo
  <2>4. /\ VaultType' /\ Vault!KeyAtomic' /\ Vault!NothingLeft'
        /\ request'.phase = "password" /\ request'.new = p /\ request'.todo = todo
    BY <2>1, <2>3, Begins DEF todo
  <2>5. PhaseInv'
    BY <2>3, <2>4 DEF PhaseInv, Rest, todo
  <2> QED
    BY <2>4, <2>5 DEF VaultInv
<1>2. ASSUME Vault!SetKey PROVE VaultInv'
  <2>1. PICK k \in PrivateKeys :
          IF Vault!Key(vault) = Damaged THEN Vault!Begin("clear", k, Vault!DeleteKey)
          ELSE Vault!Begin("write", k, Vault!WriteKey(k))
    BY <1>2 DEF Vault!SetKey
  <2>2. Vault!Key(vault) \in Keyed \cup {Damaged}
    BY KeyIs DEF VaultInv
  <2>3. CASE Vault!Key(vault) = Damaged
    <3>1. /\ VaultType' /\ Vault!KeyAtomic' /\ Vault!NothingLeft' /\ UNCHANGED vault
          /\ request'.phase = "clear" /\ request'.new = k /\ request'.before = Vault!Key(vault)
          /\ request'.todo = Vault!DeleteKey
      BY <2>1, <2>3, DeleteList, Begins
    <3>2. Vault!Key(vault)' = Vault!Key(vault)
      BY <3>1
    <3> QED
      BY <2>3, <3>1, <3>2, Begun DEF PhaseInv, VaultInv
  <2>4. CASE Vault!Key(vault) # Damaged
    <3>1. /\ VaultType' /\ Vault!KeyAtomic' /\ Vault!NothingLeft' /\ UNCHANGED vault
          /\ request'.phase = "write" /\ request'.new = k /\ request'.before = Vault!Key(vault)
          /\ request'.todo = Vault!WriteKey(k)
      BY <2>1, <2>4, WriteList, Begins
    <3> QED
      BY <2>2, <2>4, <3>1, Begun DEF PhaseInv, VaultInv
  <2> QED
    BY <2>3, <2>4
<1>3. ASSUME Vault!DeletePrivateKey PROVE VaultInv'
  <2>1. /\ VaultType' /\ Vault!KeyAtomic' /\ Vault!NothingLeft'
        /\ request'.phase = "delete" /\ request'.new = None /\ request'.todo = Vault!DeleteKey
    BY <1>3, DeleteList, Begins DEF Vault!DeletePrivateKey
  <2> QED
    BY <2>1, Begun DEF PhaseInv, VaultInv
<1>4. ASSUME Vault!DeleteAll PROVE VaultInv'
  <2> DEFINE all == <<Vault!Del(Vault!Session)>> \o Vault!DeleteKey \o <<Vault!Check(None)>>
  <2>1. /\ all \in Seq(Accesses) /\ Len(all) = MaxChunks + 3
        /\ \A j \in 1..MaxChunks + 3 : all[j] = DeletesAll[j]
    BY DeleteAllList
  <2>2. Vault!Begin("deleteAll", None, all)
    BY <1>4 DEF Vault!DeleteAll
  <2> HIDE DEF all
  <2>3. /\ VaultType' /\ Vault!KeyAtomic' /\ Vault!NothingLeft'
        /\ request'.phase = "deleteAll" /\ request'.new = None /\ request'.todo = all
    BY <2>1, <2>2, Begins
  <2>4. DeletingAll'
    BY <2>1, <2>3, ChunkBound DEF DeletingAll, DeletedAll, Rest, Done
  <2> QED
    BY <2>3, <2>4 DEF PhaseInv, VaultInv
<1> QED
  BY <1>1, <1>2, <1>3, <1>4

\* A request that ends is answered, and the answer is true.
LEMMA Answers ==
  ASSUME VaultInv, request # Vault!Idle, NEW result \in {"password", "write", "delete", "deleteAll", "failed", "broken"},
         Vault!Answer(result), vault' \in [Vault!Accounts -> Stored],
         result = "write" => /\ Vault!Key(vault)' = request.new
                             /\ \A i \in Len(request.new) + 1..MaxChunks : vault'[i] = None,
         result = "failed" /\ request.new \in PrivateKeys =>
           /\ Vault!Key(vault)' = request.before \/ (request.before = Damaged /\ Vault!Key(vault)' = None)
           /\ request.before = None => \A i \in 0..MaxChunks : vault'[i] = None,
         result \in {"delete", "deleteAll"} => \A i \in 0..MaxChunks : vault'[i] = None,
         result = "deleteAll" => vault'[Vault!Session] = None
  PROVE  VaultInv'
<1>1. /\ request' = Vault!Idle
      /\ reply' = [result |-> result, new |-> request.new, before |-> request.before]
  BY DEF Vault!Answer
<1>2. VaultType'
  BY <1>1 DEF VaultInv, VaultType, Vault!Idle, Keyed
<1>3. PhaseInv'
  BY <1>1 DEF PhaseInv, Vault!Idle
<1>4. Vault!KeyAtomic' /\ Vault!NothingLeft'
  BY <1>1 DEF Vault!KeyAtomic, Vault!NothingLeft
<1> QED
  BY <1>2, <1>3, <1>4 DEF VaultInv

\* The next list of accesses of the same request.
LEMMA Follows ==
  ASSUME VaultInv, request # Vault!Idle, NEW phase \in {"write", "undo"}, NEW before \in Keyed, NEW todo \in Seq(Accesses),
         request.new \in PrivateKeys,
         request' = [request EXCEPT !.phase = phase, !.before = before, !.todo = todo],
         UNCHANGED reply, vault' \in [Vault!Accounts -> Stored],
         IF phase = "write" THEN todo = Vault!WriteKey(request.new)
         ELSE todo = IF before = None THEN Vault!DeleteKey ELSE Vault!WriteKey(before)
  PROVE  VaultInv'
<1>1. request'.phase = phase /\ request'.before = before /\ request'.todo = todo /\ request'.new = request.new
  BY DEF VaultInv, VaultType
<1>2. request' # Vault!Idle /\ request' \in [phase : {"write", "undo"},
                  new : PrivateKeys \cup Passwords \cup {None}, before : Keyed \cup {Damaged}, todo : Seq(Accesses)]
  BY <1>1 DEF VaultInv, VaultType, Vault!Idle
<1>3. VaultType'
  BY <1>1, <1>2 DEF VaultInv, VaultType
<1>4. PhaseInv'
  BY <1>1, Begun DEF PhaseInv, Keyed
<1> QED
  BY <1>2, <1>3, <1>4 DEF VaultInv, Vault!KeyAtomic, Vault!NothingLeft

\* A request whose access has failed is answered, or its key is put back.
LEMMA Fails ==
  ASSUME VaultInv, request.todo # << >>, Vault!AfterFailure, vault' \in [Vault!Accounts -> Stored],
         request.phase = "clear" => UNCHANGED vault
  PROVE  VaultInv'
<1>1. request # Vault!Idle /\ request.phase # "idle"
  BY DEF Vault!Idle, VaultInv, VaultType
<1>2. CASE request.phase = "write"
  <2>1. /\ request.new \in PrivateKeys /\ request.before \in Keyed
        /\ request' = [request EXCEPT !.phase = "undo", !.todo = Vault!Undo(request.before)] /\ UNCHANGED reply
    BY <1>2 DEF VaultInv, PhaseInv, Vault!AfterFailure
  <2>2. request' = [request EXCEPT !.phase = "undo", !.before = request.before, !.todo = Vault!Undo(request.before)]
    BY <2>1 DEF VaultInv, VaultType
  <2>3. Vault!Undo(request.before) \in Seq(Accesses)
    BY <2>1, DeleteList, WriteList DEF Vault!Undo, Keyed
  <2> QED
    BY <1>1, <2>1, <2>2, <2>3, Follows DEF Vault!Undo
<1>3. CASE request.phase = "undo"
  BY <1>1, <1>3, Answers DEF Vault!AfterFailure
<1>4. CASE request.phase = "clear"
  <2>1. request.before = Damaged /\ (Vault!Key(vault) = Damaged \/ Vault!Key(vault) = None)
    <3>1. Deleting /\ (Done(MaxChunks + 1) = 0 => Vault!Key(vault) = Damaged) /\ request.before = Damaged
      BY <1>4 DEF VaultInv, PhaseInv
    <3>2. Done(MaxChunks + 1) \in Nat
      BY <3>1, ChunkBound DEF Deleting, Rest, Done, VaultInv, VaultType
    <3> QED
      BY <3>1, <3>2, DeletedKey DEF Deleting
  <2>2. Vault!Key(vault)' = Vault!Key(vault)
    BY <1>4
  <2> QED
    BY <1>1, <1>4, <2>1, <2>2, Answers, VaultAssumption DEF Vault!AfterFailure
<1>5. CASE request.phase \in {"password", "delete", "deleteAll"}
  <2>1. request.new \notin PrivateKeys
    BY <1>5, VaultAssumption DEF VaultInv, PhaseInv
  <2> QED
    BY <1>1, <1>5, <2>1, Answers DEF Vault!AfterFailure
<1> QED
  BY <1>1, <1>2, <1>3, <1>4, <1>5 DEF VaultInv, VaultType

LEMMA NextOf ==
  ASSUME VaultType, request.todo # << >>, NEW f, NEW n \in Nat, Rest(f, n)
  PROVE  \E j \in 1..n : Head(request.todo) = f[j]
<1>1. request.todo \in Seq(Accesses)
  BY DEF VaultType
<1> DEFINE a == Len(request.todo)
<1>2. a \in Nat \ {0}
  BY <1>1, EmptySeq
<1>3. a <= n
  BY DEF Rest
<1>4. Head(request.todo) = request.todo[1]
  BY <1>1
<1>5. 1 \in 1..a
  BY <1>2
<1>6. request.todo[1] = f[n - a + 1]
  BY <1>5 DEF Rest
<1> HIDE DEF a
<1>7. n - a + 1 \in 1..n
  BY <1>2, <1>3
<1> QED
  BY <1>4, <1>6, <1>7

LEMMA VaultAccess == ASSUME VaultInv, Vault!Step PROVE VaultInv'
<1>1. VaultType /\ request # Vault!Idle
  BY DEF VaultInv, Vault!Step, Vault!Idle
<1>2. /\ request.todo # << >> /\ request' = [request EXCEPT !.todo = Tail(@)] /\ UNCHANGED reply
      /\ request'.phase = request.phase /\ request'.new = request.new /\ request'.before = request.before
      /\ vault' \in [Vault!Accounts -> Stored] /\ request'.todo \in Seq(Accesses)
  BY <1>1, Effect
<1>3. VaultType' /\ request' # Vault!Idle
  BY <1>1, <1>2 DEF VaultType, Vault!Idle
<1>4. PhaseInv'
  <2>1. CASE request.phase = "password"
    <3>1. PICK f : f = <<Vault!Put(Vault!Session, request.new)>>
      OBVIOUS
    <3>2. Rest(f, 1) /\ request.new \in Passwords
      BY <2>1, <3>1 DEF VaultInv, PhaseInv
    <3>3. Rest(f, 1)'
      BY <1>1, <1>2, <3>2, NextAccess
    <3>4. Rest(<<Vault!Put(Vault!Session, request.new)>>, 1)'
      BY <1>2, <3>1, <3>3 DEF Rest
    <3> QED
      BY <1>2, <2>1, <3>2, <3>4 DEF PhaseInv
  <2>2. CASE request.phase = "clear"
    BY <1>1, <1>2, <2>2, DeleteStep DEF PhaseInv, VaultInv
  <2>3. CASE request.phase = "write"
    BY <1>1, <1>2, <2>3, WriteStep DEF PhaseInv, VaultInv
  <2>4. CASE request.phase = "undo"
    <3>1. /\ request.new \in PrivateKeys /\ request.before \in Keyed
          /\ IF request.before = None THEN Deleting ELSE Writing(request.before)
      BY <2>4 DEF PhaseInv, VaultInv
    <3>2. CASE request.before = None
      <4>1. Deleting'
        BY <1>1, <3>1, <3>2, DeleteStep
      <4> QED
        BY <1>2, <2>4, <3>1, <3>2, <4>1 DEF PhaseInv
    <3>3. CASE request.before # None
      <4>1. PICK k \in PrivateKeys : k = request.before
        BY <3>1, <3>3 DEF Keyed
      <4>2. request'.before = k /\ Writing(k)
        BY <1>2, <3>1, <3>3, <4>1
      <4>3. Writing(k)'
        BY <1>1, <4>2, WriteStep
      <4>4. Writing(request.before)'
        BY <4>2, <4>3 DEF Writing, Written, Rest, Done
      <4> QED
        BY <1>2, <2>4, <3>1, <3>3, <4>4 DEF PhaseInv
    <3> QED
      BY <3>2, <3>3
  <2>5. CASE request.phase = "delete"
    BY <1>1, <1>2, <2>5, DeleteStep DEF PhaseInv, VaultInv
  <2>6. CASE request.phase = "deleteAll"
    BY <1>1, <1>2, <2>6, DeleteAllStep DEF PhaseInv, VaultInv
  <2> QED
    BY <1>1, <2>1, <2>2, <2>3, <2>4, <2>5, <2>6, <1>2 DEF VaultType, Vault!Idle
<1> QED
  BY <1>3, <1>4 DEF VaultInv, Vault!KeyAtomic, Vault!NothingLeft

LEMMA VaultFinish == ASSUME VaultInv, Vault!Finish PROVE VaultInv'
<1>1. /\ request # Vault!Idle /\ request.todo = << >> /\ UNCHANGED vault /\ VaultType /\ request.phase # "idle"
      /\ vault' \in [Vault!Accounts -> Stored] /\ Len(request.todo) = 0
  BY DEF Vault!Finish, VaultInv, VaultType
<1>2. Done(MaxChunks + 1) = MaxChunks + 1 /\ Done(MaxChunks + 2) = MaxChunks + 2 /\ Done(MaxChunks + 3) = MaxChunks + 3
  BY <1>1, ChunkBound DEF Done
<1>3. Vault!Key(vault)' = Vault!Key(vault)
  BY <1>1
<1>4. ASSUME Deleting
      PROVE  Vault!Key(vault) = None /\ \A i \in 0..MaxChunks : vault[i] = None
  <2>1. Deleted(MaxChunks + 1)
    BY <1>2, <1>4 DEF Deleting
  <2> QED
    BY <2>1, DeletedKey, ChunkBound
<1>5. ASSUME NEW k \in PrivateKeys, Writing(k)
      PROVE  Vault!Key(vault) = k /\ \A i \in Len(k) + 1..MaxChunks : vault[i] = None
  <2>1. Written(k, MaxChunks + 2)
    BY <1>2, <1>5 DEF Writing
  <2> QED
    BY <1>1, <2>1, WrittenKey, ChunkBound
<1>6. CASE request.phase = "clear"
  <2>1. request' = [request EXCEPT !.phase = "write", !.before = None, !.todo = Vault!WriteKey(request.new)] /\ UNCHANGED reply
    BY <1>6 DEF Vault!Finish
  <2>2. request.new \in PrivateKeys
    BY <1>6 DEF VaultInv, PhaseInv
  <2> QED
    BY <1>1, <2>1, <2>2, WriteList, Follows DEF Keyed
<1>7. CASE request.phase = "undo"
  <2>1. Vault!Answer("failed")
    BY <1>7 DEF Vault!Finish
  <2>2. request.before \in Keyed /\ IF request.before = None THEN Deleting ELSE Writing(request.before)
    BY <1>7 DEF VaultInv, PhaseInv
  <2>3. Vault!Key(vault) = request.before /\ (request.before = None => \A i \in 0..MaxChunks : vault[i] = None)
    BY <2>2, <1>4, <1>5 DEF Keyed
  <2> QED
    BY <1>1, <1>3, <2>1, <2>3, Answers
<1>8. CASE request.phase = "write"
  <2>1. Vault!Answer("write")
    BY <1>8 DEF Vault!Finish
  <2>2. request.new \in PrivateKeys /\ Writing(request.new)
    BY <1>8 DEF VaultInv, PhaseInv
  <2>3. /\ Vault!Key(vault)' = request.new
        /\ \A i \in Len(request.new) + 1..MaxChunks : vault'[i] = None
    BY <1>1, <1>3, <1>5, <2>2
  <2> QED
    BY <1>1, <2>1, <2>3, Answers
<1>9. CASE request.phase = "password"
  BY <1>1, <1>9, Answers DEF Vault!Finish
<1>10. CASE request.phase = "delete"
  <2>1. \A i \in 0..MaxChunks : vault'[i] = None
    BY <1>1, <1>4, <1>10 DEF VaultInv, PhaseInv
  <2> QED
    BY <1>1, <1>10, <2>1, Answers DEF Vault!Finish
<1>11. CASE request.phase = "deleteAll"
  <2>1. DeletedAll(MaxChunks + 3)
    BY <1>2, <1>11 DEF VaultInv, PhaseInv, DeletingAll
  <2>2. vault'[Vault!Session] = None /\ \A i \in 0..MaxChunks : vault'[i] = None
    BY <1>1, <2>1, ChunkBound DEF DeletedAll
  <2> QED
    BY <1>1, <1>11, <2>2, Answers DEF Vault!Finish
<1> QED
  BY <1>1, <1>6, <1>7, <1>8, <1>9, <1>10, <1>11 DEF VaultType

LEMMA VaultStep == VaultInv /\ [Vault!Next]_vaultVars => VaultInv'
<1> SUFFICES ASSUME VaultInv, [Vault!Next]_vaultVars PROVE VaultInv'
  OBVIOUS
<1>1. CASE Vault!SetPassword \/ Vault!SetKey \/ Vault!DeletePrivateKey \/ Vault!DeleteAll
  BY <1>1, VaultStarts
<1>2. CASE Vault!Step
  BY <1>2, VaultAccess
<1>3. CASE Vault!StepFails
  BY <1>3, Fails DEF Vault!StepFails, VaultInv, VaultType
<1>4. CASE Vault!PutBreaks
  <2>1. request.todo # << >> /\ Head(request.todo).op = "put" /\ request # Vault!Idle
    BY <1>4 DEF Vault!PutBreaks, Vault!Idle
  <2>2. Head(request.todo) \in Accesses
    BY <2>1, HeadTailProperties DEF VaultInv, VaultType
  <2>3. vault' \in [Vault!Accounts -> Stored]
    BY <1>4, <2>2 DEF Vault!PutBreaks, Accesses, Stored, VaultInv, VaultType
  <2>4. request.phase # "clear"
    <3> SUFFICES ASSUME request.phase = "clear" PROVE FALSE
      OBVIOUS
    <3>1. Rest(Deletes, MaxChunks + 1)
      BY DEF VaultInv, PhaseInv, Deleting
    <3>2. PICK j \in 1..MaxChunks + 1 : Head(request.todo) = Deletes[j]
      BY <2>1, <3>1, ChunkBound, NextOf DEF VaultInv
    <3>3. Deletes[j] = Vault!Del(j - 1)
      BY DEF Deletes
    <3> QED
      BY <2>1, <3>2, <3>3 DEF Vault!Del
  <2>5. CASE request.phase = "password"
    <3>1. Vault!Answer("broken")
      BY <1>4, <2>5 DEF Vault!PutBreaks
    <3> QED
      BY <2>1, <2>3, <3>1, Answers
  <2>6. CASE request.phase # "password"
    <3>1. Vault!AfterFailure
      BY <1>4, <2>6 DEF Vault!PutBreaks
    <3> QED
      BY <2>1, <2>3, <2>4, <3>1, Fails
  <2> QED
    BY <2>5, <2>6
<1>5. CASE Vault!Finish
  BY <1>5, VaultFinish
<1>6. CASE Vault!Crash
  <2>1. request' = Vault!Idle /\ UNCHANGED <<vault, reply>> /\ reply.result = "none"
    BY <1>6 DEF Vault!Crash, VaultInv, VaultType
  <2>2. VaultType' /\ PhaseInv'
    BY <2>1 DEF VaultInv, VaultType, PhaseInv, Vault!Idle, Keyed
  <2> QED
    BY <2>1, <2>2 DEF VaultInv, Vault!KeyAtomic, Vault!NothingLeft
<1>7. CASE UNCHANGED vaultVars
  <2>1. UNCHANGED <<vault, request, reply>>
    BY <1>7 DEF vaultVars
  <2>2. VaultType'
    BY <2>1 DEF VaultInv, VaultType
  <2>3. PhaseInv'
    BY <2>1 DEF VaultInv, PhaseInv, Writing, Deleting, DeletingAll, Written, Deleted, DeletedAll, Rest, Done, Vault!Key, Vault!Manifest
  <2>4. Vault!KeyAtomic' /\ Vault!NothingLeft'
    BY <2>1 DEF VaultInv, Vault!KeyAtomic, Vault!NothingLeft, Vault!Key
  <2> QED
    BY <2>2, <2>3, <2>4 DEF VaultInv
<1> QED
  BY <1>1, <1>2, <1>3, <1>4, <1>5, <1>6, <1>7 DEF Vault!Next
-----------------------------------------------------------------------------
\* Sessions and their secrets.
Secrets   == [cred : Passwords \cup {None, Bad}, key : Pasted \cup {None, Bad}]
Changing(S) == {Saved!Keep, Saved!Delete} \cup {Saved!Set(x) : x \in S}
Lists     == [auth : [Ids -> Saved!Auths \cup {None}], asked : SUBSET Ids, pending : SUBSET Ids]
Edits     == {"key", "cred", "state", "save", "undoKey", "undoCred"}
Calls ==
  [op : {"none", "create", "update", "delete", "retry", "login"},
   pc : Edits \cup {"", "cleanup", "login", "asked", "wipe"}, ids : SUBSET Ids, auth : Saved!Auths \cup {None},
   change : [cred : Changing(Passwords), key : Changing(Pasted)], before : Secrets, left : SUBSET Ids, broke : BOOLEAN]

SessionType ==
  /\ list \in Lists /\ listDisk \in Lists /\ secret \in [Ids -> Secrets] /\ spoiled \subseteq Ids
  /\ call \in Calls
  /\ answer \in [how : {"none", "failed"}, id : Ids \cup {None}, before : Secrets]
  /\ answer.how = "failed" => answer.id \in Ids
  /\ IF call.op = "none" THEN call = Saved!NoTask ELSE answer = Saved!NotYet
  /\ call.op \in {"create", "update"} => call.pc \in Edits \cup {"cleanup"}
  /\ call.op = "update" => call.pc # "cleanup"
  /\ call.op = "login" => call.pc \in {"login", "asked"}
  /\ call.op \in {"delete", "retry"} => call.pc = "wipe"

\* The file has the sessions of memory; it may lack a clean-up that could not be saved.
ListInv ==
  /\ listDisk.auth = list.auth /\ listDisk.pending \subseteq list.pending
  /\ Saved!Live(list) \cap list.pending = {}

\* The secrets s are what sessions that authenticate as a have.
Fits(a, s) ==
  /\ s.key # Bad /\ (s.key # None <=> a.source = "inline")
  /\ a.source # "password" /\ ~a.phrase => s.cred = None
FitInv == \A id \in Saved!Live(list) \ (spoiled \cup call.ids) : Fits(list.auth[id], secret[id])

OwnedInv ==
  \A id \in Ids : secret[id] # Saved!NoSecret => id \in Saved!Live(list) \cup list.pending \cup call.ids \cup spoiled

\* How far a call has come with the secrets of its session.
After(c, s) == [cred |-> Saved!Apply(c.cred, s.cred), key |-> Saved!Apply(c.key, s.key)]
Progress(id) ==
  /\ call.op \in {"update", "login"} => Fits(list.auth[id], call.before)
  /\ call.op \in {"create", "update"} => Fits(call.auth, After(call.change, call.before))
  /\ call.op = "login" => list.auth[id].source = "password" /\ call.change.key = Saved!Keep
  /\ call.pc \in {"key", "login"} => secret[id] = call.before
  /\ call.pc = "cred" => secret[id] = [cred |-> call.before.cred, key |-> After(call.change, call.before).key]
  /\ call.pc \in {"state", "save", "asked"} => secret[id] = After(call.change, call.before)
  /\ call.pc = "undoCred" /\ ~call.broke => secret[id].key = call.before.key

OneInv ==
  call.op \in {"create", "update", "login"} =>
    \E id \in Ids :
      /\ call.ids = {id}
      /\ call.op = "create" => /\ id \notin Saved!Live(list) \cup list.pending \cup spoiled
                               /\ call.before = Saved!NoSecret /\ call.auth # None
      /\ call.op = "update" => call.auth # None
      /\ call.op \in {"update", "login"} => id \in Saved!Live(list)
      /\ id \notin spoiled => Progress(id)

\* A clean-up works on what is queued, and what it has behind it is gone.
WipeInv ==
  call.op \in {"delete", "retry"} =>
    /\ call.left \subseteq call.ids /\ call.ids \subseteq list.pending
    /\ \A id \in call.ids \ call.left : secret[id] = Saved!NoSecret

UndoneInv == answer.how = "failed" /\ answer.id \notin spoiled => secret[answer.id] = answer.before

SessionInv == SessionType /\ ListInv /\ FitInv /\ OwnedInv /\ OneInv /\ WipeInv /\ UndoneInv

LEMMA TheOne == ASSUME NEW id, call.ids = {id} PROVE Saved!The(call) = id
BY DEF Saved!The

LEMMA ApplyType ==
  ASSUME NEW S, NEW c \in Changing(S), NEW old \in S \cup {None, Bad}
  PROVE  Saved!Apply(c, old) \in S \cup {None, Bad}
BY DEF Changing, Saved!Apply, Saved!Keep, Saved!Delete, Saved!Set

LEMMA AfterType ==
  ASSUME NEW c \in [cred : Changing(Passwords), key : Changing(Pasted)], NEW s \in Secrets
  PROVE  After(c, s) \in Secrets
BY ApplyType DEF After, Secrets

\* What may be changed together with the way to authenticate.
LEMMA FileChanges ==
  ASSUME NEW old, NEW had, NEW new, NEW c \in Saved!Changes(old, had, new), new.source = "file"
  PROVE  \E same \in BOOLEAN :
           /\ same => old # None /\ old.source = "file"
           /\ c \in [cred : IF new.phrase THEN Saved!NewPhrase(same, had.cred) ELSE {Saved!NoPhrase(old, same)},
                     key  : {Saved!OldKey(old)}]
<1> DEFINE X(same) == [cred : IF new.phrase THEN Saved!NewPhrase(same, had.cred) ELSE {Saved!NoPhrase(old, same)},
                     key  : {Saved!OldKey(old)}]
           S == IF old # None /\ old.source = "file" THEN BOOLEAN ELSE {FALSE}
<1>1. c \in UNION {X(same) : same \in S}
  BY DEF Saved!Changes
<1> HIDE DEF X
<1>2. PICK same \in S : c \in X(same)
  BY <1>1
<1> QED
  BY <1>2 DEF X

LEMMA InlineChanges ==
  ASSUME NEW old, NEW had, NEW new, NEW c \in Saved!Changes(old, had, new), new.source = "inline"
  PROVE  \E same \in BOOLEAN :
           /\ same => old # None /\ old.source = "inline" /\ had.key \in Pasted
           /\ c \in [cred : IF new.phrase THEN Saved!NewPhrase(same, had.cred) ELSE {Saved!NoPhrase(old, same)},
                     key  : IF same THEN {Saved!Keep} ELSE {Saved!Set(k) : k \in Pasted}]
BY DEF Saved!Changes

LEMMA ChangesType ==
  ASSUME NEW old \in Saved!Auths \cup {None}, NEW had \in Secrets, NEW new \in Saved!Auths,
         NEW c \in Saved!Changes(old, had, new)
  PROVE  c \in [cred : Changing(Passwords), key : Changing(Pasted)]
<1> USE DEF Changing
<1>1. /\ \A same \in BOOLEAN : Saved!NewPhrase(same, had.cred) \subseteq Changing(Passwords)
      /\ \A same \in BOOLEAN : Saved!NoPhrase(old, same) \in Changing(Passwords)
      /\ Saved!OldKey(old) \in Changing(Pasted)
  BY DEF Saved!NewPhrase, Saved!NoPhrase, Saved!OldKey
<1>2. CASE new.source = "password"
  BY <1>2 DEF Saved!Changes
<1>3. CASE new.source = "file"
  <2>1. PICK same \in BOOLEAN :
          c \in [cred : IF new.phrase THEN Saved!NewPhrase(same, had.cred) ELSE {Saved!NoPhrase(old, same)},
                 key  : {Saved!OldKey(old)}]
    BY <1>3, FileChanges
  <2> QED
    BY <1>1, <2>1
<1>4. CASE new.source = "inline"
  <2>1. PICK same \in BOOLEAN :
          c \in [cred : IF new.phrase THEN Saved!NewPhrase(same, had.cred) ELSE {Saved!NoPhrase(old, same)},
                 key  : IF same THEN {Saved!Keep} ELSE {Saved!Set(k) : k \in Pasted}]
    BY <1>4, InlineChanges
  <2> QED
    BY <1>1, <2>1
<1> QED
  BY <1>2, <1>3, <1>4 DEF Saved!Auths

LEMMA ChangesFit ==
  ASSUME NEW old \in Saved!Auths \cup {None}, NEW had \in Secrets, NEW new \in Saved!Auths,
         NEW c \in Saved!Changes(old, had, new),
         IF old = None THEN had = Saved!NoSecret ELSE Fits(old, had)
  PROVE  Fits(new, After(c, had))
<1> USE SecretAssumption DEF Fits, After, Saved!Apply, Saved!Keep, Saved!Delete, Saved!Set, Saved!NoSecret
<1>1. CASE new.source = "password"
  BY <1>1 DEF Saved!Changes, Saved!Auths
<1>2. CASE new.source = "file"
  <2>1. c.key = Saved!OldKey(old) /\ (~new.phrase => \E same \in BOOLEAN :
          c.cred = Saved!NoPhrase(old, same) /\ (same => old # None /\ old.source = "file"))
    BY <1>2, FileChanges
  <2>2. After(c, had).key = None
    BY <2>1 DEF Saved!OldKey, Saved!Auths
  <2>3. ~new.phrase => After(c, had).cred = None
    BY <2>1 DEF Saved!NoPhrase, Saved!Auths
  <2> QED
    BY <1>2, <2>2, <2>3
<1>3. CASE new.source = "inline"
  <2>1. PICK same \in BOOLEAN :
          /\ same => old # None /\ old.source = "inline" /\ had.key \in Pasted
          /\ c \in [cred : IF new.phrase THEN Saved!NewPhrase(same, had.cred) ELSE {Saved!NoPhrase(old, same)},
                    key  : IF same THEN {Saved!Keep} ELSE {Saved!Set(k) : k \in Pasted}]
    BY <1>3, InlineChanges
  <2>2. /\ (\E k \in Pasted : c.key = Saved!Set(k)) \/ (c.key = Saved!Keep /\ had.key \in Pasted)
        /\ ~new.phrase => c.cred = Saved!NoPhrase(old, same)
    BY <2>1
  <2>3. After(c, had).key \in Pasted
    <3>1. CASE \E k \in Pasted : c.key = Saved!Set(k)
      BY <3>1
    <3>2. CASE c.key = Saved!Keep /\ had.key \in Pasted
      BY <3>2
    <3> QED
      BY <2>2, <3>1, <3>2
  <2>4. ~new.phrase => After(c, had).cred = None
    BY <2>1, <2>2 DEF Saved!NoPhrase, Saved!Auths
  <2> QED
    BY <1>3, <2>3, <2>4
<1> QED
  BY <1>1, <1>2, <1>3 DEF Saved!Auths

LEMMA SessionInit == Saved!Init => SessionInv
<1> SUFFICES ASSUME Saved!Init PROVE SessionInv
  OBVIOUS
<1> USE DEF Saved!Init, Saved!NoTask, Saved!NoSecret, Saved!NotYet
<1>1. SessionType
  BY DEF SessionType, Calls, Lists, Secrets, Changing
<1>2. ListInv /\ FitInv /\ OwnedInv
  BY DEF ListInv, FitInv, OwnedInv, Saved!Live, Saved!Exists
<1>3. OneInv /\ WipeInv /\ UndoneInv
  BY DEF OneInv, WipeInv, UndoneInv
<1> QED
  BY <1>1, <1>2, <1>3 DEF SessionInv

\* A call about one session begins.
LEMMA CallBegins ==
  ASSUME SessionInv, NEW what \in {"create", "update", "login"}, NEW id \in Ids, NEW auth \in Saved!Auths,
         NEW change \in [cred : Changing(Passwords), key : Changing(Pasted)], NEW before \in Secrets,
         Saved!Begin(what, IF what = "login" THEN "login" ELSE "key", {id}, auth, change, before),
         UNCHANGED <<list, listDisk, secret>>,
         what = "create" => id \notin Saved!Live(list) \cup list.pending \cup spoiled /\ before = Saved!NoSecret,
         what # "create" => id \in Saved!Live(list),
         id \notin spoiled =>
           /\ what \in {"update", "login"} => Fits(list.auth[id], before)
           /\ what \in {"create", "update"} => Fits(auth, After(change, before))
           /\ what = "login" => list.auth[id].source = "password" /\ change.key = Saved!Keep
           /\ secret[id] = before
  PROVE  SessionInv'
<1> DEFINE pc == IF what = "login" THEN "login" ELSE "key"
<1>1. /\ call = Saved!NoTask /\ UNCHANGED <<list, listDisk, secret, spoiled>> /\ answer' = Saved!NotYet
      /\ call' = [op |-> what, pc |-> pc, ids |-> {id}, auth |-> auth, change |-> change,
                  before |-> before, left |-> {id}, broke |-> FALSE]
  BY DEF Saved!Begin, Saved!NoTask
<1>2. SessionType'
  BY <1>1 DEF SessionInv, SessionType, Calls, Edits, Saved!NotYet, Saved!NoSecret, Secrets
<1> DEFINE live == Saved!Live(list)
<1>3. live' = live
  BY <1>1
<1> HIDE DEF live
<1>4. ListInv'
  BY <1>3, <1>1 DEF SessionInv, ListInv, live
<1>5. FitInv' /\ OwnedInv'
  BY <1>3, <1>1 DEF SessionInv, FitInv, OwnedInv, live, Saved!NoTask, Fits
<1>6. OneInv'
  <2>1. id \notin spoiled => Progress(id)'
    BY <1>1 DEF Progress, Fits, After
  <2>2. auth # None
    BY SecretAssumption DEF Saved!Auths
  <2> QED
    BY <1>3, <1>1, <2>1, <2>2 DEF OneInv, live
<1>7. WipeInv' /\ UndoneInv'
  BY <1>1 DEF WipeInv, UndoneInv, Saved!NotYet
<1> QED
  BY <1>2, <1>4, <1>5, <1>6, <1>7 DEF SessionInv

\* A call goes on with the secrets of its session.
LEMMA CallGoes ==
  ASSUME SessionInv, call.op \in {"create", "update", "login"}, NEW id \in Ids, call.ids = {id},
         NEW pc \in Edits \cup {"cleanup", "asked"}, NEW broke \in BOOLEAN,
         call' = [call EXCEPT !.pc = pc, !.broke = broke], UNCHANGED <<list, listDisk, answer, spoiled>>,
         pc = "cleanup" => call.op = "create", pc = "asked" <=> call.op = "login",
         secret' \in [Ids -> Secrets], \A j \in Ids \ {id} : secret'[j] = secret[j],
         id \notin spoiled =>
           /\ pc # "key"
           /\ pc = "cred" => secret'[id] = [cred |-> call.before.cred, key |-> After(call.change, call.before).key]
           /\ pc \in {"state", "save", "asked"} => secret'[id] = After(call.change, call.before)
           /\ pc = "undoCred" /\ ~broke => secret'[id].key = call.before.key
  PROVE  SessionInv'
<1>1. /\ call'.op = call.op /\ call'.ids = call.ids /\ call'.auth = call.auth /\ call'.change = call.change
      /\ call'.before = call.before /\ call'.left = call.left /\ call'.pc = pc /\ call'.broke = broke
      /\ call' \in Calls
  <2>1. call \in Calls
    BY DEF SessionInv, SessionType, Calls
  <2> QED
    BY <2>1 DEF Calls, Edits
<1>2. SessionType'
  BY <1>1 DEF SessionInv, SessionType, Calls, Edits
<1> DEFINE live == Saved!Live(list)
<1>3. live' = live
  OBVIOUS
<1> HIDE DEF live
<1>4. ListInv'
  BY <1>3, <1>1 DEF SessionInv, ListInv, live
<1>5. FitInv' /\ OwnedInv'
  <2>1. live \subseteq Ids
    BY DEF live, Saved!Live
  <2>2. FitInv'
    <3>1. \A j \in live \ (spoiled \cup {id}) : Fits(list.auth[j], secret[j])
      BY DEF SessionInv, FitInv, live
    <3>2. \A j \in live \ (spoiled \cup {id}) : Fits(list'.auth[j], secret'[j])
      BY <2>1, <3>1
    <3> QED
      BY <1>3, <1>1, <3>2 DEF FitInv, live, Fits
  <2>3. OwnedInv'
    BY <1>3, <1>1 DEF SessionInv, OwnedInv, live
  <2> QED
    BY <2>2, <2>3
<1>6. OneInv'
  <2>1. id \notin spoiled => Progress(id)
    BY DEF SessionInv, OneInv
  <2>2. id \notin spoiled => Progress(id)'
    BY <1>1, <2>1 DEF Progress, Fits, After, Edits
  <2> QED
    <3>1. /\ call.op = "create" => /\ id \notin live \cup list.pending \cup spoiled
                                   /\ call.before = Saved!NoSecret /\ call.auth # None
          /\ call.op = "update" => call.auth # None
          /\ call.op \in {"update", "login"} => id \in live
      BY DEF SessionInv, OneInv, live
    <3> QED
      BY <1>3, <1>1, <2>2, <3>1 DEF OneInv, live
<1>7. WipeInv' /\ UndoneInv'
  <2>1. answer.how = "none"
    <3>1. answer = Saved!NotYet
      BY DEF SessionInv, SessionType, Calls
    <3> QED
      BY <3>1 DEF Saved!NotYet
  <2> QED
    BY <1>1, <2>1 DEF WipeInv, UndoneInv
<1> QED
  BY <1>2, <1>4, <1>5, <1>6, <1>7 DEF SessionInv

\* A call ends with an answer.
LEMMA CallEnds ==
  ASSUME SessionInv, call.op \in {"create", "update", "login"}, NEW id \in Ids, call.ids = {id},
         NEW how \in {"done", "failed", "broken"}, Saved!Answer(how),
         list' \in Lists, listDisk' \in Lists, secret' \in [Ids -> Secrets],
         listDisk'.auth = list'.auth, listDisk'.pending \subseteq list'.pending,
         \A j \in Ids \ {id} : list'.auth[j] = list.auth[j] /\ secret'[j] = secret[j]
                               /\ (j \in list'.pending <=> j \in list.pending),
         id \in list'.pending => list'.auth[id] = None,
         how # "broken" /\ id \notin spoiled =>
           /\ list'.auth[id] # None => Fits(list'.auth[id], secret'[id])
           /\ secret'[id] # Saved!NoSecret => list'.auth[id] # None \/ id \in list'.pending
           /\ how = "failed" /\ call.op # "create" => secret'[id] = call.before
  PROVE  SessionInv'
<1>1. /\ call' = Saved!NoTask /\ spoiled' = IF how = "broken" THEN spoiled \cup {id} ELSE spoiled
      /\ answer' = IF how = "failed" /\ call.op # "create" THEN [how |-> how, id |-> id, before |-> call.before] ELSE Saved!NotYet
  BY TheOne DEF Saved!Answer
<1>2. SessionType'
  BY <1>1 DEF SessionInv, SessionType, Calls, Saved!NoTask, Saved!NotYet, Saved!NoSecret, Secrets, Changing
<1> DEFINE live == Saved!Live(list)
<1>3. \A j \in Ids : (j \in live <=> list.auth[j] # None) /\ (j \in live' <=> list'.auth[j] # None)
  BY DEF Saved!Live, Saved!Exists
<1>4. live \subseteq Ids /\ live' \subseteq Ids /\ list'.pending \subseteq Ids
  BY DEF Saved!Live, Lists
<1> HIDE DEF live
<1>5. ListInv'
  <2>1. live \cap list.pending = {}
    BY DEF SessionInv, ListInv, live
  <2>2. \A j \in Ids : ~(j \in live' /\ j \in list'.pending)
    BY <1>3, <2>1
  <2> QED
    BY <1>4, <2>2 DEF ListInv, live
<1>6. FitInv'
  <2>1. \A j \in live \ (spoiled \cup {id}) : Fits(list.auth[j], secret[j])
    BY DEF SessionInv, FitInv, live
  <2>2. ASSUME NEW j \in live' \ (spoiled' \cup {}) PROVE Fits(list'.auth[j], secret'[j])
    BY <1>3, <1>4, <1>1, <2>1, <2>2
  <2>3. call'.ids = {}
    BY <1>1 DEF Saved!NoTask
  <2> QED
    BY <2>2, <2>3 DEF FitInv, Fits, live
<1>7. OwnedInv'
  <2>1. \A j \in Ids : secret[j] # Saved!NoSecret => j \in live \cup list.pending \cup {id} \cup spoiled
    BY DEF SessionInv, OwnedInv, live
  <2> QED
    BY <1>3, <1>1, <2>1 DEF OwnedInv, live
<1>8. OneInv' /\ WipeInv'
  BY <1>1 DEF OneInv, WipeInv, Saved!NoTask
<1>9. UndoneInv'
  BY <1>1 DEF UndoneInv, Saved!NotYet
<1> QED
  BY <1>2, <1>5, <1>6, <1>7, <1>8, <1>9 DEF SessionInv

\* One access to the secrets of a session.
Put(id, part, x) ==
  secret' = [secret EXCEPT ![id] = IF part = "key" THEN [cred |-> @.cred, key |-> x] ELSE [cred |-> x, key |-> @.key]]
LEMMA PutType ==
  ASSUME secret \in [Ids -> Secrets], NEW id \in Ids, NEW part \in {"key", "cred"}, NEW x, Put(id, part, x),
         x \in IF part = "key" THEN Pasted \cup {None, Bad} ELSE Passwords \cup {None, Bad}
  PROVE  /\ secret' \in [Ids -> Secrets] /\ \A j \in Ids \ {id} : secret'[j] = secret[j]
         /\ secret'[id] = IF part = "key" THEN [cred |-> secret[id].cred, key |-> x] ELSE [cred |-> x, key |-> secret[id].key]
         /\ secret'[id] \in Secrets
BY DEF Put, Secrets

LEMMA AccessPuts ==
  ASSUME secret \in [Ids -> Secrets], NEW id \in Ids, NEW part \in {"key", "cred"}, NEW change
  PROVE  /\ Saved!Access(id, part, change) => Put(id, part, Saved!Apply(change, secret[id][part]))
         /\ Saved!AccessFails(id, part, change) =>
              change # Saved!Keep /\ (UNCHANGED secret \/ Put(id, part, Bad))
<1>1. ASSUME NEW x, secret' = [secret EXCEPT ![id][part] = x] PROVE Put(id, part, x)
  <2>1. CASE part = "key"
    <3>1. [secret[id] EXCEPT !["key"] = x] = [cred |-> secret[id].cred, key |-> x]
      BY DEF Secrets
    <3> QED
      BY <1>1, <2>1, <3>1 DEF Put
  <2>2. CASE part = "cred"
    <3>1. [secret[id] EXCEPT !["cred"] = x] = [cred |-> x, key |-> secret[id].key]
      BY DEF Secrets
    <3> QED
      BY <1>1, <2>2, <3>1 DEF Put
  <2> QED
    BY <2>1, <2>2
<1>2. ASSUME Saved!Access(id, part, change) PROVE secret' = [secret EXCEPT ![id][part] = Saved!Apply(change, secret[id][part])]
  BY <1>2 DEF Saved!Access
<1> QED
  BY <1>1, <1>2 DEF Saved!AccessFails

\* The session of a call.
LEMMA CallOf ==
  ASSUME SessionInv, call.op \in {"create", "update", "login"}
  PROVE  \E id \in Ids :
           /\ call.ids = {id} /\ Saved!The(call) = id
           /\ call.op = "create" => /\ id \notin Saved!Live(list) \cup list.pending \cup spoiled
                                    /\ call.before = Saved!NoSecret /\ call.auth # None
           /\ call.op = "update" => call.auth # None
           /\ call.op \in {"update", "login"} => id \in Saved!Live(list)
           /\ id \notin spoiled => Progress(id)
BY TheOne DEF SessionInv, OneInv

LEMMA CallTypes ==
  ASSUME SessionInv
  PROVE  /\ list \in Lists /\ listDisk \in Lists /\ secret \in [Ids -> Secrets]
         /\ listDisk.auth = list.auth /\ listDisk.pending \subseteq list.pending
         /\ call.before \in Secrets /\ call.broke \in BOOLEAN
         /\ call.change.cred \in Changing(Passwords) /\ call.change.key \in Changing(Pasted)
         /\ call.change \in [cred : Changing(Passwords), key : Changing(Pasted)]
         /\ \A pc : Saved!Goto(pc) => call' = [call EXCEPT !.pc = pc, !.broke = call.broke]
         /\ call.pc \in Edits => call.op \in {"create", "update"}
         /\ call.pc = "cleanup" => call.op = "create"
         /\ call.pc \in {"login", "asked"} => call.op = "login"
         /\ call.pc = "wipe" => call.op \in {"delete", "retry"}
<1>1. \A pc : Saved!Goto(pc) => call' = [call EXCEPT !.pc = pc, !.broke = call.broke]
  BY DEF SessionInv, SessionType, Calls, Saved!Goto
<1>2. SessionType /\ ListInv
  BY DEF SessionInv
<1> QED
  <2>1. /\ call.op = "none" => call.pc = ""
        /\ call.op \in {"none", "create", "update", "delete", "retry", "login"}
        /\ call.op \in {"create", "update"} => call.pc \in Edits \cup {"cleanup"}
        /\ call.op = "update" => call.pc # "cleanup"
        /\ call.op = "login" => call.pc \in {"login", "asked"}
        /\ call.op \in {"delete", "retry"} => call.pc = "wipe"
    <3>1. call.op = "none" => call = Saved!NoTask
      BY <1>2 DEF SessionType, Calls
    <3>2. Saved!NoTask.pc = ""
      BY DEF Saved!NoTask
    <3>3. /\ call.op \in {"none", "create", "update", "delete", "retry", "login"}
          /\ call.op \in {"create", "update"} => call.pc \in Edits \cup {"cleanup"}
          /\ call.op = "update" => call.pc # "cleanup"
          /\ call.op = "login" => call.pc \in {"login", "asked"}
          /\ call.op \in {"delete", "retry"} => call.pc = "wipe"
      BY <1>2 DEF SessionType, Calls
    <3> QED
      BY <3>1, <3>2, <3>3
  <2>2. /\ call.pc \in Edits => call.op \in {"create", "update"}
        /\ call.pc = "cleanup" => call.op = "create"
        /\ call.pc \in {"login", "asked"} => call.op = "login"
        /\ call.pc = "wipe" => call.op \in {"delete", "retry"}
    BY <2>1 DEF Edits
  <2>3. /\ list \in Lists /\ listDisk \in Lists /\ secret \in [Ids -> Secrets]
         /\ listDisk.auth = list.auth /\ listDisk.pending \subseteq list.pending
         /\ call.before \in Secrets /\ call.broke \in BOOLEAN
         /\ call.change.cred \in Changing(Passwords) /\ call.change.key \in Changing(Pasted)
         /\ call.change \in [cred : Changing(Passwords), key : Changing(Pasted)]
    <3>1. list \in Lists /\ listDisk \in Lists /\ secret \in [Ids -> Secrets]
      BY <1>2 DEF SessionType, Calls
    <3>2. listDisk.auth = list.auth /\ listDisk.pending \subseteq list.pending
      BY <1>2 DEF ListInv
    <3>3. /\ call.before \in Secrets /\ call.broke \in BOOLEAN
          /\ call.change \in [cred : Changing(Passwords), key : Changing(Pasted)]
      BY <1>2 DEF SessionType, Calls
    <3> QED
      BY <3>1, <3>2, <3>3
  <2> QED
    BY <1>1, <2>2, <2>3

LEMMA CallStarts == ASSUME SessionInv, Saved!Create \/ Saved!Update \/ Saved!LoginPrompt PROVE SessionInv'
<1>1. \A id \in Saved!Live(list) : id \in Ids /\ list.auth[id] \in Saved!Auths
  BY CallTypes DEF Saved!Live, Saved!Exists, Lists
<1>2. \A id \in Ids : id \notin Saved!Live(list) <=> list.auth[id] = None
  BY DEF Saved!Live, Saved!Exists
<1>3. ASSUME call = Saved!NoTask, NEW id \in Saved!Live(list) \ spoiled PROVE Fits(list.auth[id], secret[id])
  BY <1>3 DEF SessionInv, FitInv, Saved!NoTask
<1>4. ASSUME Saved!Create PROVE SessionInv'
  <2>1. PICK id \in Ids, new \in Saved!Auths : \E c \in Saved!Changes(None, Saved!NoSecret, new) :
          /\ ~Saved!Exists(list, id) /\ id \notin list.pending \cup listDisk.pending \cup spoiled
          /\ secret[id] = Saved!NoSecret
          /\ Saved!Begin("create", "key", {id}, new, c, Saved!NoSecret)
          /\ UNCHANGED <<list, listDisk, secret>>
    BY <1>4 DEF Saved!Create
  <2>2. PICK c \in Saved!Changes(None, Saved!NoSecret, new) :
          /\ ~Saved!Exists(list, id) /\ id \notin list.pending \cup listDisk.pending \cup spoiled
          /\ secret[id] = Saved!NoSecret
          /\ Saved!Begin("create", "key", {id}, new, c, Saved!NoSecret)
          /\ UNCHANGED <<list, listDisk, secret>>
    BY <2>1
  <2>3. Saved!NoSecret \in Secrets
    BY DEF Saved!NoSecret, Secrets
  <2>4. c \in [cred : Changing(Passwords), key : Changing(Pasted)] /\ Fits(new, After(c, Saved!NoSecret))
    BY <2>3, ChangesType, ChangesFit
  <2>5. id \notin Saved!Live(list) \cup list.pending \cup spoiled
    BY <2>2, <1>2 DEF Saved!Exists
  <2> QED
    BY <2>2, <2>3, <2>4, <2>5, CallBegins
<1>5. ASSUME Saved!Update PROVE SessionInv'
  <2>1. PICK id \in Saved!Live(list), new \in Saved!Auths : \E c \in Saved!Changes(list.auth[id], secret[id], new) :
          /\ Saved!Begin("update", "key", {id}, new, c, [secret[id] EXCEPT !.key = IF @ = Bad THEN None ELSE @])
          /\ UNCHANGED <<list, listDisk, secret>>
    BY <1>5 DEF Saved!Update
  <2> DEFINE old == [secret[id] EXCEPT !.key = IF @ = Bad THEN None ELSE @]
  <2>2. PICK c \in Saved!Changes(list.auth[id], secret[id], new) :
          /\ Saved!Begin("update", "key", {id}, new, c, old) /\ UNCHANGED <<list, listDisk, secret>>
    BY <2>1
  <2>3. call = Saved!NoTask
    BY <2>2 DEF Saved!Begin
  <2>4. secret[id] \in Secrets /\ old \in Secrets /\ (secret[id].key # Bad => old = secret[id])
    BY <1>1, CallTypes DEF Secrets
  <2>5. c \in [cred : Changing(Passwords), key : Changing(Pasted)]
    BY <1>1, <2>4, ChangesType
  <2>6. ASSUME id \notin spoiled PROVE old = secret[id] /\ Fits(list.auth[id], old) /\ Fits(new, After(c, old))
    <3>1. Fits(list.auth[id], secret[id]) /\ list.auth[id] # None
      BY <1>3, <2>3, <2>6 DEF Saved!Live, Saved!Exists
    <3>2. old = secret[id]
      BY <2>4, <3>1 DEF Fits
    <3>3. Fits(new, After(c, secret[id]))
      BY <1>1, <2>4, <3>1, ChangesFit
    <3> QED
      BY <3>1, <3>2, <3>3
  <2> HIDE DEF old
  <2> QED
    BY <1>1, <2>2, <2>4, <2>5, <2>6, CallBegins
<1>6. ASSUME Saved!LoginPrompt PROVE SessionInv'
  <2>1. PICK id \in Saved!Live(list), c \in {Saved!Keep} \cup {Saved!Set(p) : p \in Passwords} :
          /\ list.auth[id].source = "password"
          /\ Saved!Begin("login", "login", {id}, list.auth[id], [cred |-> c, key |-> Saved!Keep], secret[id])
          /\ UNCHANGED <<list, listDisk, secret>>
    BY <1>6 DEF Saved!LoginPrompt
  <2> DEFINE d == [cred |-> c, key |-> Saved!Keep]
  <2>2. d \in [cred : Changing(Passwords), key : Changing(Pasted)] /\ d.key = Saved!Keep
    BY DEF Changing
  <2>3. id \notin spoiled => Fits(list.auth[id], secret[id])
    BY <1>3, <2>1 DEF Saved!Begin
  <2>4. secret[id] \in Secrets
    BY <1>1, CallTypes
  <2>5. Saved!Begin("login", "login", {id}, list.auth[id], d, secret[id]) /\ UNCHANGED <<list, listDisk, secret>>
    BY <2>1
  <2> HIDE DEF d
  <2> QED
    BY <1>1, <2>1, <2>2, <2>3, <2>4, <2>5, CallBegins
<1> QED
  BY <1>4, <1>5, <1>6

LEMMA CallChanges == ASSUME SessionInv, Saved!Change PROVE SessionInv'
<1>1. /\ call.pc \in {"key", "cred"} /\ call.op \in {"create", "update"} /\ UNCHANGED <<list, listDisk, answer, spoiled>>
      /\ secret \in [Ids -> Secrets]
  BY CallTypes DEF Saved!Change, Saved!NoAnswer, Edits
<1>2. PICK id \in Ids : call.ids = {id} /\ Saved!The(call) = id /\ (id \notin spoiled => Progress(id))
  BY <1>1, CallOf
<1> DEFINE part == Saved!Part
           x == call.change[part]
<1>3. part = call.pc /\ part \in {"key", "cred"}
  BY <1>1 DEF Saved!Part
<1>4. x = (IF part = "key" THEN call.change.key ELSE call.change.cred)
  BY <1>3
<1>5. \/ Saved!Access(id, part, x) /\ Saved!Goto(IF call.pc = "key" THEN "cred" ELSE "state")
      \/ Saved!AccessFails(id, part, x) /\ Saved!Goto("undoKey")
  BY <1>2 DEF Saved!Change
<1> HIDE DEF part, x
<1>6. CASE Saved!Access(id, part, x) /\ Saved!Goto(IF call.pc = "key" THEN "cred" ELSE "state")
  <2> DEFINE v == Saved!Apply(x, secret[id][part])
             to == IF call.pc = "key" THEN "cred" ELSE "state"
  <2>1. Put(id, part, v)
    BY <1>1, <1>3, <1>6, AccessPuts
  <2>2. v \in IF part = "key" THEN Pasted \cup {None, Bad} ELSE Passwords \cup {None, Bad}
    <3>1. CASE part = "key"
      <4>1. x \in Changing(Pasted) /\ secret[id][part] \in Pasted \cup {None, Bad}
        BY <1>1, <1>4, <3>1, CallTypes DEF Secrets
      <4> QED
        BY <3>1, <4>1, ApplyType
    <3>2. CASE part = "cred"
      <4>1. x \in Changing(Passwords) /\ secret[id][part] \in Passwords \cup {None, Bad}
        BY <1>1, <1>4, <3>2, CallTypes DEF Secrets
      <4> QED
        BY <3>2, <4>1, ApplyType
    <3> QED
      BY <1>3, <3>1, <3>2
  <2> HIDE DEF v
  <2>3. /\ secret' \in [Ids -> Secrets] /\ \A j \in Ids \ {id} : secret'[j] = secret[j]
        /\ secret'[id] = IF part = "key" THEN [cred |-> secret[id].cred, key |-> v] ELSE [cred |-> v, key |-> secret[id].key]
    BY <1>1, <1>3, <2>1, <2>2, PutType
  <2>4. ASSUME id \notin spoiled
        PROVE  /\ to = "cred" => secret'[id] = [cred |-> call.before.cred, key |-> After(call.change, call.before).key]
               /\ to = "state" => secret'[id] = After(call.change, call.before)
    <3>1. Progress(id)
      BY <1>2, <2>4
    <3>2. CASE part = "key"
      <4>1. secret[id] = call.before /\ to = "cred"
        BY <1>3, <3>1, <3>2 DEF Progress
      <4>2. v = After(call.change, call.before).key
        BY <1>4, <3>2, <4>1 DEF After, v
      <4> QED
        BY <2>3, <3>2, <4>1, <4>2
    <3>3. CASE part = "cred"
      <4>1. secret[id] = [cred |-> call.before.cred, key |-> After(call.change, call.before).key] /\ to = "state"
        BY <1>3, <3>1, <3>3 DEF Progress
      <4>2. secret[id].cred = call.before.cred /\ secret[id].key = After(call.change, call.before).key
        BY <4>1
      <4>3. v = After(call.change, call.before).cred
        BY <1>4, <3>3, <4>2 DEF After, v
      <4> QED
        BY <2>3, <3>3, <4>1, <4>2, <4>3 DEF After
    <3> QED
      BY <1>3, <3>2, <3>3
  <2>5. to \in {"cred", "state"} /\ call' = [call EXCEPT !.pc = to, !.broke = call.broke] /\ call.broke \in BOOLEAN
    BY <1>6, CallTypes
  <2> HIDE DEF to
  <2> QED
    BY <1>1, <1>2, <2>3, <2>4, <2>5, CallGoes DEF Edits
<1>7. CASE Saved!AccessFails(id, part, x) /\ Saved!Goto("undoKey")
  <2>1. UNCHANGED secret \/ Put(id, part, Bad)
    BY <1>1, <1>3, <1>7, AccessPuts
  <2>2. secret' \in [Ids -> Secrets] /\ \A j \in Ids \ {id} : secret'[j] = secret[j]
    BY <1>1, <1>3, <2>1, PutType
  <2>3. call' = [call EXCEPT !.pc = "undoKey", !.broke = call.broke] /\ call.broke \in BOOLEAN
    BY <1>7, CallTypes
  <2> QED
    BY <1>1, <1>2, <2>2, <2>3, CallGoes DEF Edits
<1> QED
  BY <1>5, <1>6, <1>7

\* Nothing was changed, or what was is put back.
LEMMA ApplyKeep == ASSUME NEW s \in Secrets, NEW c, c.cred = Saved!Keep, c.key = Saved!Keep PROVE After(c, s) = s
BY DEF After, Saved!Apply, Saved!Keep, Secrets

LEMMA CallFails ==
  ASSUME SessionInv, call.pc \in {"state", "save"}, UNCHANGED <<list, listDisk, secret>>,
         \/ Saved!Failed
         \/ call.op = "create" /\ ~Saved!Changed(call.change) /\ Saved!Answer("failed")
  PROVE  SessionInv'
<1>1. call.op \in {"create", "update"} /\ secret' \in [Ids -> Secrets] /\ call.broke \in BOOLEAN /\ call.before \in Secrets
  BY CallTypes DEF Edits
<1>2. PICK id \in Ids :
        /\ call.ids = {id} /\ (id \notin spoiled => Progress(id))
        /\ call.op = "create" => /\ id \notin Saved!Live(list) \cup list.pending \cup spoiled /\ call.before = Saved!NoSecret
        /\ call.op = "update" => id \in Saved!Live(list)
  BY <1>1, CallOf
<1>3. CASE call.op = "create" /\ Saved!Goto("cleanup") /\ Saved!NoAnswer
  <2>1. call' = [call EXCEPT !.pc = "cleanup", !.broke = call.broke] /\ UNCHANGED <<answer, spoiled>>
    BY <1>3, CallTypes DEF Saved!NoAnswer
  <2> QED
    BY <1>1, <1>2, <1>3, <2>1, CallGoes
<1>4. CASE call.op = "update" /\ Saved!Goto("undoKey") /\ Saved!NoAnswer
  <2>1. call' = [call EXCEPT !.pc = "undoKey", !.broke = call.broke] /\ UNCHANGED <<answer, spoiled>>
    BY <1>4, CallTypes DEF Saved!NoAnswer
  <2> QED
    BY <1>1, <1>2, <1>4, <2>1, CallGoes DEF Edits
<1>5. CASE ~Saved!Changed(call.change) /\ Saved!Answer("failed")
  <2>1. /\ list' \in Lists /\ listDisk' \in Lists /\ listDisk'.auth = list'.auth /\ listDisk'.pending \subseteq list'.pending
        /\ \A j \in Ids \ {id} : list'.auth[j] = list.auth[j] /\ secret'[j] = secret[j]
                               /\ (j \in list'.pending <=> j \in list.pending)
    BY CallTypes
  <2>2. id \in list'.pending => list'.auth[id] = None
    BY DEF SessionInv, ListInv, Saved!Live, Saved!Exists
  <2>3. ASSUME id \notin spoiled
        PROVE  /\ list'.auth[id] # None => Fits(list'.auth[id], secret'[id])
               /\ secret'[id] # Saved!NoSecret => list'.auth[id] # None \/ id \in list'.pending
               /\ secret'[id] = call.before
    <3>1. Progress(id) /\ call.change.cred = Saved!Keep /\ call.change.key = Saved!Keep
      BY <1>2, <1>5, <2>3 DEF Saved!Changed
    <3>2. secret'[id] = call.before
      BY <1>1, <3>1, ApplyKeep DEF Progress
    <3>3. CASE call.op = "update"
      BY <1>2, <3>1, <3>2, <3>3 DEF Progress, Saved!Live, Saved!Exists
    <3>4. CASE call.op = "create"
      <4>1. list.auth[id] = None /\ call.before = Saved!NoSecret
        BY <1>2, <3>4 DEF Saved!Live, Saved!Exists
      <4> QED
        BY <3>2, <4>1
    <3> QED
      BY <1>1, <3>3, <3>4
  <2> QED
    BY <1>1, <1>2, <1>5, <2>1, <2>2, <2>3, CallEnds
<1> QED
  BY <1>1, <1>3, <1>4, <1>5 DEF Saved!Failed

LEMMA CallReads == ASSUME SessionInv, Saved!ReadState PROVE SessionInv'
<1>1. call.pc = "state" /\ UNCHANGED <<list, listDisk, secret>>
  BY DEF Saved!ReadState
<1>2. CASE Saved!Goto("save") /\ Saved!NoAnswer
  <2>1. /\ call' = [call EXCEPT !.pc = "save", !.broke = call.broke] /\ UNCHANGED <<answer, spoiled>>
        /\ call.op \in {"create", "update"} /\ secret' \in [Ids -> Secrets] /\ call.broke \in BOOLEAN
    BY <1>1, <1>2, CallTypes DEF Saved!NoAnswer, Edits
  <2>2. PICK id \in Ids : call.ids = {id} /\ (id \notin spoiled => Progress(id))
    BY <2>1, CallOf
  <2>3. id \notin spoiled => secret'[id] = After(call.change, call.before)
    BY <1>1, <2>2 DEF Progress
  <2> QED
    BY <1>1, <2>1, <2>2, <2>3, CallGoes DEF Edits
<1>3. CASE Saved!Failed
  BY <1>1, <1>3, CallFails
<1> QED
  BY <1>2, <1>3 DEF Saved!ReadState

LEMMA CallSaves == ASSUME SessionInv, Saved!Save PROVE SessionInv'
<1>1. call.pc = "save" /\ UNCHANGED secret /\ call.op \in {"create", "update"}
  BY CallTypes DEF Saved!Save, Edits
<1>2. PICK id \in Ids :
        /\ call.ids = {id} /\ Saved!The(call) = id /\ (id \notin spoiled => Progress(id)) /\ call.auth # None
        /\ call.op = "create" => id \notin list.pending
        /\ call.op = "update" => id \in Saved!Live(list)
  BY <1>1, CallOf
<1>3. CASE Saved!SaveAs([list EXCEPT !.auth[id] = call.auth]) /\ Saved!Answer("done")
  <2>1. /\ list.auth \in [Ids -> Saved!Auths \cup {None}] /\ list.asked \subseteq Ids /\ list.pending \subseteq Ids
        /\ list = [auth |-> list.auth, asked |-> list.asked, pending |-> list.pending]
    BY CallTypes DEF Lists
  <2>2. call.auth \in Saved!Auths \cup {None} /\ secret \in [Ids -> Secrets]
    BY DEF SessionInv, SessionType, Calls
  <2>3. /\ list' = [auth |-> [list.auth EXCEPT ![id] = call.auth], asked |-> list.asked, pending |-> list.pending]
        /\ listDisk' = list'
    BY <1>3, <2>1 DEF Saved!SaveAs
  <2>4. /\ list' \in Lists /\ listDisk' = list' /\ list'.auth[id] = call.auth /\ list'.pending = list.pending
        /\ \A j \in Ids \ {id} : list'.auth[j] = list.auth[j]
    BY <2>1, <2>2, <2>3 DEF Lists
  <2>5. id \notin list.pending
    BY <1>1, <1>2 DEF SessionInv, ListInv
  <2>6. id \notin spoiled => Fits(call.auth, secret[id])
    BY <1>1, <1>2 DEF Progress
  <2> QED
    BY <1>1, <1>2, <1>3, <2>2, <2>4, <2>5, <2>6, CallEnds
<1>4. CASE UNCHANGED <<list, listDisk>> /\ (Saved!Failed \/ (call.op = "create" /\ ~Saved!Changed(call.change) /\ Saved!Answer("failed")))
  BY <1>1, <1>4, CallFails
<1> QED
  BY <1>2, <1>3, <1>4 DEF Saved!Save

LEMMA BackType ==
  ASSUME NEW S, NEW x \in S \cup {None, Bad}, NEW old
  PROVE  Saved!Apply(Saved!PutBack(x), old) = x
BY DEF Saved!Apply, Saved!PutBack, Saved!Delete, Saved!Set

LEMMA CallUndoes == ASSUME SessionInv, Saved!Undo PROVE SessionInv'
<1>1. /\ call.pc \in {"undoKey", "undoCred"} /\ call.op \in {"create", "update"} /\ UNCHANGED <<list, listDisk>>
      /\ secret \in [Ids -> Secrets] /\ call.before \in Secrets /\ call.broke \in BOOLEAN
  BY CallTypes DEF Saved!Undo, Edits
<1>2. PICK id \in Ids :
        /\ call.ids = {id} /\ Saved!The(call) = id /\ (id \notin spoiled => Progress(id))
        /\ call.op = "update" => id \in Saved!Live(list)
  BY <1>1, CallOf
<1> DEFINE part == Saved!Part
           x == call.before[part]
           c == Saved!PutBack(x)
<1>3. part \in {"key", "cred"} /\ (part = "key" <=> call.pc = "undoKey")
  BY <1>1 DEF Saved!Part
<1>4. x = (IF part = "key" THEN call.before.key ELSE call.before.cred)
  BY <1>3
<1>5. \/ /\ Saved!Access(id, part, c)
         /\ \/ call.pc = "undoKey" /\ Saved!Goto("undoCred") /\ Saved!NoAnswer
            \/ call.pc = "undoCred" /\ call.op = "create" /\ Saved!Goto("cleanup") /\ Saved!NoAnswer
            \/ call.pc = "undoCred" /\ call.op = "update" /\ Saved!Answer(IF call.broke THEN "broken" ELSE "failed")
      \/ /\ Saved!AccessFails(id, part, c)
         /\ \/ call.pc = "undoKey" /\ call' = [call EXCEPT !.pc = "undoCred", !.broke = TRUE] /\ Saved!NoAnswer
            \/ call.pc = "undoCred" /\ call.op = "create" /\ Saved!Goto("cleanup") /\ Saved!NoAnswer
            \/ call.pc = "undoCred" /\ call.op = "update" /\ Saved!Answer("broken")
  BY <1>2 DEF Saved!Undo
<1>6. x \in IF part = "key" THEN Pasted \cup {None, Bad} ELSE Passwords \cup {None, Bad}
  BY <1>1, <1>3, <1>4 DEF Secrets
<1>7. Saved!Access(id, part, c) => Put(id, part, x)
  <2>1. Saved!Apply(c, secret[id][part]) = x
    BY <1>6, BackType
  <2> QED
    BY <1>1, <1>3, <2>1, AccessPuts
<1> HIDE DEF part, x, c
<1>8. Saved!AccessFails(id, part, c) => UNCHANGED secret \/ Put(id, part, Bad)
  BY <1>1, <1>3, AccessPuts
<1>9. secret' \in [Ids -> Secrets] /\ \A j \in Ids \ {id} : secret'[j] = secret[j]
  BY <1>1, <1>3, <1>5, <1>6, <1>7, <1>8, PutType
<1>10. Saved!Access(id, part, c) =>
         secret'[id] = IF part = "key" THEN [cred |-> secret[id].cred, key |-> x] ELSE [cred |-> x, key |-> secret[id].key]
  BY <1>1, <1>3, <1>6, <1>7, PutType
<1>11. CASE call.pc = "undoKey" /\ Saved!Access(id, part, c) /\ Saved!Goto("undoCred") /\ Saved!NoAnswer
  <2>1. call' = [call EXCEPT !.pc = "undoCred", !.broke = call.broke] /\ UNCHANGED <<answer, spoiled>>
    BY <1>11, CallTypes DEF Saved!NoAnswer
  <2>2. secret'[id].key = call.before.key
    BY <1>3, <1>4, <1>10, <1>11
  <2> QED
    BY <1>1, <1>2, <1>9, <2>1, <2>2, CallGoes DEF Edits
<1>12. CASE call.pc = "undoKey" /\ call' = [call EXCEPT !.pc = "undoCred", !.broke = TRUE] /\ Saved!NoAnswer
  BY <1>1, <1>2, <1>9, <1>12, CallGoes DEF Edits, Saved!NoAnswer
<1>13. CASE call.pc = "undoCred" /\ call.op = "create" /\ Saved!Goto("cleanup") /\ Saved!NoAnswer
  <2>1. call' = [call EXCEPT !.pc = "cleanup", !.broke = call.broke] /\ UNCHANGED <<answer, spoiled>>
    BY <1>13, CallTypes DEF Saved!NoAnswer
  <2> QED
    BY <1>1, <1>2, <1>9, <1>13, <2>1, CallGoes
<1>14. ASSUME call.pc = "undoCred", call.op = "update", NEW how \in {"failed", "broken"}, Saved!Answer(how),
              how = "failed" => Saved!Access(id, part, c) /\ ~call.broke
       PROVE  SessionInv'
  <2>1. /\ list' \in Lists /\ listDisk' \in Lists /\ listDisk'.auth = list'.auth /\ listDisk'.pending \subseteq list'.pending
        /\ \A j \in Ids \ {id} : list'.auth[j] = list.auth[j] /\ (j \in list'.pending <=> j \in list.pending)
    BY <1>1, CallTypes
  <2>2. id \in list'.pending => list'.auth[id] = None
    BY <1>1 DEF SessionInv, ListInv, Saved!Live, Saved!Exists
  <2>3. ASSUME how = "failed", id \notin spoiled
        PROVE  secret'[id] = call.before /\ list'.auth[id] # None /\ Fits(list'.auth[id], secret'[id])
    <3>1. Progress(id) /\ Saved!Access(id, part, c) /\ ~call.broke /\ part = "cred" /\ list.auth[id] # None
      BY <1>2, <1>3, <1>14, <2>3 DEF Saved!Live, Saved!Exists
    <3>2. secret'[id] = [cred |-> call.before.cred, key |-> call.before.key]
      BY <1>4, <1>10, <1>14, <3>1 DEF Progress
    <3>3. secret'[id] = call.before
      BY <1>1, <3>2 DEF Secrets
    <3> QED
      BY <1>1, <1>14, <3>1, <3>3 DEF Progress
  <2> QED
    BY <1>1, <1>2, <1>9, <1>14, <2>1, <2>2, <2>3, CallEnds
<1> QED
  BY <1>1, <1>5, <1>11, <1>12, <1>13, <1>14

LEMMA CallCleans == ASSUME SessionInv, Saved!Cleanup PROVE SessionInv'
<1>1. call.pc = "cleanup" /\ call.op = "create" /\ Saved!Answer("failed") /\ secret \in [Ids -> Secrets]
  BY CallTypes DEF Saved!Cleanup
<1>2. PICK id \in Ids : call.ids = {id} /\ Saved!The(call) = id /\ id \notin Saved!Live(list)
  BY <1>1, CallOf
<1>3. list.auth[id] = None /\ list \in Lists /\ listDisk \in Lists /\ listDisk.auth = list.auth /\ listDisk.pending \subseteq list.pending
  BY <1>2, CallTypes DEF Saved!Live, Saved!Exists
<1>4. Saved!NoSecret \in Secrets /\ \A s \in Secrets : [s EXCEPT !.cred = None] \in Secrets
      /\ \A t \in Secrets : [cred |-> None, key |-> IF t.key = None THEN None ELSE Bad] \in Secrets
  BY DEF Saved!NoSecret, Secrets
<1>5. CASE Saved!Wipe(id) /\ UNCHANGED <<list, listDisk>>
  <2>1. secret' \in [Ids -> Secrets] /\ secret'[id] = Saved!NoSecret /\ \A j \in Ids \ {id} : secret'[j] = secret[j]
    BY <1>1, <1>4, <1>5 DEF Saved!Wipe
  <2> QED
    BY <1>1, <1>2, <1>3, <1>5, <2>1, CallEnds
<1>6. CASE Saved!WipeFails(id) /\ Saved!Queued(id)
  <2>1. secret' \in [Ids -> Secrets] /\ \A j \in Ids \ {id} : secret'[j] = secret[j]
    BY <1>1, <1>4, <1>6 DEF Saved!WipeFails
  <2>2. list' \in Lists /\ list'.auth = list.auth /\ list'.pending = list.pending \cup {id}
    BY <1>3, <1>6 DEF Saved!Queued, Lists
  <2>3. listDisk' \in Lists /\ listDisk'.auth = list'.auth /\ listDisk'.pending \subseteq list'.pending
    BY <1>3, <1>6, <2>2 DEF Saved!Queued
  <2> QED
    BY <1>1, <1>2, <1>3, <2>1, <2>2, <2>3, CallEnds
<1> QED
  BY <1>2, <1>5, <1>6 DEF Saved!Cleanup

\* Keeping the password that was typed.
LEMMA LoginSaves == ASSUME SessionInv, Saved!SaveLogin PROVE SessionInv'
<1>1. /\ call.pc = "login" /\ call.op = "login" /\ UNCHANGED <<list, listDisk>> /\ secret \in [Ids -> Secrets]
      /\ call.broke \in BOOLEAN /\ call.change.cred \in Changing(Passwords) /\ call.before \in Secrets
      /\ list \in Lists /\ listDisk \in Lists /\ listDisk.auth = list.auth /\ listDisk.pending \subseteq list.pending
  BY CallTypes DEF Saved!SaveLogin
<1>2. PICK id \in Ids :
        call.ids = {id} /\ Saved!The(call) = id /\ id \in Saved!Live(list) /\ (id \notin spoiled => Progress(id))
  BY <1>1, CallOf
<1> DEFINE c == call.change.cred
<1>3. \/ Saved!Access(id, "cred", c) /\ Saved!Goto("asked") /\ Saved!NoAnswer
      \/ Saved!AccessFails(id, "cred", c) /\ Saved!Answer(IF secret'[id] = secret[id] THEN "failed" ELSE "broken")
  BY <1>2 DEF Saved!SaveLogin
<1>4. id \notin spoiled => /\ secret[id] = call.before /\ call.change.key = Saved!Keep
                           /\ Fits(list.auth[id], call.before)
  BY <1>1, <1>2 DEF Progress
<1>5. CASE Saved!Access(id, "cred", c) /\ Saved!Goto("asked") /\ Saved!NoAnswer
  <2> DEFINE v == Saved!Apply(c, secret[id].cred)
  <2>1. Put(id, "cred", v)
    BY <1>1, <1>5, AccessPuts
  <2>2. v \in Passwords \cup {None, Bad}
    <3>1. secret[id].cred \in Passwords \cup {None, Bad}
      BY <1>1 DEF Secrets
    <3> QED
      BY <1>1, <3>1, ApplyType
  <2>3. /\ secret' \in [Ids -> Secrets] /\ \A j \in Ids \ {id} : secret'[j] = secret[j]
        /\ secret'[id] = [cred |-> v, key |-> secret[id].key]
    BY <1>1, <2>1, <2>2, PutType
  <2>4. id \notin spoiled => secret'[id] = After(call.change, call.before)
    BY <1>4, <2>3 DEF After, Saved!Apply, Saved!Keep
  <2>5. call' = [call EXCEPT !.pc = "asked", !.broke = call.broke] /\ UNCHANGED <<answer, spoiled>>
    BY <1>5, CallTypes DEF Saved!NoAnswer
  <2> HIDE DEF v, c
  <2> QED
    BY <1>1, <1>2, <2>3, <2>4, <2>5, CallGoes DEF Edits
<1>6. CASE Saved!AccessFails(id, "cred", c) /\ Saved!Answer(IF secret'[id] = secret[id] THEN "failed" ELSE "broken")
  <2>1. UNCHANGED secret \/ Put(id, "cred", Bad)
    BY <1>1, <1>6, AccessPuts
  <2>2. secret' \in [Ids -> Secrets] /\ \A j \in Ids \ {id} : secret'[j] = secret[j]
    BY <1>1, <2>1, PutType
  <2>3. list.auth[id] # None /\ id \notin list.pending
    BY <1>2 DEF Saved!Live, Saved!Exists, SessionInv, ListInv
  <2> DEFINE how == IF secret'[id] = secret[id] THEN "failed" ELSE "broken"
  <2>4. how \in {"done", "failed", "broken"} /\ Saved!Answer(how) /\ (how # "broken" => secret'[id] = secret[id])
    BY <1>6
  <2> HIDE DEF how, c
  <2> QED
    BY <1>1, <1>2, <1>4, <2>2, <2>3, <2>4, CallEnds
<1> QED
  BY <1>3, <1>5, <1>6

LEMMA LoginAsked == ASSUME SessionInv, Saved!SaveAsked PROVE SessionInv'
<1>1. /\ call.pc = "asked" /\ call.op = "login" /\ secret \in [Ids -> Secrets] /\ call.before \in Secrets
      /\ list \in Lists /\ listDisk \in Lists /\ listDisk.auth = list.auth /\ listDisk.pending \subseteq list.pending
  BY CallTypes DEF Saved!SaveAsked
<1>2. PICK id \in Ids :
        call.ids = {id} /\ Saved!The(call) = id /\ id \in Saved!Live(list) /\ (id \notin spoiled => Progress(id))
  BY <1>1, CallOf
<1>3. id \notin spoiled =>
        /\ secret[id] = [cred |-> Saved!Apply(call.change.cred, call.before.cred), key |-> call.before.key]
        /\ list.auth[id].source = "password" /\ Fits(list.auth[id], call.before)
  BY <1>1, <1>2 DEF Progress, After, Saved!Apply, Saved!Keep
<1>4. list.auth[id] # None /\ id \notin list.pending
  BY <1>2 DEF Saved!Live, Saved!Exists, SessionInv, ListInv
<1> DEFINE c == Saved!PutBack(call.before.cred)
<1>5. CASE Saved!SaveAs([list EXCEPT !.asked = @ \cup {id}]) /\ Saved!Answer("done") /\ UNCHANGED secret
  <2>1. list' \in Lists /\ list'.auth = list.auth /\ list'.pending = list.pending /\ listDisk' = list'
    BY <1>1, <1>5 DEF Saved!SaveAs, Lists
  <2>2. id \notin spoiled => Fits(list.auth[id], secret[id])
    BY <1>3 DEF Fits
  <2> QED
    BY <1>1, <1>2, <1>4, <1>5, <2>1, <2>2, CallEnds
<1>6. CASE UNCHANGED <<list, listDisk, secret>> /\ call.change.cred = Saved!Keep /\ Saved!Answer("failed")
  <2>1. id \notin spoiled => secret[id] = call.before
    BY <1>1, <1>3, <1>6 DEF Saved!Apply, Saved!Keep, Secrets
  <2> QED
    BY <1>1, <1>2, <1>3, <1>4, <1>6, <2>1, CallEnds
<1>7. CASE UNCHANGED <<list, listDisk>> /\ Saved!Access(id, "cred", c) /\ Saved!Answer("failed")
  <2>1. call.before.cred \in Passwords \cup {None, Bad}
    BY <1>1 DEF Secrets
  <2>2. Put(id, "cred", call.before.cred)
    <3>1. Saved!Apply(c, secret[id]["cred"]) = call.before.cred
      BY <2>1, BackType
    <3> QED
      BY <1>1, <1>7, <3>1, AccessPuts
  <2>3. /\ secret' \in [Ids -> Secrets] /\ \A j \in Ids \ {id} : secret'[j] = secret[j]
        /\ secret'[id] = [cred |-> call.before.cred, key |-> secret[id].key]
    BY <1>1, <2>1, <2>2, PutType
  <2>4. id \notin spoiled => secret'[id] = call.before
    BY <1>1, <1>3, <2>3 DEF Secrets
  <2> QED
    BY <1>1, <1>2, <1>3, <1>4, <1>7, <2>3, <2>4, CallEnds
<1>8. CASE UNCHANGED <<list, listDisk>> /\ Saved!AccessFails(id, "cred", c) /\ Saved!Answer("broken")
  <2>1. UNCHANGED secret \/ Put(id, "cred", Bad)
    BY <1>1, <1>8, AccessPuts
  <2>2. secret' \in [Ids -> Secrets] /\ \A j \in Ids \ {id} : secret'[j] = secret[j]
    BY <1>1, <2>1, PutType
  <2> QED
    BY <1>1, <1>2, <1>4, <1>8, <2>2, CallEnds
<1> QED
  BY <1>2, <1>5, <1>6, <1>7, <1>8 DEF Saved!SaveAsked

\* Sessions go, or a clean-up is tried again.
LEMMA WipeBegins ==
  ASSUME SessionInv, Saved!DeleteSessions \/ Saved!RetryCleanup
  PROVE  SessionInv'
<1> USE DEF Saved!Live, Saved!Exists
<1>1. PICK what \in {"delete", "retry"}, ids \in SUBSET Ids :
        /\ Saved!Begin(what, "wipe", ids, None, Saved!NoTask.change, Saved!NoSecret) /\ UNCHANGED secret
        /\ IF what = "delete" THEN Saved!SaveAs(Saved!Removed(list, ids))
           ELSE ids = list.pending /\ UNCHANGED <<list, listDisk>>
  <2>1. ASSUME Saved!DeleteSessions
        PROVE  \E ids \in SUBSET Ids :
                 /\ Saved!Begin("delete", "wipe", ids, None, Saved!NoTask.change, Saved!NoSecret) /\ UNCHANGED secret
                 /\ Saved!SaveAs(Saved!Removed(list, ids))
    BY <2>1 DEF Saved!DeleteSessions
  <2>2. ASSUME Saved!RetryCleanup
        PROVE  /\ Saved!Begin("retry", "wipe", list.pending, None, Saved!NoTask.change, Saved!NoSecret)
               /\ UNCHANGED <<list, listDisk, secret>> /\ list.pending \in SUBSET Ids
    BY <2>2, CallTypes DEF Saved!RetryCleanup, Lists
  <2> QED
    BY <2>1, <2>2
<1>2. /\ call = Saved!NoTask /\ UNCHANGED <<secret, spoiled>> /\ answer' = Saved!NotYet
      /\ call' = [op |-> what, pc |-> "wipe", ids |-> ids, auth |-> None, change |-> Saved!NoTask.change,
                  before |-> Saved!NoSecret, left |-> ids, broke |-> FALSE]
  BY <1>1 DEF Saved!Begin, Saved!NoTask
<1>3. /\ list \in Lists /\ listDisk \in Lists /\ listDisk.auth = list.auth /\ listDisk.pending \subseteq list.pending
      /\ \A j \in Ids : list.auth[j] = None \/ j \notin list.pending
  BY CallTypes DEF SessionInv, ListInv
<1>4. /\ list' \in Lists /\ listDisk' \in Lists /\ listDisk'.auth = list'.auth /\ listDisk'.pending \subseteq list'.pending
      /\ list'.pending = list.pending \cup ids
      /\ \A j \in Ids : list'.auth[j] = IF j \in ids THEN None ELSE list.auth[j]
  <2>1. CASE what = "delete"
    <3>1. list' = Saved!Removed(list, ids) /\ listDisk' = list'
      BY <1>1, <2>1 DEF Saved!SaveAs
    <3>2. list' = [auth |-> [j \in Ids |-> IF j \in ids THEN None ELSE list.auth[j]],
                   asked |-> list.asked \ ids, pending |-> list.pending \cup ids]
      BY <1>3, <3>1 DEF Saved!Removed, Saved!Unqueued, Lists
    <3> QED
      BY <1>3, <3>1, <3>2 DEF Lists
  <2>2. CASE what = "retry"
    BY <1>1, <1>3, <2>2
  <2> QED
    BY <2>1, <2>2
<1>5. SessionType'
  BY <1>2, <1>4 DEF SessionInv, SessionType, Calls, Saved!NoTask, Saved!NotYet, Saved!NoSecret, Secrets
<1>6. ListInv'
  BY <1>3, <1>4 DEF ListInv
<1>7. FitInv'
  <2>1. \A j \in Ids : list.auth[j] # None /\ j \notin spoiled => Fits(list.auth[j], secret[j])
    BY <1>2 DEF SessionInv, FitInv, Saved!NoTask
  <2> QED
    BY <1>2, <1>4, <2>1 DEF FitInv, Fits
<1>8. OwnedInv'
  <2>1. \A j \in Ids : secret[j] # Saved!NoSecret => list.auth[j] # None \/ j \in list.pending \cup spoiled
    BY <1>2 DEF SessionInv, OwnedInv, Saved!NoTask
  <2> QED
    BY <1>2, <1>4, <2>1 DEF OwnedInv
<1>9. OneInv' /\ WipeInv' /\ UndoneInv'
  BY <1>2, <1>4 DEF OneInv, WipeInv, UndoneInv, Saved!NotYet
<1> QED
  BY <1>5, <1>6, <1>7, <1>8, <1>9 DEF SessionInv

LEMMA WipeGoes == ASSUME SessionInv, Saved!WipeNext PROVE SessionInv'
<1>1. /\ call.pc = "wipe" /\ call.op \in {"delete", "retry"} /\ UNCHANGED <<list, listDisk, answer, spoiled>>
      /\ secret \in [Ids -> Secrets]
  BY CallTypes DEF Saved!WipeNext, Saved!NoAnswer
<1>2. PICK id \in call.left :
        \/ Saved!Wipe(id) /\ call' = [call EXCEPT !.left = @ \ {id}]
        \/ Saved!WipeFails(id) /\ call' = [call EXCEPT !.left = @ \ {id}, !.ids = @ \ {id}]
  BY DEF Saved!WipeNext
<1>3. SessionType /\ WipeInv /\ answer = Saved!NotYet
  BY <1>1 DEF SessionInv, SessionType, Calls
<1>4. id \in Ids /\ call.left \subseteq call.ids /\ call.ids \subseteq list.pending
      /\ \A j \in call.ids \ call.left : secret[j] = Saved!NoSecret
  <2>1. call.left \subseteq Ids
    BY <1>3 DEF SessionType, Calls
  <2> QED
    BY <1>1, <1>2, <1>3, <2>1 DEF WipeInv
<1>5. /\ call'.op = call.op /\ call'.pc = call.pc /\ call'.left = call.left \ {id}
      /\ call'.ids \in {call.ids, call.ids \ {id}}
      /\ Saved!Wipe(id) \/ (Saved!WipeFails(id) /\ call'.ids = call.ids \ {id})
      /\ call' \in Calls
  <2>1. call \in Calls
    BY <1>3 DEF SessionType, Calls
  <2> DEFINE more == call.left \ {id}
  <2>2. PICK ids \in {call.ids, call.ids \ {id}} :
          /\ Saved!Wipe(id) \/ (Saved!WipeFails(id) /\ ids = call.ids \ {id})
          /\ call' = [call EXCEPT !.left = more, !.ids = ids]
    <3>1. CASE Saved!Wipe(id) /\ call' = [call EXCEPT !.left = more]
      <4>1. call' = [call EXCEPT !.left = more, !.ids = call.ids]
        BY <2>1, <3>1 DEF Calls
      <4> QED
        BY <3>1, <4>1
    <3>2. CASE Saved!WipeFails(id) /\ call' = [call EXCEPT !.left = more, !.ids = @ \ {id}]
      BY <3>2
    <3> QED
      BY <1>2, <3>1, <3>2
  <2>3. more \in SUBSET Ids /\ ids \in SUBSET Ids
    BY <2>1 DEF Calls
  <2> HIDE DEF more
  <2>4. call' \in Calls /\ call'.op = call.op /\ call'.pc = call.pc /\ call'.left = more /\ call'.ids = ids
    BY <2>1, <2>2, <2>3 DEF Calls
  <2> QED
    BY <2>2, <2>4 DEF more
<1>6. /\ Saved!NoSecret \in Secrets /\ \A s \in Secrets : [s EXCEPT !.cred = None] \in Secrets
      /\ \A t \in Secrets : [cred |-> None, key |-> IF t.key = None THEN None ELSE Bad] \in Secrets
  BY DEF Saved!NoSecret, Secrets
<1>7. /\ secret' \in [Ids -> Secrets] /\ \A j \in Ids \ {id} : secret'[j] = secret[j]
      /\ Saved!Wipe(id) => secret'[id] = Saved!NoSecret
  <2>1. CASE Saved!Wipe(id)
    BY <1>1, <1>4, <1>6, <2>1 DEF Saved!Wipe
  <2>2. CASE Saved!WipeFails(id) /\ ~Saved!Wipe(id)
    BY <1>1, <1>4, <1>6, <2>2 DEF Saved!WipeFails
  <2> QED
    BY <1>5, <2>1, <2>2
<1> DEFINE live == Saved!Live(list)
<1>8. live' = live /\ live \subseteq Ids /\ live \cap list.pending = {}
  BY <1>1 DEF Saved!Live, SessionInv, ListInv
<1> HIDE DEF live
<1>9. SessionType'
  BY <1>1, <1>3, <1>5, <1>7 DEF SessionType, Calls
<1>10. ListInv'
  BY <1>1 DEF SessionInv, ListInv, Saved!Live, Saved!Exists
<1>11. FitInv'
  <2>1. \A j \in live \ spoiled : Fits(list.auth[j], secret[j]) /\ j # id
    BY <1>4, <1>8 DEF SessionInv, FitInv, live
  <2>2. \A j \in live \ spoiled : Fits(list'.auth[j], secret'[j])
    BY <1>1, <1>7, <1>8, <2>1
  <2> QED
    BY <1>1, <1>8, <2>2 DEF FitInv, live, Fits
<1>12. OwnedInv'
  <2>1. \A j \in Ids : secret[j] # Saved!NoSecret => j \in live \cup list.pending \cup spoiled
    BY <1>4 DEF SessionInv, OwnedInv, live
  <2> QED
    BY <1>1, <1>4, <1>7, <1>8, <2>1 DEF OwnedInv, live
<1>13. OneInv' /\ UndoneInv'
  BY <1>1, <1>3, <1>5 DEF OneInv, UndoneInv, Saved!NotYet
<1>14. WipeInv'
  <2>1. call.ids \subseteq Ids /\ call'.left \subseteq call'.ids /\ call'.ids \subseteq call.ids
    BY <1>3, <1>4, <1>5 DEF SessionType, Calls
  <2>2. ASSUME NEW j \in call'.ids \ call'.left PROVE secret'[j] = Saved!NoSecret
    <3>1. CASE j = id
      BY <1>5, <1>7, <2>2, <3>1
    <3>2. CASE j # id
      BY <1>4, <1>5, <1>7, <2>1, <2>2, <3>2
    <3> QED
      BY <3>1, <3>2
  <2>3. call'.ids \subseteq list'.pending
    BY <1>1, <1>4, <2>1
  <2> QED
    BY <2>1, <2>2, <2>3 DEF WipeInv
<1> QED
  BY <1>9, <1>10, <1>11, <1>12, <1>13, <1>14 DEF SessionInv

LEMMA WipeEnds == ASSUME SessionInv, Saved!Forget PROVE SessionInv'
<1>1. /\ call.pc = "wipe" /\ call.left = {} /\ call' = Saved!NoTask /\ UNCHANGED <<answer, spoiled, secret>>
      /\ call.op \in {"delete", "retry"}
      /\ Saved!SaveAs([list EXCEPT !.pending = @ \ call.ids]) \/ UNCHANGED <<list, listDisk>>
  BY CallTypes DEF Saved!Forget, Saved!NoAnswer
<1>2. /\ list \in Lists /\ listDisk \in Lists /\ listDisk.auth = list.auth /\ listDisk.pending \subseteq list.pending
      /\ list.pending \subseteq Ids
  BY CallTypes DEF Lists
<1>3. SessionType /\ WipeInv /\ answer = Saved!NotYet
  BY <1>1 DEF SessionInv, SessionType, Calls
<1>4. \A j \in call.ids : secret[j] = Saved!NoSecret
  BY <1>1, <1>3 DEF WipeInv
<1>5. /\ list' \in Lists /\ listDisk' \in Lists /\ listDisk'.auth = list'.auth /\ listDisk'.pending \subseteq list'.pending
      /\ list'.auth = list.auth /\ list'.pending \subseteq list.pending /\ list.pending \ call.ids \subseteq list'.pending
  <2>1. CASE Saved!SaveAs([list EXCEPT !.pending = @ \ call.ids])
    <3>1. list' = [auth |-> list.auth, asked |-> list.asked, pending |-> list.pending \ call.ids] /\ listDisk' = list'
      BY <1>2, <2>1 DEF Saved!SaveAs, Lists
    <3> QED
      BY <1>2, <3>1 DEF Lists
  <2>2. CASE UNCHANGED <<list, listDisk>>
    BY <1>2, <2>2
  <2> QED
    BY <1>1, <2>1, <2>2
<1> DEFINE live == Saved!Live(list)
<1>6. live' = live /\ live \subseteq Ids /\ live \cap list.pending = {} /\ call.ids \subseteq list.pending
  BY <1>1, <1>3, <1>5 DEF Saved!Live, Saved!Exists, SessionInv, ListInv, WipeInv
<1> HIDE DEF live
<1>7. SessionType'
  BY <1>1, <1>3, <1>5 DEF SessionType, Calls, Saved!NoTask, Saved!NoSecret, Secrets, Changing
<1>8. ListInv'
  BY <1>5, <1>6 DEF ListInv, live
<1>9. FitInv'
  <2>1. \A j \in live \ spoiled : Fits(list.auth[j], secret[j])
    BY <1>6 DEF SessionInv, FitInv, live
  <2> QED
    BY <1>1, <1>5, <1>6, <2>1 DEF FitInv, live, Fits
<1>10. OwnedInv'
  <2>1. \A j \in Ids : secret[j] # Saved!NoSecret => j \in live \cup (list.pending \ call.ids) \cup spoiled
    BY <1>4, <1>6 DEF SessionInv, OwnedInv, live
  <2> QED
    BY <1>1, <1>5, <1>6, <2>1 DEF OwnedInv, live
<1>11. OneInv' /\ WipeInv' /\ UndoneInv'
  BY <1>1, <1>3 DEF OneInv, WipeInv, UndoneInv, Saved!NoTask, Saved!NotYet
<1> QED
  BY <1>7, <1>8, <1>9, <1>10, <1>11 DEF SessionInv

LEMMA CredentialSet == ASSUME SessionInv, Saved!SetCredential PROVE SessionInv'
<1>1. PICK id \in Saved!Live(list), p \in Passwords :
        /\ call = Saved!NoTask /\ (list.auth[id].source = "password" \/ list.auth[id].phrase)
        /\ secret' = [secret EXCEPT ![id].cred = p] /\ answer' = Saved!NotYet
        /\ UNCHANGED <<list, listDisk, call, spoiled>>
  BY DEF Saved!SetCredential
<1>2. secret \in [Ids -> Secrets] /\ id \in Ids /\ secret[id] \in Secrets
  BY CallTypes DEF Saved!Live
<1>3. /\ secret' \in [Ids -> Secrets] /\ \A j \in Ids \ {id} : secret'[j] = secret[j]
      /\ secret'[id] = [cred |-> p, key |-> secret[id].key]
  BY <1>1, <1>2 DEF Secrets
<1> DEFINE live == Saved!Live(list)
<1>4. live' = live /\ live \subseteq Ids /\ id \in live
  BY <1>1 DEF Saved!Live
<1> HIDE DEF live
<1>5. SessionType'
  BY <1>1, <1>3 DEF SessionInv, SessionType, Saved!NoTask, Saved!NotYet, Saved!NoSecret, Secrets
<1>6. ListInv'
  BY <1>1, <1>4 DEF SessionInv, ListInv, live
<1>7. FitInv'
  <2>1. \A j \in live \ (spoiled \cup call.ids) : Fits(list.auth[j], secret[j])
    BY DEF SessionInv, FitInv, live
  <2>2. \A j \in live \ (spoiled \cup call.ids) : Fits(list.auth[j], secret'[j])
    <3>1. ASSUME NEW j \in live \ (spoiled \cup call.ids) PROVE Fits(list.auth[j], secret'[j])
      <4>1. CASE j # id
        BY <1>3, <1>4, <2>1, <4>1
      <4>2. CASE j = id
        <5>1. secret[id].key # Bad /\ (secret[id].key # None <=> list.auth[id].source = "inline")
          BY <2>1, <4>2 DEF Fits
        <5>2. secret'[id].key = secret[id].key
          BY <1>3
        <5>3. ~(list.auth[id].source # "password" /\ ~list.auth[id].phrase)
          BY <1>1
        <5> QED
          BY <4>2, <5>1, <5>2, <5>3 DEF Fits
      <4> QED
        BY <4>1, <4>2
    <3> QED
      BY <3>1
  <2> QED
    BY <1>1, <1>4, <2>2 DEF FitInv, live, Fits
<1>8. OwnedInv'
  <2>1. \A j \in Ids : secret[j] # Saved!NoSecret => j \in live \cup list.pending \cup call.ids \cup spoiled
    BY DEF SessionInv, OwnedInv, live
  <2> QED
    BY <1>1, <1>3, <1>4, <2>1 DEF OwnedInv, live
<1>9. OneInv' /\ WipeInv' /\ UndoneInv'
  BY <1>1 DEF OneInv, WipeInv, UndoneInv, Saved!NoTask, Saved!NotYet
<1> QED
  BY <1>5, <1>6, <1>7, <1>8, <1>9 DEF SessionInv

LEMMA NoCall == Saved!NoTask.ids = {}
BY DEF Saved!NoTask

\* The process dies in the middle of a call.
LEMMA SessionCrash == ASSUME SessionInv, Saved!Crash PROVE SessionInv'
<1>1. /\ list' = listDisk /\ listDisk' = listDisk /\ call' = Saved!NoTask /\ answer' = Saved!NotYet /\ UNCHANGED secret
      /\ spoiled' = spoiled \cup (list.pending \ listDisk.pending)
                     \cup IF call.op \in {"create", "update", "login"} THEN call.ids ELSE {}
  BY DEF Saved!Crash
<1>2. /\ list \in Lists /\ listDisk \in Lists /\ listDisk.auth = list.auth /\ listDisk.pending \subseteq list.pending
      /\ list.pending \subseteq Ids
  BY CallTypes DEF Lists
<1> DEFINE live == Saved!Live(list)
<1>3. live' = live /\ live \subseteq Ids /\ live \cap list.pending = {}
  BY <1>1, <1>2 DEF Saved!Live, Saved!Exists, SessionInv, ListInv
<1>4. call.ids \subseteq Ids /\ (call.op \in {"create", "update", "login"} \/ call.ids \subseteq list.pending)
  <2>1. SessionType /\ WipeInv /\ call \in Calls
    BY DEF SessionInv, SessionType
  <2>2. call.op = "none" => call.ids = {}
    <3>1. call.op = "none" => call = Saved!NoTask
      BY <2>1 DEF SessionType
    <3> QED
      BY <3>1, NoCall
  <2> QED
    BY <2>1, <2>2 DEF Calls, WipeInv
<1> HIDE DEF live
<1>5. SessionType'
  <2>1. spoiled' \subseteq Ids
    BY <1>1, <1>2, <1>4 DEF SessionInv, SessionType
  <2>2. call' \in Calls
    BY <1>1 DEF Calls, Saved!NoTask, Saved!NoSecret, Secrets, Changing
  <2>3. answer' \in [how : {"none", "failed"}, id : Ids \cup {None}, before : Secrets] /\ answer'.how = "none"
    BY <1>1 DEF Saved!NotYet, Saved!NoSecret, Secrets
  <2>4. call'.op = "none"
    BY <1>1 DEF Saved!NoTask
  <2> QED
    BY <1>1, <1>2, <2>1, <2>2, <2>3, <2>4, CallTypes DEF SessionType
<1>6. ListInv'
  BY <1>1, <1>2, <1>3 DEF ListInv, live
<1>7. FitInv'
  <2>1. \A j \in live \ (spoiled \cup call.ids) : Fits(list.auth[j], secret[j])
    BY DEF SessionInv, FitInv, live
  <2>2. \A j \in live \ spoiled' : Fits(list'.auth[j], secret'[j])
    BY <1>1, <1>2, <1>3, <1>4, <2>1
  <2> QED
    BY <1>1, <1>3, <2>2 DEF FitInv, live, Fits
<1>8. OwnedInv'
  <2>1. \A j \in Ids : secret[j] # Saved!NoSecret => j \in live \cup list.pending \cup call.ids \cup spoiled
    BY DEF SessionInv, OwnedInv, live
  <2>2. \A j \in Ids : secret[j] # Saved!NoSecret => j \in live \cup listDisk.pending \cup spoiled'
    BY <1>1, <1>4, <2>1
  <2> QED
    BY <1>1, <1>3, <2>2 DEF OwnedInv, live
<1>9. OneInv' /\ WipeInv' /\ UndoneInv'
  BY <1>1 DEF OneInv, WipeInv, UndoneInv, Saved!NoTask, Saved!NotYet
<1> QED
  BY <1>5, <1>6, <1>7, <1>8, <1>9 DEF SessionInv

LEMMA SessionStep == SessionInv /\ [Saved!Next]_savedVars => SessionInv'
<1> SUFFICES ASSUME SessionInv, [Saved!Next]_savedVars PROVE SessionInv'
  OBVIOUS
<1>1. CASE UNCHANGED savedVars
  <2>1. UNCHANGED <<list, listDisk, secret, call, answer, spoiled>>
    BY <1>1 DEF savedVars
  <2>2. SessionType' /\ ListInv' /\ FitInv'
    BY <2>1 DEF SessionInv, SessionType, ListInv, FitInv, Fits, Saved!Live, Saved!Exists
  <2>3. OwnedInv' /\ WipeInv' /\ UndoneInv'
    BY <2>1 DEF SessionInv, OwnedInv, WipeInv, UndoneInv, Saved!Live, Saved!Exists
  <2>4. OneInv'
    BY <2>1 DEF SessionInv, OneInv, Progress, Fits, After, Saved!Live, Saved!Exists
  <2> QED
    BY <2>2, <2>3, <2>4 DEF SessionInv
<1>2. CASE Saved!Next
  BY <1>2, CallStarts, CallChanges, CallReads, CallSaves, CallUndoes, CallCleans, LoginSaves, LoginAsked,
     WipeBegins, WipeGoes, WipeEnds, CredentialSet, SessionCrash DEF Saved!Next
<1> QED
  BY <1>1, <1>2

\* What the invariant says of calls that are over.
LEMMA SessionsOwn == SessionInv => Saved!SecretsOwned /\ Saved!SecretsFit /\ Saved!FailureUndone
<1> SUFFICES ASSUME SessionInv PROVE Saved!SecretsOwned /\ Saved!SecretsFit /\ Saved!FailureUndone
  OBVIOUS
<1>1. Saved!SecretsOwned
  BY DEF SessionInv, ListInv, OwnedInv, Saved!SecretsOwned
<1>2. Saved!SecretsFit
  <2>1. Saved!Idle => call.ids = {}
    BY NoCall DEF Saved!Idle
  <2>2. FitInv
    BY DEF SessionInv
  <2> QED
    BY <2>1, <2>2 DEF FitInv, Fits, Saved!SecretsFit
<1>3. Saved!FailureUndone
  BY DEF SessionInv, UndoneInv, Saved!FailureUndone
<1> QED
  BY <1>1, <1>2, <1>3

\* Whichever access or save fails: a save of a private key that answers has replaced
\* it as a whole or, when its roll-back worked, not at all, and leaves no chunk behind;
\* every secret belongs to a session it fits or is queued for deletion; a call that
\* failed and could roll back has changed none.  Nothing is said of a
\* session that a crash or a failed roll-back left half changed; of the others it is.
THEOREM SecretsAreWhole == Vault!Spec /\ Saved!Spec => []SecretsWhole
<1>1. Vault!Spec => []VaultInv
  <2>1. VaultInv /\ [Vault!Next]_Vault!vars => VaultInv'
    BY VaultStep DEF vaultVars, Vault!vars
  <2> QED
    BY VaultInit, <2>1, PTL DEF Vault!Spec
<1>2. Saved!Spec => []SessionInv
  <2>1. SessionInv /\ [Saved!Next]_Saved!vars => SessionInv'
    BY SessionStep DEF savedVars, Saved!vars
  <2> QED
    BY SessionInit, <2>1, PTL DEF Saved!Spec
<1>3. VaultInv /\ SessionInv => SecretsWhole
  BY SessionsOwn DEF VaultInv, SecretsWhole
<1> QED
  BY <1>1, <1>2, <1>3, PTL
=============================================================================
