--------------------------- MODULE MCDurableState ---------------------------
(***************************************************************************)
(* What has to survive the process: the file of lightweight mode, the files *)
(* of sessions and settings, the credential store, the sessions with their *)
(* secrets, the order of the workspace, the programs themselves with their *)
(* update and their installation, and the settings that the desktop shares *)
(* with the programs of agents.  They share no state: a behaviour of this  *)
(* instance is one of the component it starts with, the others stay in one *)
(* initial state.                                                          *)
(***************************************************************************)
EXTENDS LightweightStore, FiniteSets, Sequences, TLC

CONSTANTS normal, silent, active,  \* versions of a file
          FileValues,                              \* contents of the list or the settings
          Unknown, None, Bad, Damaged, chunk1, chunk2, pc1, home, work, lab,
          Ids, Passwords, Pasted,                  \* of sessions: secrets are typed, keys pasted
          PrivateKeys, Chunks, MaxChunks,          \* of the credential store
          Desktops, Helpers, MaxTickets,           \* of an update
          MaxVersion, MaxErrors, MaxStored,        \* of an installation
          Others, Pids,                            \* of the processes on the computer
          Objects,                                 \* of a program's file
          Gui, Agents, MaxSaves, MaxCrashes, Torn  \* of the settings that programs share

\* Names of different kinds differ.
ASSUME NamesAssumption ==
  /\ Desktops \cap Helpers = {} /\ None \notin Nat \cup Desktops \cup Pids \cup Objects
  /\ \A v \in Values : [value |-> v, permissions |-> "legacy"] \notin {None, Torn}
ASSUME FileAssumption == Default \in FileValues /\ {Absent, Corrupt, Unknown} \cap FileValues = {}

\* Keys are cut in at most MaxChunks chunks.
ASSUME VaultAssumption ==
  /\ MaxChunks \in Nat /\ \A k \in PrivateKeys : k \in Seq(Chunks) /\ Len(k) <= MaxChunks
  /\ {None, Damaged} \cap PrivateKeys = {} /\ None # Damaged /\ Passwords \cap PrivateKeys = {}
ASSUME SecretAssumption ==
  /\ None \notin Passwords \cup Pasted \cup [source : {"password", "file", "inline"}, phrase : BOOLEAN]
  /\ Bad \notin Passwords \cup Pasted \cup {None}
ASSUME InstallationAssumption == MaxVersion \in Nat /\ Objects # {}
ASSUME JournalAssumption ==
  None \notin [old : Nat, existing : [1..3 -> BOOLEAN], database : BOOLEAN, registered : Nat, saved : Nat \cup {None}]

VARIABLES component,
          kind, main, bak, tmp, legacy, value, mainTrusted, blocked, saving, saved, spent,
          vault, request, reply,
          list, listDisk, secret, call, answer, spoiled,
          ssh, local, group, order, move,
          pending, desk, ticket, manifest, installer, claimed, upload, issued, helper, installs,
          programs, service, database, copy, record, registered, journal, rollback, op, errors, crashes,
          pid, alive, confirm, scan, round, left, targets, place, approved, killed, since,
          plain, guard, entry, content, linked, busy, step, held, scratch,
          shared, sharedBackup, sharedTemp, version, migrated, rows, at, memory, sure, moved, handle, told, saves, ends

Stores == {normal, silent, active}
Halves == {<<chunk1>>, <<chunk1, chunk2>>, <<chunk2, chunk1>>}
Sym    == Permutations(Ids)

File == INSTANCE StoreFile WITH Values <- FileValues,
          primary <- main, backup <- bak, temp <- tmp, current <- value, trusted <- mainTrusted,
          save <- saving, kept <- saved
Vault == INSTANCE CredentialVault WITH Keys <- PrivateKeys, Garbage <- Bad, task <- request, last <- reply
Saved == INSTANCE Sessions WITH Keys <- Pasted,
          store <- list, disk <- listDisk, task <- call
Order == INSTANCE Workspace WITH Remote <- Ids, Local <- {pc1}, Groups <- {home, work, lab}, Ungrouped <- home

Update == INSTANCE AppUpdate
Package == INSTANCE Installer WITH MaxSaves <- MaxStored
Closing == INSTANCE DesktopShutdown WITH step <- scan
Program == INSTANCE ProgramFile WITH temp <- scratch
Shared  == INSTANCE SharedSettings WITH First <- Default, primary <- shared, backup <- sharedBackup,
             temp <- sharedTemp, trusted <- sure, crashes <- ends

fileVars  == <<kind, main, bak, tmp, legacy, value, mainTrusted, blocked, saving, saved, spent>>
vaultVars == <<vault, request, reply>>
savedVars == <<list, listDisk, secret, call, answer, spoiled>>
orderVars == <<ssh, local, group, order, move>>
profileVars == <<fileVars, vaultVars, savedVars, orderVars>>

updateVars  == <<pending, desk, ticket, manifest, installer, claimed, upload, issued, helper, installs>>
packageVars == <<programs, service, database, copy, record, registered, journal, rollback, op, errors, crashes>>
desktopVars == <<pid, alive, confirm, scan, round, left, targets, place, approved, killed, since>>
programVars == <<plain, guard, entry, content, linked, busy, step, held, scratch>>
setupVars   == <<updateVars, packageVars, desktopVars, programVars>>
rightsVars  ==
  <<shared, sharedBackup, sharedTemp, version, migrated, rows, at, memory, sure, moved, handle, told, saves, ends>>

In(c) == component = c

MCInit ==
  /\ component \in {"mode", "file", "vault", "sessions", "workspace", "update", "package", "desktops", "program", "rights"}
  /\ Init /\ (In("mode") \/ {primary, backup, temp} = {Absent})
  /\ File!Init /\ (In("file") \/ (kind = "settings" /\ {main, bak, tmp} = {Absent}))
  /\ Vault!Init /\ Saved!Init /\ Order!Init /\ Update!Init /\ Package!Init
  /\ Closing!Init /\ (In("desktops") \/ (~confirm /\ alive = {}))
  /\ Program!Init /\ (In("program") \/ (plain /\ entry = None))
  /\ Shared!Init /\ (In("rights") \/ version = 0)

MCNext ==
  /\ UNCHANGED component
  /\ \/ In("mode") /\ Next /\ UNCHANGED <<profileVars, setupVars, rightsVars>>
     \/ In("file") /\ File!Next /\ UNCHANGED <<vars, vaultVars, savedVars, orderVars, setupVars, rightsVars>>
     \/ In("vault") /\ Vault!Next /\ UNCHANGED <<vars, fileVars, savedVars, orderVars, setupVars, rightsVars>>
     \/ In("sessions") /\ Saved!Next /\ UNCHANGED <<vars, fileVars, vaultVars, orderVars, setupVars, rightsVars>>
     \/ In("workspace") /\ Order!Next /\ UNCHANGED <<vars, fileVars, vaultVars, savedVars, setupVars, rightsVars>>
     \/ In("update") /\ Update!Next /\ UNCHANGED <<vars, profileVars, packageVars, desktopVars, programVars, rightsVars>>
     \/ In("package") /\ Package!Next /\ UNCHANGED <<vars, profileVars, updateVars, desktopVars, programVars, rightsVars>>
     \/ In("desktops") /\ Closing!Next /\ UNCHANGED <<vars, profileVars, updateVars, packageVars, programVars, rightsVars>>
     \/ In("program") /\ Program!Next /\ UNCHANGED <<vars, profileVars, updateVars, packageVars, desktopVars, rightsVars>>
     \/ In("rights") /\ Shared!Next /\ UNCHANGED <<vars, profileVars, setupVars>>

MCSpec == MCInit /\ [][MCNext]_<<component, vars, profileVars, setupVars, rightsVars>>

\* Bound: a behaviour is not followed further once the secrets of two sessions
\* have been left half changed.
FewSpoiled == Cardinality(spoiled) <= 1
-----------------------------------------------------------------------------
\* The files of sessions and settings hold what was saved last (persist_store,
\* SettingsService::persist), and a moved session lands where it was dropped
\* (reorder_workspace_session): see StoreFile and Workspace.
SavesLast == []File!LastSaveKept /\ Order!MoveLands

\* A save of a key that was answered has replaced it as a whole or, if it failed
\* and could roll back, not at all, and leaves nothing behind
\* (CredentialBackend::set_private_key); secrets belong to a session, fit it, and
\* go back with it when a step fails (SessionService), except where a crash or a
\* failed roll-back left them half changed: see CredentialVault and Sessions.
SecretsWhole ==
  /\ Vault!KeyAtomic /\ Vault!NothingLeft
  /\ Saved!SecretsOwned /\ Saved!SecretsFit /\ Saved!FailureUndone

\* One update is installed at a time, each ticket once (update.rs): see AppUpdate.
UpdateOnce == Update!OneInstaller /\ Update!TicketOnce

\* Rights of an older version reach the database, whichever process starts first,
\* and then no late process brings back what the user removed (settings_service.rs,
\* mcp_command_policy_service.rs): see SharedSettings.
RightsMoveOnce == []Shared!PermissionsMove /\ Shared!RightsArrive /\ Shared!RowsOnlyEdited

\* An installation or its recovery ends with one version, or can be repeated
\* (transaction.rs: see Installer); its files are replaced where they were verified,
\* as a whole, and with no desktop that runs them (files.rs, desktop_shutdown.rs:
\* see ProgramFile, DesktopShutdown).
InstallationWhole ==
  /\ Package!OneVersion /\ Package!Recoverable
  /\ Program!DirectoryStays /\ Program!WholeProgram
  /\ Closing!OnlyDesktopsKilled /\ Closing!AllClosed

\* No step of it takes what it did not make: credentials return only to what this
\* upgrade found, other names of a file keep what they refer to (same modules).
InstallationKeeps == Package!OwnCopy /\ Program!OtherNamesKept

-----------------------------------------------------------------------------
\* Not in the configuration, for they do not hold: the claim of transaction.rs:383
\* that a failed cleanup takes nothing back, that of persistence.rs:82 that the last
\* trusted version is never lost, and that of the manual (src/README.md:164) that a
\* switch takes effect at once and is saved.
CommittedStays == Package!CommittedStays
LastVersionExists == File!LastVersionExists
SavedStays == Shared!SavedStays
=============================================================================
