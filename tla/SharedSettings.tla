---------------------------- MODULE SharedSettings ----------------------------
(***************************************************************************)
(* The settings file (services/settings_service.rs) and the database of    *)
(* the MCP permissions (services/mcp_command_policy_service.rs) as several *)
(* processes use them: the desktop and the stdio servers of the MCP        *)
(* clients load both when they start, move the permissions of an older     *)
(* settings file to the database and write the file without them; the      *)
(* desktop saves whatever the user changes.                                *)
(***************************************************************************)
EXTENDS Naturals

CONSTANTS Gui, Agents,  \* the desktop, the stdio servers
          Values,       \* values of the setting that is looked at
          First,        \* its default value
          MaxSaves, MaxCrashes,  \* bounds
          None, Torn            \* no such file; one that is written

Processes == Agents \cup {Gui}

VARIABLES primary, backup, temp,  \* files: None, Torn, or what was written
          version, migrated,      \* user_version and legacySettingsMigrated of the database
          rows,                   \* its permissions: "none", "legacy" or "edited"
          at, memory, trusted,    \* of each process: its step, the settings in
                                  \* memory, primary_trusted
          moved,                  \* mcp_permissions_externalized
          handle,                 \* the name that the file opened as temp has now
          told,                   \* the value that the desktop shows outside a save
          saves, crashes

files == <<primary, backup, temp>>
database == <<version, migrated, rows>>
process == <<at, memory, trusted, moved, handle>>
vars == <<files, database, process, told, saves, crashes>>

Was == [value |-> First, permissions |-> "legacy"]
Proper(file) == file \notin {None, Torn}

Init ==
  /\ primary = Was /\ backup = None /\ temp = None
  /\ version \in 0 .. 1 /\ migrated = FALSE /\ rows = "none"
  /\ at = [p \in Processes |-> "off"] /\ memory = [p \in Processes |-> [value |-> First, permissions |-> "none"]]
  /\ trusted = [p \in Processes |-> FALSE] /\ moved = [p \in Processes |-> FALSE]
  /\ handle = [p \in Processes |-> "none"]
  /\ told = First /\ saves = 0 /\ crashes = 0

Goto(p, step) == at' = [at EXCEPT ![p] = step]
Knows(p, settings, trust) == memory' = [memory EXCEPT ![p] = settings] /\ trusted' = [trusted EXCEPT ![p] = trust]
-----------------------------------------------------------------------------
\* Starting.

\* The first half of load: what the primary holds.
LoadPrimary(p) ==
  /\ at[p] = "off"
  /\ IF Proper(primary) THEN Knows(p, primary, TRUE) /\ Goto(p, "open")
     ELSE Goto(p, IF primary = None THEN "absent" ELSE "damaged") /\ UNCHANGED <<memory, trusted>>
  /\ told' = (IF p = Gui THEN memory'[p].value ELSE told)
  /\ UNCHANGED <<files, database, moved, handle, saves, crashes>>

\* The second: the backup, or the defaults.
LoadBackup(p) ==
  /\ at[p] \in {"absent", "damaged"} /\ Goto(p, "open")
  /\ IF Proper(backup) THEN Knows(p, backup, FALSE)
     ELSE Knows(p, [value |-> First, permissions |-> "none"], at[p] = "absent")
  /\ told' = (IF p = Gui THEN memory'[p].value ELSE told)
  /\ UNCHANGED <<files, database, moved, handle, saves, crashes>>

\* Changed: a database of this version counts as one that was migrated.
OpenCurrent(p) ==
  /\ at[p] = "open" /\ Goto(p, IF version = 2 THEN "list" ELSE "migrate") /\ version' = 2
  /\ UNCHANGED <<files, migrated, rows, memory, trusted, moved, handle, told, saves, crashes>>

\* open_database: the schema, in a transaction of its own.
Open(p) ==
  /\ at[p] = "open" /\ Goto(p, "migrate") /\ version' = 2
  /\ UNCHANGED <<files, migrated, rows, memory, trusted, moved, handle, told, saves, crashes>>

\* Changed: whether the permissions were moved is told by the table alone.
MigrateEmpty(p) ==
  /\ at[p] = "migrate" /\ Goto(p, "list")
  /\ migrated' = TRUE /\ rows' = IF rows = "none" THEN memory[p].permissions ELSE rows
  /\ UNCHANGED <<files, version, memory, trusted, moved, handle, told, saves, crashes>>

\* migrate_legacy: the first process moves its permissions to an empty table.
Migrate(p) ==
  /\ at[p] = "migrate" /\ Goto(p, "list")
  /\ migrated' = TRUE
  /\ rows' = IF ~migrated /\ rows = "none" THEN memory[p].permissions ELSE rows
  /\ UNCHANGED <<files, version, memory, trusted, moved, handle, told, saves, crashes>>

\* list_permissions and externalize_mcp_permissions, up to persist.
Externalize(p) ==
  /\ at[p] = "list" /\ Goto(p, "create")
  /\ memory' = [memory EXCEPT ![p].permissions = rows] /\ moved' = [moved EXCEPT ![p] = TRUE]
  /\ UNCHANGED <<files, database, trusted, handle, told, saves, crashes>>
-----------------------------------------------------------------------------
\* persist.

Content(p) == IF moved[p] THEN [memory[p] EXCEPT !.permissions = "none"] ELSE memory[p]

\* Who has opened the temporary file keeps it under its new name.
Renamed(from, to) == [q \in Processes |-> IF handle[q] = from THEN to ELSE IF handle[q] = to THEN "gone" ELSE handle[q]]

Create(p) ==
  /\ at[p] = "create" /\ Goto(p, "write") /\ temp' = Torn /\ handle' = [handle EXCEPT ![p] = "temp"]
  /\ UNCHANGED <<primary, backup, database, memory, trusted, moved, told, saves, crashes>>

Write(p) ==
  /\ at[p] = "write" /\ Goto(p, "exists") /\ handle' = [handle EXCEPT ![p] = "none"]
  /\ primary' = IF handle[p] = "primary" THEN Content(p) ELSE primary
  /\ backup' = IF handle[p] = "backup" THEN Content(p) ELSE backup
  /\ temp' = IF handle[p] = "temp" THEN Content(p) ELSE temp
  /\ UNCHANGED <<database, memory, trusted, moved, told, saves, crashes>>

Exists(p) ==
  /\ at[p] = "exists"
  /\ Goto(p, IF primary = None THEN "commit" ELSE IF trusted[p] THEN "drop" ELSE "replace")
  /\ UNCHANGED <<files, database, memory, trusted, moved, handle, told, saves, crashes>>

DropBackup(p) ==
  /\ at[p] = "drop" /\ Goto(p, "keep") /\ backup' = None
  /\ handle' = [q \in Processes |-> IF handle[q] = "backup" THEN "gone" ELSE handle[q]]
  /\ UNCHANGED <<primary, temp, database, memory, trusted, moved, told, saves, crashes>>

\* The save has failed: the desktop puts the former settings back.
Failed(p) ==
  /\ Goto(p, IF p = Gui THEN "ready" ELSE "serving") /\ memory' = [memory EXCEPT ![p].value = IF p = Gui THEN told ELSE @]
  /\ UNCHANGED <<trusted, moved, told>>

KeepBackup(p) ==
  /\ at[p] = "keep"
  /\ IF primary = None THEN Failed(p) /\ UNCHANGED <<files, handle>>
     ELSE /\ backup' = primary /\ primary' = None /\ handle' = Renamed("primary", "backup") /\ Goto(p, "commit")
          /\ UNCHANGED <<temp, memory, trusted, moved, told>>
  /\ UNCHANGED <<database, saves, crashes>>

ReplacePrimary(p) ==
  /\ at[p] = "replace"
  /\ IF primary = None THEN Failed(p) /\ UNCHANGED <<files, handle>>
     ELSE /\ primary' = None /\ Goto(p, "commit")
          /\ handle' = [q \in Processes |-> IF handle[q] = "primary" THEN "gone" ELSE handle[q]]
          /\ UNCHANGED <<backup, temp, memory, trusted, moved, told>>
  /\ UNCHANGED <<database, saves, crashes>>

\* The last rename, or the backup copied where the primary is gone.
Commit(p) ==
  /\ at[p] = "commit"
  /\ IF temp # None
     THEN /\ primary' = temp /\ temp' = None /\ handle' = Renamed("temp", "primary")
          /\ trusted' = [trusted EXCEPT ![p] = TRUE] /\ Goto(p, IF p = Gui THEN "ready" ELSE "serving")
          /\ told' = (IF p = Gui THEN memory[p].value ELSE told) /\ UNCHANGED <<backup, memory, moved>>
     ELSE /\ primary' = (IF primary = None THEN backup ELSE primary) /\ Failed(p) /\ UNCHANGED <<backup, temp, handle>>
  /\ UNCHANGED <<database, saves, crashes>>
-----------------------------------------------------------------------------
\* The user changes the setting, the permissions, or removes the last group.
Change ==
  /\ at[Gui] = "ready" /\ saves < MaxSaves /\ saves' = saves + 1 /\ Goto(Gui, "create")
  /\ \E v \in Values : memory' = [memory EXCEPT ![Gui].value = v]
  /\ UNCHANGED <<files, database, trusted, moved, handle, told, crashes>>

Edit ==
  /\ at[Gui] = "ready" /\ rows' \in {"none", "edited"}
  /\ UNCHANGED <<files, version, migrated, process, told, saves, crashes>>

\* reload_mcp_runtime_settings, at a call of a client: no file is an error.
Reload(p) ==
  /\ at[p] = "serving" /\ Proper(primary) /\ memory' = [memory EXCEPT ![p].value = primary.value]
  /\ UNCHANGED <<files, database, at, trusted, moved, handle, told, saves, crashes>>

\* A process ends at any time.
Ends(p) ==
  /\ at[p] # "off" /\ crashes < MaxCrashes /\ crashes' = crashes + 1 /\ Goto(p, "off")
  /\ handle' = [handle EXCEPT ![p] = "none"] /\ moved' = [moved EXCEPT ![p] = FALSE]
  /\ UNCHANGED <<files, database, memory, trusted, told, saves>>

Next ==
  \/ Change \/ Edit
  \/ \E p \in Processes :
       \/ LoadPrimary(p) \/ LoadBackup(p) \/ Open(p) \/ Migrate(p) \/ Externalize(p) \/ Create(p) \/ Write(p)
       \/ Exists(p) \/ DropBackup(p) \/ KeepBackup(p) \/ ReplacePrimary(p) \/ Commit(p) \/ Reload(p) \/ Ends(p)

Spec == Init /\ [][Next]_vars
-----------------------------------------------------------------------------
\* The permissions of an older version reach the database exactly once: until
\* they have, every start still finds them in the settings file.
PermissionsMove == ~migrated => Proper(primary) /\ primary.permissions = "legacy"

\* They reach it as they were, whatever settings the process that moves them has.
RightsArrive == [][migrated' # migrated => migrated' /\ rows = "none" /\ rows' = "legacy"]_vars

\* Only the user changes permissions that are in the database: no process that
\* starts late, with settings it read before, brings back what was removed.
RowsOnlyEdited == [][migrated /\ rows' # rows => at[Gui] = "ready" /\ UNCHANGED process]_vars

\* What the user chose is saved: while no process is at a save, the file holds
\* what the desktop shows, so that its next start shows it again.
Idle == \A p \in Processes : at[p] \in {"off", "ready", "serving"}
SavedStays == Idle /\ at[Gui] = "ready" /\ Proper(primary) => primary.value = told
=============================================================================
