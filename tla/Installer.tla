------------------------------ MODULE Installer ------------------------------
(***************************************************************************)
(* Installation with administrator rights (broker                          *)
(* installation/transaction.rs): deploy, which is an update too, uninstall *)
(* and recover, under one lock and over the files of one directory, with a *)
(* journal and copies of what is replaced; errors, crashes and restarts of *)
(* the machine between any two steps.                                      *)
(***************************************************************************)
EXTENDS Naturals

CONSTANTS MaxVersion,  \* packages are versions 1..MaxVersion
          MaxErrors, MaxCrashes, MaxSaves,  \* bounds: steps that fail, crashes, changes saved
          None

VARIABLES programs,  \* version of each program, 0 when it is not there
          service,   \* "none", "stopped" or "running"
          database,  \* of credentials: None, or changes saved in it
          copy,      \* credentials.rollback.db
          record,    \* version of active.json, 0 when it is not there
          registered,\* and of the registration of Windows
          journal,   \* transaction.json: None, or [old, existing, database, registered]; saved is history
          rollback,  \* rollback-N.bin: None or the version
          op,        \* [kind, new, step, n, was] of the operation that has the lock
          errors, crashes

vars == <<programs, service, database, copy, record, registered, journal, rollback, op, errors, crashes>>

Programs == 1..3   \* fstty.exe, fstty-broker.exe, uninstall.exe
NoOp == [kind |-> "none", new |-> 0, step |-> "end", n |-> 1, was |-> FALSE]

Init ==
  /\ programs = [n \in Programs |-> 0] /\ service = "none" /\ database = None /\ copy = None
  /\ record = 0 /\ registered = 0 /\ journal = None /\ rollback = [n \in Programs |-> None]
  /\ op = NoOp /\ errors = 0 /\ crashes = 0

At(step) == op.kind # "none" /\ op.step = step
Goto(step) == op' = [op EXCEPT !.step = step, !.n = 1]
End == op' = NoOp
Each(step) == IF op.n < 3 THEN op' = [op EXCEPT !.n = @ + 1] ELSE Goto(step)

disk == <<programs, record, registered, journal, rollback>>
faults == <<errors, crashes>>

\* authority takes the lock; every operation recovers first.
Lock(kind, new) ==
  /\ op.kind = "none" /\ op' = [NoOp EXCEPT !.kind = kind, !.new = new, !.step = "recover"]
  /\ UNCHANGED <<disk, service, database, copy, faults>>

\* What follows a recovery: the operation, or its end with the error it had.
Continue == IF op.kind \in {"deploy", "uninstall"} THEN Goto("check") ELSE End
-----------------------------------------------------------------------------
\* recover_locked.

Recover ==
  /\ At("recover")
  /\ IF journal = None THEN Continue /\ UNCHANGED service
     ELSE service' = (IF service = "none" THEN "none" ELSE "stopped") /\ Goto("restore")
  /\ UNCHANGED <<disk, database, copy, faults>>

\* Changed: only what has a copy is put back.
RestoreCopied ==
  /\ At("restore")
  /\ IF journal.existing[op.n] /\ rollback[op.n] = None THEN End /\ UNCHANGED programs
     ELSE /\ programs' = [programs EXCEPT ![op.n] = IF journal.existing[op.n] THEN rollback[op.n] ELSE @]
          /\ Each("service")
  /\ UNCHANGED <<service, database, copy, record, registered, journal, rollback, faults>>

Restore ==
  /\ At("restore")
  /\ IF journal.existing[op.n] /\ rollback[op.n] = None THEN End /\ UNCHANGED programs
     ELSE /\ programs' = [programs EXCEPT ![op.n] = IF journal.existing[op.n] THEN rollback[op.n] ELSE 0]
          /\ Each("service")
  /\ UNCHANGED <<service, database, copy, record, registered, journal, rollback, faults>>

\* install, which starts the service; a service that starts has a database.
Started(db) == service' = "running" /\ database' = IF db = None THEN 0 ELSE db

RestoreService ==
  /\ At("service") /\ Goto("record")
  /\ IF journal.existing[2] THEN Started(IF journal.database /\ copy # None THEN copy ELSE database)
     ELSE service' = "none" /\ UNCHANGED database
  /\ UNCHANGED <<disk, copy, faults>>

RestoreRecord ==
  /\ At("record") /\ Goto("registration") /\ record' = journal.old
  /\ UNCHANGED <<programs, registered, journal, rollback, service, database, copy, faults>>

RestoreRegistration ==
  /\ At("registration") /\ Goto("cleanup")
  /\ registered' = IF journal.old # 0 THEN journal.old ELSE journal.registered
  /\ UNCHANGED <<programs, record, journal, rollback, service, database, copy, faults>>

\* Changed: the journal goes last.
CleanupCopiesFirst ==
  /\ \/ At("cleanup") /\ rollback' = [rollback EXCEPT ![op.n] = None] /\ Each("copies") /\ UNCHANGED journal
     \/ At("copies") /\ journal' = None /\ Continue /\ UNCHANGED rollback
  /\ UNCHANGED <<programs, record, registered, service, database, copy, faults>>

\* cleanup, of a recovery or of a deployment.
Cleanup ==
  /\ \/ At("cleanup") /\ journal' = None /\ Goto("copies") /\ UNCHANGED rollback
     \/ /\ At("copies") /\ rollback' = [rollback EXCEPT ![op.n] = None] /\ UNCHANGED journal
        /\ IF op.n < 3 THEN op' = [op EXCEPT !.n = @ + 1] ELSE Continue
  /\ UNCHANGED <<programs, record, registered, service, database, copy, faults>>
-----------------------------------------------------------------------------
\* deploy_inner.

\* No downgrade.  Past this, a recovery ends the operation.
Check ==
  /\ At("check") /\ op.kind = "deploy"
  /\ IF op.new < record \/ op.new < programs[1] THEN End
     ELSE op' = [op EXCEPT !.kind = "deploying", !.step = "stop"]
  /\ UNCHANGED <<disk, service, database, copy, faults>>

\* prepare_upgrade, up to the copy of the database.
Stop ==
  /\ At("stop") /\ service' = (IF service = "none" THEN "none" ELSE "stopped")
  /\ op' = [op EXCEPT !.step = "database", !.was = (service = "running")]
  /\ UNCHANGED <<disk, database, copy, faults>>

\* Changed: a copy that is there is kept.
CopyOnce ==
  /\ At("database") /\ copy' = (IF copy = None THEN database ELSE copy) /\ Goto("backup")
  /\ UNCHANGED <<disk, service, database, faults>>

CopyDatabase ==
  /\ At("database") /\ copy' = (IF database = None THEN copy ELSE database) /\ Goto("backup")
  /\ UNCHANGED <<disk, service, database, faults>>

Backup ==
  /\ At("backup") /\ rollback' = [rollback EXCEPT ![op.n] = programs[op.n]] /\ Each("journal")
  /\ UNCHANGED <<programs, record, registered, journal, service, database, copy, faults>>

WriteJournal ==
  /\ At("journal") /\ Goto("replace")
  /\ journal' = [old |-> record, existing |-> [n \in Programs |-> programs[n] # 0],
                 database |-> database # None, registered |-> registered, saved |-> database]
  /\ UNCHANGED <<programs, record, registered, rollback, service, database, copy, faults>>

Replace ==
  /\ At("replace") /\ programs' = [programs EXCEPT ![op.n] = op.new] /\ Each("install")
  /\ UNCHANGED <<record, registered, journal, rollback, service, database, copy, faults>>

Install ==
  /\ At("install") /\ Started(database) /\ Goto("register")
  /\ UNCHANGED <<disk, copy, faults>>

Register ==
  /\ At("register") /\ registered' = op.new /\ Goto("activate")
  /\ UNCHANGED <<programs, record, journal, rollback, service, database, copy, faults>>

Activate ==
  /\ At("activate") /\ record' = op.new /\ Goto("cleanup")
  /\ UNCHANGED <<programs, registered, journal, rollback, service, database, copy, faults>>
-----------------------------------------------------------------------------
\* uninstall.

Remove ==
  /\ At("check") /\ op.kind = "uninstall"
  /\ IF record = 0 THEN End /\ UNCHANGED service ELSE Goto("delete") /\ service' = "none"
  /\ UNCHANGED <<disk, database, copy, faults>>

Delete ==
  /\ At("delete") /\ programs' = [programs EXCEPT ![1] = 0] /\ Goto("unregister")
  /\ UNCHANGED <<record, registered, journal, rollback, service, database, copy, faults>>

Unregister ==
  /\ At("unregister") /\ registered' = 0 /\ Goto("forget")
  /\ UNCHANGED <<programs, record, journal, rollback, service, database, copy, faults>>

Forget ==
  /\ At("forget") /\ record' = 0 /\ End
  /\ UNCHANGED <<programs, registered, journal, rollback, service, database, copy, faults>>
-----------------------------------------------------------------------------
\* Errors, crashes, and the service at work.

\* The end of deploy_inner after an error.
Undo ==
  IF journal # None THEN Goto("recover") /\ UNCHANGED <<service, database>>
  ELSE End /\ IF op.was THEN Started(database) ELSE UNCHANGED <<service, database>>

\* A step fails: that of a deployment that has changed something undoes it.
Fail ==
  /\ op.kind # "none" /\ errors < MaxErrors /\ errors' = errors + 1
  /\ IF op.kind = "deploying" /\ op.step \in {"database", "backup", "journal", "replace", "install", "register", "activate"}
     THEN Undo ELSE End /\ UNCHANGED <<service, database>>
  /\ UNCHANGED <<disk, copy, crashes>>

Crash ==
  /\ op.kind # "none" /\ crashes < MaxCrashes /\ crashes' = crashes + 1 /\ End
  /\ UNCHANGED <<disk, service, database, copy, errors>>

\* The machine starts, and with it the service.
Boot ==
  /\ op.kind = "none" /\ service = "stopped" /\ programs[2] # 0 /\ Started(database)
  /\ UNCHANGED <<disk, copy, op, faults>>

\* The active desktop, which its record lets start, saves a credential.
Save ==
  /\ service = "running" /\ database < MaxSaves /\ record # 0 /\ programs[1] = record
  /\ database' = database + 1
  /\ UNCHANGED <<disk, service, copy, op, faults>>

Kinds == {"uninstall", "recover"}

Next ==
  \/ \E new \in 1..MaxVersion : Lock("deploy", new)
  \/ \E kind \in Kinds : Lock(kind, 0)
  \/ Recover \/ Restore \/ RestoreService \/ RestoreRecord \/ RestoreRegistration \/ Cleanup
  \/ Check \/ Stop \/ CopyDatabase \/ Backup \/ WriteJournal \/ Replace \/ Install \/ Register \/ Activate
  \/ Remove \/ Delete \/ Unregister \/ Forget \/ Fail \/ Crash \/ Boot \/ Save

Spec == Init /\ [][Next]_vars
-----------------------------------------------------------------------------
\* Without a journal, whatever failed or crashed before, the machine has one
\* version: programs, record and registration agree, but for what an uninstall
\* that did not end has removed.
OneVersion ==
  (op.kind = "none" /\ journal = None) =>
    /\ programs[2] = programs[3] /\ programs[1] \in {0, record} /\ registered \in {0, record}
    /\ (record # 0 => programs[2] = record)

\* A journal always has the copies it needs: a recovery that failed or crashed
\* can be tried again.
Recoverable == journal # None => \A n \in Programs : journal.existing[n] => rollback[n] \notin {None, 0}

\* Credentials go back only with a rollback, and to those its own upgrade found,
\* never to the copy an earlier upgrade has left.
OwnCopy == [][(database # None /\ database' # database /\ database' # database + 1) => database' = journal.saved]_vars

\* An installation that has been committed is not rolled back: its version only
\* grows, or is uninstalled.
CommittedStays == [][record' \in {0} \cup record..MaxVersion]_vars
=============================================================================
