--------------------------- MODULE CredentialBroker ---------------------------
(***************************************************************************)
(* The credentials of one user in the broker service, and the FsTTY        *)
(* desktop that has them changed (broker/src/store.rs, service.rs,         *)
(* admin.rs; broker_service.rs, session_service/broker_windows.rs).        *)
(*                                                                         *)
(* A change is staged, reviewed and approved in an elevated window, which  *)
(* is another process: it outlives a desktop that dies, and what it        *)
(* approves may be older than what the next desktop has done since.        *)
(***************************************************************************)
EXTENDS Naturals, TLC, TLAPS

CONSTANTS Ids,          \* sessions
          Targets,      \* host, port, user and kind of authentication
          Keyed,        \* targets that are authenticated with a private key
          Tickets,      \* random identifiers of staged changes
          MaxRevision,  \* bound of the counters
          MaxFaults,    \* bound of expiries, restarts and deaths
          None

Secrets  == [keyed : BOOLEAN, old : BOOLEAN]
Seals    == [target : Targets, secret : Secrets, key : Targets, cleanup : BOOLEAN]
Requests == [kind : {"configure", "delete", "trust"}, id : Ids, target : Targets \cup {None}, replace : BOOLEAN,
             imported : Secrets \cup {None}, revision : 0..MaxRevision, key : Targets \cup {None}]

ASSUME BoundsAssumption == MaxRevision \in Nat /\ MaxFaults \in Nat
ASSUME NoneAssumption   == None \notin UNION {Ids, Targets, Tickets, Secrets, Seals, Requests}

VARIABLES records,   \* revision of each session and what is sealed in it
          pending,   \* staged changes, in the memory of the service
          batches,   \* members of the tickets that stand for several
          windows,   \* elevated window of each ticket
          probing,   \* target whose host is probed for a ticket
          legacy,    \* sessions whose copy from before the service is still there
          file,      \* session file: the target it shows for each session
          desktop,   \* operation of the desktop, which holds its session lock
          faults     \* faults so far

service == <<records, pending, batches>>
vars    == <<service, windows, probing, legacy, file, desktop, faults>>

Secret(t, old) == [keyed |-> t \in Keyed, old |-> old]

Idle == [op |-> "none", step |-> "idle", item |-> None, ids |-> {}, target |-> None,
         replace |-> FALSE, staged |-> {}, ticket |-> None, revision |-> 0]

Init ==
  /\ records = [i \in Ids |-> [revision |-> 0, sealed |-> None]]
  /\ pending = [t \in Tickets |-> None] /\ batches = [t \in Tickets |-> {}]
  /\ windows = [t \in Tickets |-> "none"] /\ probing = [t \in Tickets |-> None]
  /\ file \in [Ids -> Targets \cup {None}] /\ legacy \in SUBSET {i \in Ids : file[i] # None}
  /\ desktop = Idle /\ faults = 0

Fault == faults < MaxFaults /\ faults' = faults + 1

Live(i)    == records[i].sealed # None
Members(t) == IF batches[t] = {} THEN {t} ELSE batches[t]

\* uuid::Uuid::new_v4: a ticket nothing else holds.
Fresh(t) ==
  /\ pending[t] = None /\ batches[t] = {} /\ windows[t] = "none" /\ probing[t] = None
  /\ t \notin UNION {batches[b] : b \in Tickets} /\ t \notin desktop.staged \cup {desktop.ticket}
-----------------------------------------------------------------------------
\* The service: every request runs under the lock of the store.

Change(kind, i, target, replace, imported) ==
  [kind |-> kind, id |-> i, target |-> target, replace |-> replace, imported |-> imported,
   revision |-> records[i].revision, key |-> None]

\* Changed: an old copy may be imported again.
StageAgain(t, change) ==
  /\ Fresh(t) /\ records[change.id].revision < MaxRevision
  /\ change.kind = "trust" => Live(change.id)
  /\ pending' = [pending EXCEPT ![t] = change]
  /\ batches' = [b \in Tickets |-> IF \E m \in batches[b] : pending[m] = None THEN {} ELSE batches[b]]
  /\ UNCHANGED records

\* stage_with_proxy; batches that miss a member go.
Stage(t, change) ==
  /\ Fresh(t) /\ records[change.id].revision < MaxRevision
  /\ change.imported # None => records[change.id].revision = 0
  /\ change.kind = "trust" => Live(change.id)
  /\ pending' = [pending EXCEPT ![t] = change]
  /\ batches' = [b \in Tickets |-> IF \E m \in batches[b] : pending[m] = None THEN {} ELSE batches[b]]
  /\ UNCHANGED records

\* batch.
Batch(t, members) ==
  /\ Fresh(t) /\ \A m \in members : pending[m] # None /\ \A b \in Tickets : m \notin batches[b]
  /\ batches' = [batches EXCEPT ![t] = members] /\ UNCHANGED <<records, pending>>

\* cancel, of several tickets.
Cancel(gone) ==
  LET all == UNION {Members(t) : t \in gone} \cup gone
  IN  /\ pending' = [t \in Tickets |-> IF t \in all THEN None ELSE pending[t]]
      /\ batches' = [t \in Tickets |-> IF t \in gone THEN {} ELSE batches[t]]
      /\ UNCHANGED records

\* Changed: the revision is not compared.
AllowedLate(p) == /\ p # None
                  /\ p.kind # "delete" => p.key # None

\* The conditions under which approve takes the request of a ticket.
Allowed(p) ==
  /\ p # None
  /\ records[p.id].revision = p.revision
  /\ p.kind # "delete" => p.key # None

ChosenTarget(p) == IF p.kind = "configure" THEN p.target ELSE records[p.id].sealed.target

\* What would be sealed; None without a secret that fits.  The window asks for
\* one only when the change replaces it and brings none.
ChosenSecret(p) ==
  LET old == records[p.id].sealed
  IN  IF p.imported # None THEN p.imported
      ELSE IF p.replace THEN Secret(p.target, FALSE)
      ELSE IF old # None /\ (old.target \in Keyed <=> ChosenTarget(p) \in Keyed) THEN old.secret
      ELSE None

CleanupPending(p) == p.imported # None \/ ~Live(p.id) \/ records[p.id].sealed.cleanup

Sealed(p) == [target |-> ChosenTarget(p), secret |-> ChosenSecret(p), key |-> p.key,
              cleanup |-> CleanupPending(p)]

Possible(p) ==
  Allowed(p) /\ (p.kind # "delete" => (p.kind = "configure" \/ Live(p.id)) /\ ChosenSecret(p) # None)

Approved(p) == [revision |-> p.revision + 1, sealed |-> IF p.kind = "delete" THEN None ELSE Sealed(p)]

\* approve: all members in one transaction, or none of them.
Commit(t) ==
  /\ \A m \in Members(t) : Possible(pending[m])
  /\ records' = [i \in Ids |-> IF \E m \in Members(t) : pending[m].id = i
                               THEN Approved(pending[CHOOSE m \in Members(t) : pending[m].id = i]) ELSE records[i]]
  /\ pending' = [m \in Tickets |-> IF m \in Members(t) THEN None ELSE pending[m]]
  /\ batches' = [batches EXCEPT ![t] = {}]

\* A refused or failed request keeps the ticket, or has already taken it.
Rollback(t) ==
  /\ UNCHANGED records /\ batches' = [batches EXCEPT ![t] = {}]
  /\ \E taken \in {{}, Members(t)} : pending' = [m \in Tickets |-> IF m \in taken THEN None ELSE pending[m]]

\* cleanup_complete.
CleanupComplete(i, revision) ==
  /\ Live(i) /\ records[i].revision = revision
  /\ records' = [records EXCEPT ![i].sealed.cleanup = FALSE] /\ UNCHANGED <<pending, batches>>

\* 300 seconds pass.
Expire ==
  /\ Fault
  /\ \E t \in Tickets : pending[t] # None /\ pending' = [pending EXCEPT ![t] = None]
  /\ UNCHANGED <<records, batches, windows, probing, legacy, file, desktop>>

ServiceRestarts ==
  /\ Fault
  /\ pending' = [t \in Tickets |-> None] /\ batches' = [t \in Tickets |-> {}]
  /\ probing' = [t \in Tickets |-> None]
  /\ UNCHANGED <<records, windows, legacy, file, desktop>>
-----------------------------------------------------------------------------
\* The elevated window (admin.rs; review).

\* Changed: the desktop does not look at how the window ended.
AnswerIgnored(t, ok) ==
  /\ windows' = [windows EXCEPT ![t] = "none"]
  /\ desktop' = IF desktop.step = "wait" /\ desktop.ticket = t THEN [desktop EXCEPT !.step = "approved"] ELSE desktop

\* The window ends, and the desktop that waits for it continues.
Answer(t, ok) ==
  /\ windows' = [windows EXCEPT ![t] = "none"]
  /\ desktop' = IF desktop.step = "wait" /\ desktop.ticket = t
                THEN [desktop EXCEPT !.step = IF ok THEN "approved" ELSE "cancel"] ELSE desktop

\* The elevation, the review or the user refuses.
WindowFails(t) ==
  /\ windows[t] # "none" /\ Answer(t, FALSE)
  /\ UNCHANGED <<service, probing, legacy, file, faults>>

\* review: the target is read under the lock, its host is probed without it.
Probe(t) ==
  /\ windows[t] = "open"
  /\ \E m \in Members(t) :
       /\ pending[m] # None /\ pending[m].kind # "delete" /\ pending[m].key = None /\ probing[m] = None
       /\ pending[m].kind # "configure" => Live(pending[m].id)
       /\ probing' = [probing EXCEPT ![m] = ChosenTarget(pending[m])]
  /\ UNCHANGED <<service, windows, legacy, file, desktop, faults>>

\* set_observed_key, unless the request is gone.
Observed(t) ==
  /\ probing[t] # None /\ probing' = [probing EXCEPT ![t] = None]
  /\ pending' = [pending EXCEPT ![t] = IF @ = None THEN None ELSE [@ EXCEPT !.key = probing[t]]]
  /\ UNCHANGED <<records, batches, windows, legacy, file, desktop, faults>>

\* manage_with_theme: the user confirms what was reviewed; the answer of the
\* service may be lost.
Approve(t) ==
  /\ windows[t] = "open"
  /\ \/ Commit(t) /\ \E heard \in BOOLEAN : Answer(t, heard)
     \/ Rollback(t) /\ Answer(t, FALSE)
  /\ UNCHANGED <<probing, legacy, file, faults>>
-----------------------------------------------------------------------------
\* The desktop.

Start(op, i, ids, target, replace, step) ==
  /\ desktop = Idle
  /\ desktop' = [Idle EXCEPT !.op = op, !.item = i, !.ids = ids, !.target = target, !.replace = replace, !.step = step]

\* create, with a new identifier.
Create ==
  /\ \E i \in Ids, a \in Targets :
       /\ file[i] = None /\ records[i].revision = 0 /\ Start("configure", i, {}, a, TRUE, "stage")
  /\ UNCHANGED <<service, windows, probing, legacy, file, faults>>

\* update: only a change of the target needs an approval.
Update ==
  /\ \E i \in Ids, a \in Targets :
       LET shown == IF Live(i) THEN records[i].sealed.target ELSE file[i]
           other == ~Live(i) \/ (shown \in Keyed) # (a \in Keyed)
       IN  file[i] # None /\ shown # a /\ Start("configure", i, {}, a, other, "stage")
  /\ UNCHANGED <<service, windows, probing, legacy, file, faults>>

\* manage_broker_credential.
Manage ==
  /\ \E i \in Ids : file[i] # None
       /\ Start("configure", i, {}, IF Live(i) THEN records[i].sealed.target ELSE file[i], TRUE, "stage")
  /\ UNCHANGED <<service, windows, probing, legacy, file, faults>>

Delete ==
  /\ \E i \in Ids : file[i] # None /\ Start("delete", i, {i}, None, FALSE, "stage")
  /\ UNCHANGED <<service, windows, probing, legacy, file, faults>>

DeleteGroup ==
  /\ \E ids \in SUBSET Ids \ {{}} : (\A i \in ids : file[i] # None) /\ Start("deleteGroup", None, ids, None, FALSE, "stage")
  /\ UNCHANGED <<service, windows, probing, legacy, file, faults>>

Trust ==
  /\ \E i \in Ids : file[i] # None /\ Start("trust", i, {}, None, FALSE, "stage")
  /\ UNCHANGED <<service, windows, probing, legacy, file, faults>>

\* migrate: what is managed is only cleaned up.
Migrate ==
  /\ \E i \in Ids : file[i] # None /\ Start("migrate", i, {}, None, FALSE, IF Live(i) THEN "list" ELSE "stage")
  /\ UNCHANGED <<service, windows, probing, legacy, file, faults>>

MigrateGroup ==
  /\ \E ids \in SUBSET Ids \ {{}} : /\ \A i \in ids : file[i] # None
                                    /\ Start("migrateGroup", None, ids, None, FALSE, "stage")
  /\ UNCHANGED <<service, windows, probing, legacy, file, faults>>

\* approve of broker_service.rs: the window of the ticket opens.
Elevate(t, step) ==
  /\ windows' = [windows EXCEPT ![t] = "open"]
  /\ desktop' = [desktop EXCEPT !.step = step, !.ticket = t]
  /\ UNCHANGED <<probing, legacy, file, faults>>

\* migration_request: an old copy is imported, and a private key in a file of its own
\* too (a key that is in neither fails the request: StageFails); a session without
\* any is configured.
Imports(i)   == i \in legacy \/ file[i] \in Keyed
Migration(i) ==
  Change("configure", i, file[i], TRUE, IF Imports(i) THEN Secret(file[i], i \in legacy) ELSE None)

StageOne ==
  /\ desktop.step = "stage" /\ desktop.op \in {"configure", "delete", "trust", "migrate"}
  /\ \E t \in Tickets :
       /\ Elevate(t, "wait")
       /\ \/ /\ desktop.op \in {"configure", "delete", "trust"}
             /\ Stage(t, Change(desktop.op, desktop.item, desktop.target, desktop.replace, None))
          \/ desktop.op = "migrate" /\ Stage(t, Migration(desktop.item))

\* delete_batch and migrate_batch stage every member, then the batch.
StagedIds == {pending[t].id : t \in {m \in desktop.staged : pending[m] # None}}
Wanted    == {i \in desktop.ids : desktop.op = "deleteGroup" \/ ~Live(i)}

StageMember ==
  /\ desktop.step = "stage" /\ desktop.op \in {"deleteGroup", "migrateGroup"}
  /\ \E t \in Tickets, i \in Wanted \ StagedIds :
       /\ \/ desktop.op = "deleteGroup" /\ Stage(t, Change("delete", i, None, FALSE, None))
          \/ desktop.op = "migrateGroup" /\ Imports(i) /\ Stage(t, Migration(i))
       /\ desktop' = [desktop EXCEPT !.staged = @ \cup {t}]
  /\ UNCHANGED <<windows, probing, legacy, file, faults>>

StageBatch ==
  /\ desktop.step = "stage" /\ desktop.staged # {} /\ Wanted \subseteq StagedIds
  /\ \E t \in Tickets : Batch(t, desktop.staged) /\ Elevate(t, "wait")

NothingToStage ==
  /\ desktop.step = "stage" /\ desktop.op = "migrateGroup" /\ Wanted = {} /\ desktop.staged = {}
  /\ desktop' = [desktop EXCEPT !.step = "each"]
  /\ UNCHANGED <<service, windows, probing, legacy, file, faults>>

\* The service refuses, or no ticket comes back.
StageFails ==
  /\ desktop.step = "stage" /\ desktop' = [desktop EXCEPT !.step = "cancel"]
  /\ UNCHANGED <<service, windows, probing, legacy, file, faults>>

CancelTickets ==
  /\ desktop.step = "cancel" /\ desktop' = Idle
  /\ Cancel(desktop.staged \cup ({desktop.ticket} \ {None}))
  /\ UNCHANGED <<windows, probing, legacy, file, faults>>

AfterApproval ==
  /\ desktop.step = "approved" /\ Cancel(desktop.staged)
  /\ desktop' = IF desktop.op = "trust" THEN Idle
                ELSE [desktop EXCEPT !.staged = {}, !.ticket = None,
                        !.step = CASE desktop.op \in {"delete", "deleteGroup"} -> "clear"
                                   [] desktop.op = "migrateGroup" -> "each"
                                   [] OTHER -> "list"]
  /\ UNCHANGED <<windows, probing, legacy, file, faults>>

\* The second half of migrate_batch and of migrate_batch_to_broker.
NextOfGroup ==
  /\ desktop.step = "each"
  /\ IF desktop.ids = {} THEN desktop' = Idle
     ELSE \E i \in desktop.ids :
            desktop' = [Idle EXCEPT !.op = "migrate", !.item = i, !.ids = desktop.ids \ {i},
                                    !.step = IF Live(i) THEN "list" ELSE "stage"]
  /\ UNCHANGED <<service, windows, probing, legacy, file, faults>>

\* profiles: the revision that is cleaned up is the one that is listed.
List ==
  /\ desktop.step = "list" /\ Live(desktop.item)
  /\ desktop' = [desktop EXCEPT !.target = records[desktop.item].sealed.target,
                   !.revision = records[desktop.item].revision,
                   !.step = IF desktop.op = "migrate" /\ ~records[desktop.item].sealed.cleanup THEN "save" ELSE "clear"]
  /\ UNCHANGED <<service, windows, probing, legacy, file, faults>>

\* clear_legacy: the copies are deleted and looked for again.
Uncleared == legacy \cap (IF desktop.op = "deleteGroup" THEN desktop.ids ELSE {desktop.item})

\* Changed: the copies are not looked for again.
ClearUnseen ==
  /\ desktop.step = "clear"
  /\ \/ \E i \in Uncleared : legacy' = legacy \ {i} /\ UNCHANGED desktop
     \/ /\ UNCHANGED legacy
        /\ desktop' = [desktop EXCEPT !.step = IF desktop.op \in {"delete", "deleteGroup"} THEN "save" ELSE "complete"]
  /\ UNCHANGED <<service, windows, probing, file, faults>>

Clear ==
  /\ desktop.step = "clear"
  /\ \/ \E i \in Uncleared : legacy' = legacy \ {i} /\ UNCHANGED desktop
     \/ /\ Uncleared = {} /\ UNCHANGED legacy
        /\ desktop' = [desktop EXCEPT !.step = IF desktop.op \in {"delete", "deleteGroup"} THEN "save" ELSE "complete"]
  /\ UNCHANGED <<service, windows, probing, file, faults>>

Complete ==
  /\ desktop.step = "complete" /\ CleanupComplete(desktop.item, desktop.revision)
  /\ desktop' = [desktop EXCEPT !.step = "save"]
  /\ UNCHANGED <<windows, probing, legacy, file, faults>>

Save ==
  /\ desktop.step = "save"
  /\ file' = IF desktop.op \in {"delete", "deleteGroup"}
             THEN [i \in Ids |-> IF i \in desktop.ids THEN None ELSE file[i]]
             ELSE [file EXCEPT ![desktop.item] = desktop.target]
  /\ desktop' = IF desktop.op = "migrate" THEN [desktop EXCEPT !.step = "each"] ELSE Idle
  /\ UNCHANGED <<service, windows, probing, legacy, faults>>

\* A step that fails ends the operation; a desktop that dies leaves its window.
Fail ==
  /\ \/ desktop.step \in {"approved", "list", "clear", "complete", "save", "each"} /\ UNCHANGED faults
     \/ desktop.step \in {"wait", "cancel"} /\ Fault
  /\ desktop' = Idle /\ UNCHANGED <<service, windows, probing, legacy, file>>

\* list_groups finds again what the service has and the file has not.
ListGroups ==
  /\ desktop = Idle
  /\ file' = [i \in Ids |-> IF Live(i) THEN records[i].sealed.target ELSE file[i]]
  /\ UNCHANGED <<service, windows, probing, legacy, desktop, faults>>

Next ==
  \/ Expire \/ ServiceRestarts
  \/ \E t \in Tickets : WindowFails(t) \/ Probe(t) \/ Observed(t) \/ Approve(t)
  \/ Create \/ Update \/ Manage \/ Delete \/ DeleteGroup \/ Trust \/ Migrate \/ MigrateGroup
  \/ StageOne \/ StageMember \/ StageBatch \/ NothingToStage \/ StageFails \/ CancelTickets
  \/ AfterApproval \/ NextOfGroup \/ List \/ Clear \/ Complete \/ Save \/ Fail \/ ListGroups

Spec == Init /\ [][Next]_vars
-----------------------------------------------------------------------------
TypeOK ==
  /\ records \in [Ids -> [revision : 0..MaxRevision, sealed : Seals \cup {None}]]
  /\ pending \in [Tickets -> Requests \cup {None}]
  /\ batches \in [Tickets -> SUBSET Tickets] /\ windows \in [Tickets -> {"none", "open"}]
  /\ probing \in [Tickets -> Targets \cup {None}]
  /\ file \in [Ids -> Targets \cup {None}] /\ legacy \subseteq Ids

\* The host key of a session was observed at the host of the session, whatever
\* was approved while its host was probed (review, set_observed_key, approve).
KeyOfTarget == \A i \in Ids : Live(i) => records[i].sealed.key = records[i].sealed.target

\* While a copy from before the service is left, the record says so, and the
\* desktop keeps offering to remove it (cleanup_pending, clear_legacy).
LegacyTracked == \A i \in legacy : Live(i) => records[i].sealed.cleanup

\* An old copy becomes the secret of a session only once: never after a newer
\* secret, and never again after the session was deleted.
OldCopyOnce ==
  [][\A i \in Ids : records'[i].sealed # None /\ records'[i].sealed.secret.old
        => (Live(i) /\ records[i].sealed.secret.old) \/ records[i].revision = 0]_vars

\* A session leaves the file only when its credentials are deleted, though an
\* earlier desktop may have left a window that is still to be approved.
RemovedMeansDeleted ==
  [][\A i \in Ids : file[i] # None /\ file'[i] = None => ~Live(i)]_vars

\* What the records of the service say is true: of the host whose key they hold,
\* and of the copies of their secrets that are left elsewhere.
RecordsTrue == TypeOK /\ KeyOfTarget /\ LegacyTracked

\* A secret moves into the service once, and is deleted before its session is.
SecretsMove == OldCopyOnce /\ RemovedMeansDeleted

-----------------------------------------------------------------------------
(* Proofs, for every set of sessions, targets and tickets, and every bound.  *)

Ops   == {"none", "configure", "delete", "deleteGroup", "trust", "migrate", "migrateGroup"}
Steps == {"idle", "stage", "wait", "cancel", "approved", "list", "clear", "complete", "save", "each"}
Desks == [op : Ops, step : Steps, item : Ids \cup {None}, ids : SUBSET Ids, target : Targets \cup {None},
          replace : BOOLEAN, staged : SUBSET Tickets, ticket : Tickets \cup {None}, revision : 0..MaxRevision]

Removing(d) == d.op \in {"delete", "deleteGroup"}
Moving(d)   == d.op \in {"migrate", "migrateGroup"}

\* What an operation of the desktop works on, step by step.
DesktopInv ==
  LET d == desktop
  IN  /\ d \in Desks
      /\ d.step # "idle" => d.op # "none"
      /\ d.op \in {"configure", "delete", "trust", "migrate"} => d.item \in Ids
      /\ d.op = "configure" => d.target \in Targets
      /\ d.op = "migrate" => file[d.item] # None
      /\ Moving(d) => \A i \in d.ids : file[i] # None
      /\ d.step = "each" => Moving(d)
      /\ d.step \in {"list", "complete"} => d.op \in {"configure", "migrate"}
      /\ d.step \in {"clear", "complete", "save"} /\ ~Removing(d) => d.op \in {"configure", "migrate"} /\ d.target \in Targets
      /\ d.step = "complete" => d.item \notin legacy

\* What is staged under a ticket, and what was observed of its host: it is about the
\* record of its revision, and nothing is staged at a later one.
Fits(t) ==
  pending[t] # None =>
    LET p == pending[t]
        r == records[p.id]
    IN  /\ p.revision <= r.revision /\ p.revision < MaxRevision
        /\ p.kind = "configure" => p.target \in Targets /\ {p.key, probing[t]} \subseteq {p.target, None}
        /\ p.kind = "trust" /\ p.revision = r.revision =>
             r.sealed # None /\ {p.key, probing[t]} \subseteq {r.sealed.target, None}
        /\ p.imported # None => p.revision = 0
PendingInv == \A t \in Tickets : Fits(t)

\* The ticket the desktop waits for deletes all its sessions or can no longer be
\* approved; after that they are gone, and what is still staged for them is too old.
Deletes(d) ==
  \/ \E m \in Members(d.ticket) : pending[m] = None
  \/ /\ \A m \in Members(d.ticket) : pending[m].kind = "delete"
     /\ \A i \in d.ids : \E m \in Members(d.ticket) : pending[m].id = i
Gone(i) ==
  /\ ~Live(i)
  /\ \A t \in Tickets : pending[t] # None /\ pending[t].id = i => pending[t].revision < records[i].revision
RemovalInv ==
  LET d == desktop
  IN  /\ d.step = "wait" => d.ticket \in Tickets
      /\ d.step = "stage" /\ d.op = "delete" => d.ids = {d.item} /\ d.staged = {}
      /\ d.step = "stage" /\ d.op = "deleteGroup" =>
           \A m \in d.staged : pending[m] # None => pending[m].kind = "delete"
      /\ d.step = "wait" /\ Removing(d) => Deletes(d)
      /\ d.step \in {"approved", "clear", "save"} /\ Removing(d) => \A i \in d.ids : Gone(i)

BrokerInv == TypeOK /\ DesktopInv /\ PendingInv /\ RemovalInv /\ KeyOfTarget /\ LegacyTracked

LEMMA NoneApart ==
  /\ None \notin Ids /\ None \notin Targets /\ None \notin Tickets /\ None \notin Secrets
  /\ None \notin Seals /\ None \notin Requests
BY NoneAssumption

\* The next operation of the desktop.
DeskIs(op, step, item, ids, target, staged, ticket) ==
  /\ desktop' \in Desks
  /\ desktop'.op = op /\ desktop'.step = step /\ desktop'.item = item /\ desktop'.ids = ids
  /\ desktop'.target = target /\ desktop'.staged = staged /\ desktop'.ticket = ticket

LEMMA IdleDesk ==
  /\ Idle \in Desks /\ Idle.op = "none" /\ Idle.step = "idle" /\ Idle.item = None /\ Idle.ids = {}
  /\ Idle.target = None /\ Idle.staged = {} /\ Idle.ticket = None
BY BoundsAssumption DEF Idle, Desks, Ops, Steps

LEMMA IdleDoes ==
  ASSUME desktop' = Idle
  PROVE  DeskIs("none", "idle", None, {}, None, {}, None)
BY IdleDesk DEF DeskIs

LEMMA StartDoes ==
  ASSUME NEW op \in Ops, NEW i \in Ids \cup {None}, NEW ids \in SUBSET Ids, NEW target \in Targets \cup {None},
         NEW replace \in BOOLEAN, NEW step \in Steps, Start(op, i, ids, target, replace, step)
  PROVE  DeskIs(op, step, i, ids, target, {}, None)
<1> DEFINE d == [Idle EXCEPT !.op = op, !.item = i, !.ids = ids, !.target = target, !.replace = replace, !.step = step]
<1>1. /\ d \in Desks /\ d.op = op /\ d.step = step /\ d.item = i /\ d.ids = ids /\ d.target = target
      /\ d.staged = {} /\ d.ticket = None
  <2> HIDE DEF d
  <2>1. d = [Idle EXCEPT !.op = op, !.item = i, !.ids = ids, !.target = target, !.replace = replace, !.step = step]
    BY DEF d
  <2> QED
    BY <2>1, IdleDesk DEF Desks
<1>2. desktop' = d
  BY DEF Start
<1> HIDE DEF d
<1> QED
  BY <1>1, <1>2 DEF DeskIs

LEMMA GoDoes ==
  ASSUME desktop \in Desks, NEW step \in Steps, desktop' = [desktop EXCEPT !.step = step]
  PROVE  DeskIs(desktop.op, step, desktop.item, desktop.ids, desktop.target, desktop.staged, desktop.ticket)
<1> DEFINE d == [desktop EXCEPT !.step = step]
<1>1. /\ d \in Desks /\ d.op = desktop.op /\ d.step = step /\ d.item = desktop.item /\ d.ids = desktop.ids
      /\ d.target = desktop.target /\ d.staged = desktop.staged /\ d.ticket = desktop.ticket
  BY DEF Desks
<1>2. desktop' = d
  OBVIOUS
<1> HIDE DEF d
<1> QED
  BY <1>1, <1>2 DEF DeskIs

\* The window of a ticket ends; an operation that waits for it goes on.
LEMMA AnswerDoes ==
  ASSUME TypeOK, desktop \in Desks, NEW t \in Tickets, NEW ok \in BOOLEAN, Answer(t, ok)
  PROVE  /\ windows' \in [Tickets -> {"none", "open"}]
         /\ \/ /\ desktop.step = "wait" /\ desktop.ticket = t
               /\ DeskIs(desktop.op, IF ok THEN "approved" ELSE "cancel", desktop.item, desktop.ids, desktop.target,
                         desktop.staged, desktop.ticket)
            \/ ~(desktop.step = "wait" /\ desktop.ticket = t) /\ UNCHANGED desktop
<1>1. windows' \in [Tickets -> {"none", "open"}]
  BY DEF Answer, TypeOK
<1>2. CASE desktop.step = "wait" /\ desktop.ticket = t
  <2> DEFINE step == IF ok THEN "approved" ELSE "cancel"
  <2>1. step \in Steps /\ desktop' = [desktop EXCEPT !.step = step]
    BY <1>2 DEF Answer, Steps
  <2> HIDE DEF step
  <2>2. DeskIs(desktop.op, step, desktop.item, desktop.ids, desktop.target, desktop.staged, desktop.ticket)
    BY <2>1, GoDoes
  <2> QED
    BY <1>1, <1>2, <2>2 DEF step
<1>3. CASE ~(desktop.step = "wait" /\ desktop.ticket = t)
  BY <1>1, <1>3 DEF Answer
<1> QED
  BY <1>2, <1>3

LEMMA ElevateDoes ==
  ASSUME TypeOK, desktop \in Desks, NEW t \in Tickets, NEW step \in Steps, Elevate(t, step)
  PROVE  /\ windows' \in [Tickets -> {"none", "open"}] /\ UNCHANGED <<probing, legacy, file, faults>>
         /\ DeskIs(desktop.op, step, desktop.item, desktop.ids, desktop.target, desktop.staged, t)
<1> DEFINE d == [desktop EXCEPT !.step = step, !.ticket = t]
<1>1. /\ d \in Desks /\ d.op = desktop.op /\ d.step = step /\ d.item = desktop.item /\ d.ids = desktop.ids
      /\ d.target = desktop.target /\ d.staged = desktop.staged /\ d.ticket = t
  BY DEF Desks
<1>2. desktop' = d
  BY DEF Elevate
<1> HIDE DEF d
<1> QED
  BY <1>1, <1>2 DEF DeskIs, Elevate, TypeOK

\* Every ticket stands for some tickets.
LEMMA SomeMember ==
  ASSUME TypeOK, NEW t \in Tickets
  PROVE  Members(t) \in SUBSET Tickets /\ Members(t) # {}
BY DEF Members, TypeOK

\* What a request says once it is staged: of its session, and of nothing later.
NewRequest(change) ==
  /\ change \in Requests /\ change.key = None /\ change.revision = records[change.id].revision
  /\ change.kind = "configure" => change.target \in Targets

LEMMA ChangeIsNew ==
  ASSUME TypeOK, NEW kind \in {"configure", "delete", "trust"}, NEW i \in Ids, NEW target \in Targets \cup {None},
         NEW replace \in BOOLEAN, NEW imported \in Secrets \cup {None}, kind = "configure" => target \in Targets
  PROVE  /\ NewRequest(Change(kind, i, target, replace, imported))
         /\ Change(kind, i, target, replace, imported).kind = kind
         /\ Change(kind, i, target, replace, imported).id = i
BY DEF NewRequest, Change, Requests, TypeOK

LEMMA MigrationIsNew ==
  ASSUME TypeOK, NEW i \in Ids, file[i] # None
  PROVE  NewRequest(Migration(i))
<1>1. file[i] \in Targets /\ Secret(file[i], i \in legacy) \in Secrets
  BY DEF TypeOK, Secret, Secrets
<1> QED
  BY <1>1, ChangeIsNew DEF Migration

LEMMA StageDoes ==
  ASSUME TypeOK, PendingInv, NEW t \in Tickets, NEW change, NewRequest(change), Stage(t, change), UNCHANGED probing
  PROVE  /\ pending' \in [Tickets -> Requests \cup {None}] /\ batches' \in [Tickets -> SUBSET Tickets]
         /\ UNCHANGED records /\ PendingInv'
         /\ pending' = [pending EXCEPT ![t] = change] /\ batches'[t] = {}
         /\ pending[t] = None /\ t \notin desktop.staged
<1>1. /\ pending' = [pending EXCEPT ![t] = change] /\ UNCHANGED records
      /\ batches' = [b \in Tickets |-> IF \E m \in batches[b] : pending[m] = None THEN {} ELSE batches[b]]
      /\ pending[t] = None /\ probing[t] = None /\ batches[t] = {} /\ t \notin desktop.staged
      /\ change.revision < MaxRevision /\ (change.imported # None => change.revision = 0)
      /\ (change.kind = "trust" => Live(change.id))
  BY DEF Stage, Fresh, NewRequest
<1>2. pending' \in [Tickets -> Requests \cup {None}] /\ batches' \in [Tickets -> SUBSET Tickets] /\ batches'[t] = {}
  BY <1>1 DEF TypeOK, NewRequest
<1>3. ASSUME NEW u \in Tickets PROVE Fits(u)'
  <2>1. CASE u = t
    <3>1. pending'[t] = change /\ probing'[t] = None /\ records' = records
      BY <1>1 DEF TypeOK
    <3>2. change.id \in Ids /\ records[change.id].revision \in 0..MaxRevision
      BY DEF NewRequest, Requests, TypeOK
    <3> QED
      BY <1>1, <2>1, <3>1, <3>2, BoundsAssumption DEF Fits, NewRequest, Live
  <2>2. CASE u # t
    <3>1. pending'[u] = pending[u] /\ probing'[u] = probing[u] /\ records' = records
      BY <1>1, <2>2 DEF TypeOK
    <3> QED
      BY <3>1 DEF Fits, PendingInv
  <2> QED
    BY <2>1, <2>2
<1> QED
  BY <1>1, <1>2, <1>3 DEF PendingInv

\* Tickets that go take nothing with them but themselves.
Fewer == \A t \in Tickets : pending'[t] \in {None, pending[t]}

LEMMA FewerFit ==
  ASSUME TypeOK, PendingInv, Fewer, UNCHANGED records, \A t \in Tickets : probing'[t] \in {None, probing[t]}
  PROVE  PendingInv'
<1>1. ASSUME NEW t \in Tickets PROVE Fits(t)'
  <2>1. CASE pending'[t] = None
    BY <2>1 DEF Fits
  <2>2. CASE pending'[t] = pending[t]
    BY <2>2 DEF Fits, PendingInv
  <2> QED
    BY <2>1, <2>2 DEF Fewer
<1> QED
  BY <1>1 DEF PendingInv

LEMMA CancelDoes ==
  ASSUME TypeOK, NEW gone \in SUBSET Tickets, Cancel(gone)
  PROVE  /\ pending' \in [Tickets -> Requests \cup {None}] /\ batches' \in [Tickets -> SUBSET Tickets]
         /\ UNCHANGED records /\ Fewer
BY DEF Cancel, Fewer, TypeOK

LEMMA RollbackDoes ==
  ASSUME TypeOK, NEW t \in Tickets, Rollback(t)
  PROVE  /\ pending' \in [Tickets -> Requests \cup {None}] /\ batches' \in [Tickets -> SUBSET Tickets]
         /\ UNCHANGED records /\ Fewer
         /\ \A u \in Tickets \ {t} : batches'[u] = batches[u]
BY DEF Rollback, Fewer, TypeOK

\* What the service seals for a ticket it approves: the key of the host the session
\* is for, a secret that is newer than every old copy, and the copies that are left.
LEMMA ApprovedIsTrue ==
  ASSUME TypeOK, PendingInv, KeyOfTarget, NEW t \in Tickets, Possible(pending[t])
  PROVE  LET p == pending[t]
             r == records[p.id]
         IN  /\ p \in Requests /\ p.revision = r.revision
             /\ Approved(p) \in [revision : 0..MaxRevision, sealed : Seals \cup {None}]
             /\ Approved(p).revision = r.revision + 1
             /\ p.kind = "delete" => Approved(p).sealed = None
             /\ Approved(p).sealed # None =>
                  /\ Approved(p).sealed.key = Approved(p).sealed.target
                  /\ r.sealed # None /\ r.sealed.cleanup => Approved(p).sealed.cleanup
                  /\ r.sealed = None => Approved(p).sealed.cleanup
                  /\ Approved(p).sealed.secret.old => (Live(p.id) /\ r.sealed.secret.old) \/ r.revision = 0
<1> DEFINE p == pending[t]
           r == records[p.id]
<1>1. p \in Requests /\ p # None /\ p.revision = r.revision /\ (p.kind # "delete" => p.key # None) /\ Fits(t)
      /\ (p.kind # "delete" => (p.kind = "configure" \/ Live(p.id)) /\ ChosenSecret(p) # None)
  BY DEF Possible, Allowed, PendingInv, TypeOK
<1>2. /\ p.kind \in {"configure", "delete", "trust"} /\ p.id \in Ids /\ p.target \in Targets \cup {None}
      /\ p.replace \in BOOLEAN /\ p.imported \in Secrets \cup {None} /\ p.revision \in 0..MaxRevision
      /\ p.key \in Targets \cup {None} /\ r \in [revision : 0..MaxRevision, sealed : Seals \cup {None}]
  BY <1>1 DEF Requests, TypeOK
<1>3. p.revision + 1 \in 0..MaxRevision
  BY <1>1, <1>2, BoundsAssumption DEF Fits, Possible, Allowed
<1>4. Approved(p) = [revision |-> p.revision + 1, sealed |-> IF p.kind = "delete" THEN None ELSE Sealed(p)]
  BY DEF Approved
<1>5. CASE p.kind = "delete"
  BY <1>1, <1>2, <1>3, <1>4, <1>5
<1>6. CASE p.kind # "delete"
  <2>1. p.kind = "trust" => r.sealed \in Seals
    BY <1>1, <1>2, <1>6 DEF Live
  <2>2. ChosenTarget(p) \in Targets /\ p.key = ChosenTarget(p)
    <3>1. CASE p.kind = "configure"
      BY <1>1, <1>2, <1>6, <3>1 DEF ChosenTarget, Fits
    <3>2. CASE p.kind = "trust"
      BY <1>1, <1>2, <1>6, <2>1, <3>2 DEF ChosenTarget, Fits, Seals
    <3> QED
      BY <1>2, <1>6, <3>1, <3>2
  <2>3. /\ ChosenSecret(p) \in Secrets
        /\ ChosenSecret(p).old => (Live(p.id) /\ r.sealed.secret.old) \/ r.revision = 0
    <3>1. CASE p.imported # None
      BY <1>1, <1>2, <3>1 DEF ChosenSecret, Fits, Possible, Allowed
    <3>2. CASE p.imported = None /\ p.replace
      <4>1. ChosenSecret(p) = Secret(p.target, FALSE)
        BY <3>2 DEF ChosenSecret
      <4> QED
        BY <4>1 DEF Secret, Secrets
    <3>3. CASE p.imported = None /\ ~p.replace
      <4>1. ChosenSecret(p) = r.sealed.secret /\ r.sealed # None
        BY <1>1, <1>6, <3>3 DEF ChosenSecret
      <4> QED
        BY <1>2, <4>1 DEF Seals, Live
    <3> QED
      BY <1>2, <3>1, <3>2, <3>3
  <2>4. CleanupPending(p) \in BOOLEAN /\ (r.sealed = None => CleanupPending(p))
        /\ (r.sealed # None /\ r.sealed.cleanup => CleanupPending(p))
    BY <1>2 DEF CleanupPending, Live, Seals
  <2>5. Sealed(p) = [target |-> ChosenTarget(p), secret |-> ChosenSecret(p), key |-> p.key, cleanup |-> CleanupPending(p)]
    BY DEF Sealed
  <2>6. Sealed(p) \in Seals
    BY <2>2, <2>3, <2>4, <2>5 DEF Seals
  <2>7. Approved(p) = [revision |-> p.revision + 1, sealed |-> Sealed(p)]
    BY <1>4, <1>6
  <2> QED
    BY <1>1, <1>3, <1>6, <2>2, <2>3, <2>4, <2>5, <2>6, <2>7
<1> QED
  BY <1>5, <1>6

\* One transaction: a record is the one it was or the one a member of the ticket asks for.
Renewed(i, t) == \E m \in Members(t) : pending[m].id = i /\ Possible(pending[m]) /\ records'[i] = Approved(pending[m])
Same(i, t)    == records'[i] = records[i] /\ \A m \in Members(t) : pending[m].id # i

LEMMA CommitDoes ==
  ASSUME TypeOK, PendingInv, KeyOfTarget, NEW t \in Tickets, Commit(t)
  PROVE  /\ \A i \in Ids : Same(i, t) \/ Renewed(i, t)
         /\ records' \in [Ids -> [revision : 0..MaxRevision, sealed : Seals \cup {None}]]
         /\ pending' \in [Tickets -> Requests \cup {None}] /\ batches' \in [Tickets -> SUBSET Tickets]
         /\ Fewer /\ \A u \in Tickets \ {t} : batches'[u] = batches[u]
<1>1. Members(t) \subseteq Tickets
  BY SomeMember
<1>2. ASSUME NEW i \in Ids PROVE Same(i, t) \/ Renewed(i, t)
  <2>1. CASE \E m \in Members(t) : pending[m].id = i
    <3> DEFINE m == CHOOSE m \in Members(t) : pending[m].id = i
    <3>1. m \in Members(t) /\ pending[m].id = i
      BY <2>1
    <3>2. records'[i] = Approved(pending[m]) /\ Possible(pending[m])
      BY <2>1, <3>1 DEF Commit
    <3> QED
      BY <3>1, <3>2 DEF Renewed
  <2>2. CASE \A m \in Members(t) : pending[m].id # i
    BY <2>2 DEF Same, Commit
  <2> QED
    BY <2>1, <2>2
<1>3. \A i \in Ids : records'[i] \in [revision : 0..MaxRevision, sealed : Seals \cup {None}]
  <2> SUFFICES ASSUME NEW i \in Ids
               PROVE  records'[i] \in [revision : 0..MaxRevision, sealed : Seals \cup {None}]
    OBVIOUS
  <2>1. CASE Same(i, t)
    BY <2>1 DEF Same, TypeOK
  <2>2. CASE Renewed(i, t)
    BY <1>1, <2>2, ApprovedIsTrue DEF Renewed
  <2> QED
    BY <1>2, <2>1, <2>2
<1>4. records' \in [Ids -> [revision : 0..MaxRevision, sealed : Seals \cup {None}]]
  BY <1>3 DEF Commit
<1>5. /\ pending' \in [Tickets -> Requests \cup {None}] /\ batches' \in [Tickets -> SUBSET Tickets]
      /\ Fewer /\ \A u \in Tickets \ {t} : batches'[u] = batches[u]
  BY DEF Commit, Fewer, TypeOK
<1> QED
  BY <1>2, <1>4, <1>5

\* An approval leaves no request that is newer than its record, and none that a later
\* approval could take for the host of the record before.
LEMMA CommitFits ==
  ASSUME TypeOK, PendingInv, KeyOfTarget, LegacyTracked, NEW t \in Tickets, Commit(t), UNCHANGED <<probing, legacy>>
  PROVE  PendingInv' /\ KeyOfTarget' /\ LegacyTracked'
<1>1. Members(t) \subseteq Tickets
  BY SomeMember
<1>2. Fewer /\ \A i \in Ids : Same(i, t) \/ Renewed(i, t)
  BY CommitDoes
<1>3. ASSUME NEW i \in Ids, Renewed(i, t)
      PROVE  /\ records[i].revision \in Nat /\ records'[i].revision = records[i].revision + 1
             /\ records'[i].sealed # None =>
                  /\ records'[i].sealed.key = records'[i].sealed.target
                  /\ records[i].sealed # None /\ records[i].sealed.cleanup => records'[i].sealed.cleanup
                  /\ records[i].sealed = None => records'[i].sealed.cleanup
  <2>1. PICK m \in Members(t) : pending[m].id = i /\ Possible(pending[m]) /\ records'[i] = Approved(pending[m])
    BY <1>3 DEF Renewed
  <2>2. records[i].revision \in Nat
    BY DEF TypeOK
  <2> QED
    BY <1>1, <2>1, <2>2, ApprovedIsTrue
<1>4. ASSUME NEW u \in Tickets PROVE Fits(u)'
  <2>1. CASE pending'[u] = None
    BY <2>1 DEF Fits
  <2>2. CASE pending'[u] = pending[u] /\ pending[u] # None
    <3> DEFINE p == pending[u]
    <3>1. p.id \in Ids /\ Fits(u) /\ p.revision \in Nat
      BY <2>2 DEF TypeOK, Requests, PendingInv
    <3>2. CASE Same(p.id, t)
      BY <2>2, <3>1, <3>2 DEF Same, Fits
    <3>3. CASE Renewed(p.id, t)
      <4>1. /\ records[p.id].revision \in Nat /\ records'[p.id].revision = records[p.id].revision + 1
        BY <1>3, <3>1, <3>3
      <4>2. p.revision <= records[p.id].revision /\ p.revision < MaxRevision
        BY <2>2, <3>1 DEF Fits
      <4>3. p.revision <= records'[p.id].revision /\ p.revision # records'[p.id].revision
        BY <3>1, <4>1, <4>2
      <4> QED
        BY <2>2, <3>1, <4>2, <4>3 DEF Fits
    <3> QED
      BY <1>2, <3>1, <3>2, <3>3
  <2> QED
    BY <1>2, <2>1, <2>2 DEF Fewer
<1>5. KeyOfTarget'
  <2> SUFFICES ASSUME NEW i \in Ids, records'[i].sealed # None
               PROVE  records'[i].sealed.key = records'[i].sealed.target
    BY DEF KeyOfTarget, Live
  <2>1. CASE Same(i, t)
    BY <2>1 DEF Same, KeyOfTarget, Live
  <2> QED
    BY <1>2, <1>3, <2>1
<1>6. LegacyTracked'
  <2> SUFFICES ASSUME NEW i \in legacy, records'[i].sealed # None
               PROVE  records'[i].sealed.cleanup
    BY DEF LegacyTracked, Live
  <2>1. i \in Ids
    BY DEF TypeOK
  <2>2. CASE Same(i, t)
    BY <2>2 DEF Same, LegacyTracked, Live
  <2>3. CASE Renewed(i, t)
    BY <1>3, <2>1, <2>3 DEF LegacyTracked, Live
  <2> QED
    BY <1>2, <2>1, <2>2, <2>3
<1> QED
  BY <1>4, <1>5, <1>6 DEF PendingInv

LEMMA CompleteDoes ==
  ASSUME TypeOK, NEW i \in Ids, NEW revision, CleanupComplete(i, revision)
  PROVE  /\ records' \in [Ids -> [revision : 0..MaxRevision, sealed : Seals \cup {None}]]
         /\ UNCHANGED <<pending, batches>>
         /\ \A x \in Ids \ {i} : records'[x] = records[x]
         /\ records'[i].revision = records[i].revision /\ Live(i) /\ records'[i].sealed # None
         /\ records'[i].sealed.key = records[i].sealed.key /\ records'[i].sealed.target = records[i].sealed.target
         /\ records'[i].sealed.secret = records[i].sealed.secret
<1> DEFINE r == records[i]
           n == [r EXCEPT !.sealed.cleanup = FALSE]
<1>1. r \in [revision : 0..MaxRevision, sealed : Seals \cup {None}] /\ r.sealed \in Seals /\ Live(i)
  BY DEF TypeOK, CleanupComplete, Live
<1>2. records' = [records EXCEPT ![i] = n] /\ UNCHANGED <<pending, batches>>
  BY DEF CleanupComplete
<1>3. /\ n \in [revision : 0..MaxRevision, sealed : Seals \cup {None}] /\ n.revision = r.revision /\ n.sealed \in Seals
      /\ n.sealed.key = r.sealed.key /\ n.sealed.target = r.sealed.target /\ n.sealed.secret = r.sealed.secret
  <2> DEFINE z == [r.sealed EXCEPT !.cleanup = FALSE]
  <2>1. z \in Seals /\ z.key = r.sealed.key /\ z.target = r.sealed.target /\ z.secret = r.sealed.secret
    BY <1>1 DEF Seals
  <2>2. n = [r EXCEPT !.sealed = z]
    OBVIOUS
  <2> HIDE DEF z
  <2> QED
    BY <1>1, <2>1, <2>2
<1> HIDE DEF n
<1>4. records'[i] = n /\ \A x \in Ids \ {i} : records'[x] = records[x]
  BY <1>2 DEF TypeOK
<1>5. records' \in [Ids -> [revision : 0..MaxRevision, sealed : Seals \cup {None}]]
  BY <1>2, <1>3 DEF TypeOK
<1> QED
  BY <1>1, <1>2, <1>3, <1>4, <1>5, NoneApart

-----------------------------------------------------------------------------
(* What the desktop does between two calls of the service.                   *)

\* The steps that promise nothing about the sessions that are being deleted.
LEMMA NothingPromised ==
  ASSUME desktop'.step \in {"idle", "cancel", "list", "complete", "each"}
  PROVE  RemovalInv'
BY DEF RemovalInv

\* An operation of the desktop that leaves the service alone.
LEMMA DesktopOnly ==
  ASSUME BrokerInv, UNCHANGED <<records, pending, batches, windows, probing>>,
         file' \in [Ids -> Targets \cup {None}], legacy' \subseteq legacy, DesktopInv', RemovalInv'
  PROVE  BrokerInv'
<1>1. TypeOK'
  BY DEF BrokerInv, TypeOK
<1>2. PendingInv'
  BY DEF BrokerInv, PendingInv, Fits
<1>3. KeyOfTarget' /\ LegacyTracked'
  BY DEF BrokerInv, KeyOfTarget, LegacyTracked, Live
<1> QED
  BY <1>1, <1>2, <1>3 DEF BrokerInv

LEMMA IdleHolds ==
  ASSUME desktop' = Idle
  PROVE  DesktopInv' /\ RemovalInv'
<1>1. DeskIs("none", "idle", None, {}, None, {}, None)
  BY IdleDoes
<1>2. RemovalInv'
  BY <1>1, NothingPromised DEF DeskIs
<1> QED
  BY <1>1, <1>2 DEF DesktopInv, DeskIs, Moving, Removing

LEMMA StartsStep ==
  ASSUME BrokerInv, Create \/ Update \/ Manage \/ Delete \/ DeleteGroup \/ Trust \/ Migrate \/ MigrateGroup
  PROVE  BrokerInv'
<1> USE DEF BrokerInv
<1>1. UNCHANGED <<records, pending, batches, windows, probing, legacy, file>>
  BY DEF Create, Update, Manage, Delete, DeleteGroup, Trust, Migrate, MigrateGroup, service
<1>0. SUFFICES DesktopInv' /\ RemovalInv'
  <2>1. file' \in [Ids -> Targets \cup {None}] /\ legacy' \subseteq legacy
    BY <1>1 DEF TypeOK
  <2> QED
    BY <1>1, <2>1, DesktopOnly
<1>2. ASSUME NEW i \in Ids, NEW target \in Targets, NEW replace \in BOOLEAN, Start("configure", i, {}, target, replace, "stage")
      PROVE  DesktopInv' /\ RemovalInv'
  <2>1. DeskIs("configure", "stage", i, {}, target, {}, None)
    BY <1>2, StartDoes DEF Ops, Steps
  <2> QED
    BY <2>1 DEF DeskIs, DesktopInv, RemovalInv, Moving, Removing
<1>3. CASE Create
  BY <1>2, <1>3 DEF Create
<1>4. CASE Update
  <2>1. PICK i \in Ids, a \in Targets :
          Start("configure", i, {}, a,
                ~Live(i) \/ ((IF Live(i) THEN records[i].sealed.target ELSE file[i]) \in Keyed) # (a \in Keyed), "stage")
    BY <1>4 DEF Update
  <2> QED
    BY <1>2, <2>1
<1>5. CASE Manage
  <2>1. PICK i \in Ids : /\ file[i] # None
                         /\ Start("configure", i, {}, IF Live(i) THEN records[i].sealed.target ELSE file[i], TRUE, "stage")
    BY <1>5 DEF Manage
  <2>2. (IF Live(i) THEN records[i].sealed.target ELSE file[i]) \in Targets
    BY <2>1 DEF TypeOK, Live, Seals
  <2> QED
    BY <1>2, <2>1, <2>2
<1>6. CASE Delete
  <2>1. PICK i \in Ids : Start("delete", i, {i}, None, FALSE, "stage")
    BY <1>6 DEF Delete
  <2>2. DeskIs("delete", "stage", i, {i}, None, {}, None)
    BY <2>1, StartDoes DEF Ops, Steps
  <2>3. DesktopInv' /\ RemovalInv'
    BY <2>2 DEF DeskIs, DesktopInv, RemovalInv, Moving, Removing
  <2> QED
    BY <2>3
<1>7. CASE DeleteGroup
  <2>1. PICK ids \in SUBSET Ids : Start("deleteGroup", None, ids, None, FALSE, "stage")
    BY <1>7 DEF DeleteGroup
  <2>2. DeskIs("deleteGroup", "stage", None, ids, None, {}, None)
    BY <2>1, StartDoes DEF Ops, Steps
  <2>3. DesktopInv' /\ RemovalInv'
    BY <2>2 DEF DeskIs, DesktopInv, RemovalInv, Moving, Removing
  <2> QED
    BY <2>3
<1>8. CASE Trust
  <2>1. PICK i \in Ids : Start("trust", i, {}, None, FALSE, "stage")
    BY <1>8 DEF Trust
  <2>2. DeskIs("trust", "stage", i, {}, None, {}, None)
    BY <2>1, StartDoes DEF Ops, Steps
  <2>3. DesktopInv' /\ RemovalInv'
    BY <2>2 DEF DeskIs, DesktopInv, RemovalInv, Moving, Removing
  <2> QED
    BY <2>3
<1>9. CASE Migrate
  <2>1. PICK i \in Ids : /\ file[i] # None
                         /\ Start("migrate", i, {}, None, FALSE, IF Live(i) THEN "list" ELSE "stage")
    BY <1>9 DEF Migrate
  <2> DEFINE step == IF Live(i) THEN "list" ELSE "stage"
  <2>2. step \in Steps /\ step \in {"list", "stage"}
    BY DEF Steps
  <2>3. Start("migrate", i, {}, None, FALSE, step)
    BY <2>1
  <2> HIDE DEF step
  <2>4. DeskIs("migrate", step, i, {}, None, {}, None)
    BY <2>2, <2>3, StartDoes DEF Ops
  <2>5. DesktopInv' /\ RemovalInv'
    BY <1>1, <2>1, <2>2, <2>4 DEF DeskIs, DesktopInv, RemovalInv, Moving, Removing
  <2> QED
    BY <2>5
<1>10. CASE MigrateGroup
  <2>1. PICK ids \in SUBSET Ids : /\ \A i \in ids : file[i] # None
                                  /\ Start("migrateGroup", None, ids, None, FALSE, "stage")
    BY <1>10 DEF MigrateGroup
  <2>2. DeskIs("migrateGroup", "stage", None, ids, None, {}, None)
    BY <2>1, StartDoes DEF Ops, Steps
  <2>3. DesktopInv' /\ RemovalInv'
    BY <1>1, <2>1, <2>2 DEF DeskIs, DesktopInv, RemovalInv, Moving, Removing
  <2> QED
    BY <2>3
<1> QED
  BY <1>3, <1>4, <1>5, <1>6, <1>7, <1>8, <1>9, <1>10

LEMMA StageEndsStep ==
  ASSUME BrokerInv, NothingToStage \/ StageFails
  PROVE  BrokerInv'
<1> USE DEF BrokerInv
<1>1. UNCHANGED <<records, pending, batches, windows, probing, legacy, file>> /\ desktop \in Desks
  BY DEF NothingToStage, StageFails, service, DesktopInv
<1>2. PICK step \in {"each", "cancel"} : /\ desktop' = [desktop EXCEPT !.step = step] /\ desktop.step = "stage"
                                         /\ step = "each" => desktop.op = "migrateGroup"
  BY DEF NothingToStage, StageFails
<1>3. DeskIs(desktop.op, step, desktop.item, desktop.ids, desktop.target, desktop.staged, desktop.ticket)
  BY <1>1, <1>2, GoDoes DEF Steps
<1>4. RemovalInv'
  BY <1>3, NothingPromised DEF DeskIs
<1>5. DesktopInv'
  BY <1>1, <1>2, <1>3 DEF DeskIs, DesktopInv, Moving, Removing
<1>6. file' \in [Ids -> Targets \cup {None}] /\ legacy' \subseteq legacy
  BY <1>1 DEF TypeOK
<1> QED
  BY <1>1, <1>4, <1>5, <1>6, DesktopOnly

LEMMA NextOfGroupStep ==
  ASSUME BrokerInv, NextOfGroup
  PROVE  BrokerInv'
<1> USE DEF BrokerInv
<1>1. UNCHANGED <<records, pending, batches, windows, probing, legacy, file>> /\ desktop \in Desks /\ Moving(desktop)
      /\ \A i \in desktop.ids : file[i] # None
  BY DEF NextOfGroup, service, DesktopInv
<1>0. SUFFICES DesktopInv' /\ RemovalInv'
  <2>1. file' \in [Ids -> Targets \cup {None}] /\ legacy' \subseteq legacy
    BY <1>1 DEF TypeOK
  <2> QED
    BY <1>1, <2>1, DesktopOnly
<1>2. CASE desktop' = Idle
  BY <1>2, IdleHolds
<1>3. ASSUME NEW i \in desktop.ids,
             desktop' = [Idle EXCEPT !.op = "migrate", !.item = i, !.ids = desktop.ids \ {i},
                                     !.step = IF Live(i) THEN "list" ELSE "stage"]
      PROVE  DesktopInv' /\ RemovalInv'
  <2> DEFINE step == IF Live(i) THEN "list" ELSE "stage"
             rest == desktop.ids \ {i}
             d    == [Idle EXCEPT !.op = "migrate", !.item = i, !.ids = rest, !.step = step]
  <2>1. step \in Steps /\ step \in {"list", "stage"} /\ rest \in SUBSET Ids /\ i \in Ids /\ rest \subseteq desktop.ids
    BY <1>1 DEF Steps, Desks
  <2>2. desktop' = d
    BY <1>3
  <2> HIDE DEF step, rest
  <2>3. d \in Desks /\ d.op = "migrate" /\ d.step = step /\ d.item = i /\ d.ids = rest /\ d.target = None /\ d.staged = {}
    BY <2>1, IdleDesk DEF Desks, Ops
  <2> HIDE DEF d
  <2>4. desktop' \in Desks /\ desktop'.op = "migrate" /\ desktop'.step = step /\ desktop'.item = i /\ desktop'.ids = rest
    BY <2>2, <2>3
  <2> QED
    BY <1>1, <2>1, <2>4 DEF DesktopInv, RemovalInv, Moving, Removing
<1> QED
  BY <1>2, <1>3 DEF NextOfGroup

LEMMA ListStep ==
  ASSUME BrokerInv, List
  PROVE  BrokerInv'
<1> USE DEF BrokerInv
<1>1. UNCHANGED <<records, pending, batches, windows, probing, legacy, file>> /\ desktop \in Desks
      /\ desktop.op \in {"configure", "migrate"} /\ desktop.item \in Ids /\ desktop.step = "list"
  BY DEF List, service, DesktopInv
<1> DEFINE r      == records[desktop.item]
           step   == IF desktop.op = "migrate" /\ ~r.sealed.cleanup THEN "save" ELSE "clear"
           target == r.sealed.target
           rev    == r.revision
           d      == [desktop EXCEPT !.target = target, !.revision = rev, !.step = step]
<1>2. target \in Targets /\ rev \in 0..MaxRevision /\ step \in Steps /\ step \in {"save", "clear"}
  BY <1>1 DEF TypeOK, List, Live, Seals, Steps
<1>3. desktop' = d
  BY DEF List
<1> HIDE DEF r, step, target, rev
<1>4. d \in Desks /\ d.op = desktop.op /\ d.step = step /\ d.item = desktop.item /\ d.ids = desktop.ids /\ d.target = target
  BY <1>1, <1>2 DEF Desks
<1> HIDE DEF d
<1>5. DesktopInv' /\ RemovalInv'
  BY <1>1, <1>2, <1>3, <1>4 DEF DesktopInv, RemovalInv, Moving, Removing
<1>6. file' \in [Ids -> Targets \cup {None}] /\ legacy' \subseteq legacy
  BY <1>1 DEF TypeOK
<1> QED
  BY <1>1, <1>5, <1>6, DesktopOnly

LEMMA ClearStep ==
  ASSUME BrokerInv, Clear
  PROVE  BrokerInv'
<1> USE DEF BrokerInv
<1>1. UNCHANGED <<records, pending, batches, windows, probing, file>> /\ desktop \in Desks /\ desktop.step = "clear"
      /\ legacy' \subseteq legacy
  BY DEF Clear, service, DesktopInv
<1>0. SUFFICES DesktopInv' /\ RemovalInv'
  <2>1. file' \in [Ids -> Targets \cup {None}] /\ legacy' \subseteq legacy
    BY <1>1 DEF TypeOK
  <2> QED
    BY <1>1, <2>1, DesktopOnly
<1>2. CASE UNCHANGED desktop
  BY <1>1, <1>2 DEF DesktopInv, RemovalInv, Moving, Removing, Gone, Live
<1>3. ASSUME Uncleared = {}, legacy' = legacy,
             desktop' = [desktop EXCEPT !.step = IF desktop.op \in {"delete", "deleteGroup"} THEN "save" ELSE "complete"]
      PROVE  DesktopInv' /\ RemovalInv'
  <2> DEFINE step == IF Removing(desktop) THEN "save" ELSE "complete"
  <2>1. desktop' = [desktop EXCEPT !.step = step] /\ step \in Steps
    BY <1>3 DEF Removing, Steps
  <2>2. (Removing(desktop) => step = "save") /\ (~Removing(desktop) => step = "complete" /\ desktop.item \notin legacy')
    BY <1>3 DEF Removing, Uncleared
  <2> HIDE DEF step
  <2>3. DeskIs(desktop.op, step, desktop.item, desktop.ids, desktop.target, desktop.staged, desktop.ticket)
    BY <1>1, <2>1, GoDoes
  <2>4. DesktopInv'
    BY <1>1, <2>2, <2>3 DEF DeskIs, DesktopInv, Moving, Removing
  <2>5. RemovalInv'
    BY <1>1, <2>2, <2>3 DEF DeskIs, RemovalInv, Removing, Gone, Live
  <2> QED
    BY <2>4, <2>5
<1> QED
  BY <1>2, <1>3 DEF Clear

LEMMA SaveStep ==
  ASSUME BrokerInv, Save
  PROVE  BrokerInv' /\ \A i \in Ids : file[i] # None /\ file'[i] = None => ~Live(i)
<1> USE DEF BrokerInv
<1>1. UNCHANGED <<records, pending, batches, windows, probing, legacy>> /\ desktop \in Desks /\ desktop.step = "save"
  BY DEF Save, service, DesktopInv
<1>2. CASE Removing(desktop)
  <2>1. file' = [i \in Ids |-> IF i \in desktop.ids THEN None ELSE file[i]] /\ desktop' = Idle
    BY <1>2 DEF Save, Removing
  <2>2. file' \in [Ids -> Targets \cup {None}] /\ \A i \in Ids : file[i] # None /\ file'[i] = None => ~Live(i)
    BY <1>1, <1>2, <2>1 DEF TypeOK, RemovalInv, Gone
  <2> QED
    BY <1>1, <2>1, <2>2, IdleHolds, DesktopOnly
<1>3. CASE ~Removing(desktop)
  <2>1. desktop.op \in {"configure", "migrate"} /\ desktop.target \in Targets /\ desktop.item \in Ids
    BY <1>1, <1>3 DEF DesktopInv, Removing
  <2>2. file' = [file EXCEPT ![desktop.item] = desktop.target]
    BY <1>3 DEF Save, Removing
  <2>3. file' \in [Ids -> Targets \cup {None}] /\ \A i \in Ids : file[i] # None => file'[i] # None
    BY <2>1, <2>2, NoneApart DEF TypeOK
  <2>4. CASE desktop' = Idle
    BY <1>1, <2>3, <2>4, IdleHolds, DesktopOnly
  <2>5. CASE desktop.op = "migrate"
    <3>1. desktop' = [desktop EXCEPT !.step = "each"]
      BY <2>5 DEF Save
    <3>2. DeskIs(desktop.op, "each", desktop.item, desktop.ids, desktop.target, desktop.staged, desktop.ticket)
      BY <1>1, <3>1, GoDoes DEF Steps
    <3>3. desktop.ids \in SUBSET Ids
      BY <1>1 DEF Desks
    <3>4. DesktopInv'
      BY <1>1, <2>1, <2>3, <2>5, <3>2, <3>3 DEF DeskIs, DesktopInv, Moving, Removing
    <3>5. RemovalInv'
      BY <3>2, NothingPromised DEF DeskIs
    <3> QED
      BY <1>1, <2>3, <3>4, <3>5, DesktopOnly
  <2> QED
    BY <2>1, <2>4, <2>5 DEF Save
<1> QED
  BY <1>2, <1>3

LEMMA FailStep ==
  ASSUME BrokerInv, Fail
  PROVE  BrokerInv'
<1>1. UNCHANGED <<records, pending, batches, windows, probing, legacy, file>> /\ desktop' = Idle
  BY DEF Fail, service
<1>2. file' \in [Ids -> Targets \cup {None}] /\ legacy' \subseteq legacy
  BY <1>1 DEF BrokerInv, TypeOK
<1> QED
  BY <1>1, <1>2, IdleHolds, DesktopOnly

LEMMA ListGroupsStep ==
  ASSUME BrokerInv, ListGroups
  PROVE  BrokerInv' /\ \A i \in Ids : file[i] # None => file'[i] # None
<1>1. UNCHANGED <<records, pending, batches, windows, probing, legacy>> /\ desktop' = Idle
      /\ file' = [i \in Ids |-> IF Live(i) THEN records[i].sealed.target ELSE file[i]]
  BY DEF ListGroups, service
<1>2. \A i \in Ids : Live(i) => records[i].sealed.target \in Targets
  BY DEF BrokerInv, TypeOK, Live, Seals
<1>3. file' \in [Ids -> Targets \cup {None}] /\ \A i \in Ids : file[i] # None => file'[i] # None
  BY <1>1, <1>2, NoneApart DEF BrokerInv, TypeOK
<1> QED
  BY <1>1, <1>3, IdleHolds, DesktopOnly

-----------------------------------------------------------------------------
(* What the service does.                                                    *)

\* Requests that only go leave a session that is gone as it is.
LEMMA GoneStays ==
  ASSUME Fewer, NEW i \in Ids, records'[i] = records[i], Gone(i)
  PROVE  Gone(i)'
BY DEF Fewer, Gone, Live

\* Requests go while the desktop stays where it is.
LEMMA FewerStep ==
  ASSUME BrokerInv, Fewer, UNCHANGED <<records, windows, legacy, file, desktop>>,
         pending' \in [Tickets -> Requests \cup {None}], batches' \in [Tickets -> SUBSET Tickets],
         probing' \in [Tickets -> Targets \cup {None}], \A t \in Tickets : probing'[t] \in {None, probing[t]},
         batches' = batches \/ \A t \in Tickets : pending'[t] = None
  PROVE  BrokerInv'
<1> USE DEF BrokerInv
<1>1. TypeOK' /\ DesktopInv' /\ KeyOfTarget' /\ LegacyTracked'
  BY DEF TypeOK, DesktopInv, KeyOfTarget, LegacyTracked, Live, Moving, Removing
<1>2. PendingInv'
  BY FewerFit
<1>3. desktop.step = "wait" /\ Removing(desktop) => Deletes(desktop)'
  <2> SUFFICES ASSUME desktop.step = "wait", Removing(desktop) PROVE Deletes(desktop)'
    OBVIOUS
  <2>1. desktop.ticket \in Tickets /\ Deletes(desktop)
    BY DEF RemovalInv
  <2>2. Members(desktop.ticket) \in SUBSET Tickets /\ Members(desktop.ticket)' \in SUBSET Tickets
        /\ Members(desktop.ticket)' # {}
    BY <1>1, <2>1 DEF Members, TypeOK
  <2>3. CASE batches' = batches
    <3>1. Members(desktop.ticket)' = Members(desktop.ticket)
      BY <2>3 DEF Members
    <3>2. CASE \E m \in Members(desktop.ticket) : pending'[m] = None
      BY <3>1, <3>2 DEF Deletes
    <3>3. CASE \A m \in Members(desktop.ticket) : pending'[m] # None
      <4>1. \A m \in Members(desktop.ticket) : pending'[m] = pending[m]
        BY <2>2, <3>3 DEF Fewer
      <4> QED
        BY <2>1, <3>1, <3>3, <4>1 DEF Deletes
    <3> QED
      BY <3>2, <3>3
  <2>4. CASE \A t \in Tickets : pending'[t] = None
    BY <2>2, <2>4 DEF Deletes
  <2> QED
    BY <2>3, <2>4
<1>4. desktop.step \in {"approved", "clear", "save"} /\ Removing(desktop) => \A i \in desktop.ids : Gone(i)'
  BY GoneStays DEF RemovalInv, DesktopInv, Desks
<1>5. desktop.step = "stage" /\ desktop.op = "deleteGroup" =>
        \A m \in desktop.staged : pending'[m] # None => pending'[m].kind = "delete"
  BY DEF RemovalInv, DesktopInv, Desks, Fewer
<1>6. RemovalInv'
  BY <1>3, <1>4, <1>5 DEF RemovalInv, Removing
<1> QED
  BY <1>1, <1>2, <1>6

LEMMA ServiceStep ==
  ASSUME BrokerInv, Expire \/ ServiceRestarts
  PROVE  BrokerInv'
<1> USE DEF BrokerInv
<1>1. CASE Expire
  BY <1>1, FewerStep DEF Expire, Fewer, TypeOK
<1>2. CASE ServiceRestarts
  BY <1>2, FewerStep DEF ServiceRestarts, Fewer, TypeOK
<1> QED
  BY <1>1, <1>2

LEMMA ProbeStep ==
  ASSUME BrokerInv, NEW t \in Tickets, Probe(t)
  PROVE  BrokerInv'
<1> USE DEF BrokerInv
<1>1. PICK m \in Members(t) :
        /\ pending[m] # None /\ pending[m].kind # "delete" /\ pending[m].key = None /\ probing[m] = None
        /\ pending[m].kind # "configure" => Live(pending[m].id)
        /\ probing' = [probing EXCEPT ![m] = ChosenTarget(pending[m])]
  BY DEF Probe
<1>2. UNCHANGED <<records, pending, batches, windows, legacy, file, desktop>>
  BY DEF Probe, service
<1> DEFINE p == pending[m]
           r == records[p.id]
<1>3. m \in Tickets /\ p \in Requests /\ p.id \in Ids /\ p.kind \in {"configure", "trust"} /\ Fits(m)
      /\ r.sealed \in Seals \cup {None} /\ p.revision \in Nat /\ r.revision \in Nat
  BY <1>1, SomeMember DEF TypeOK, Requests, PendingInv
<1>4. ChosenTarget(p) \in Targets
  BY <1>1, <1>3 DEF ChosenTarget, Fits, Live, Seals
<1>5. TypeOK'
  BY <1>1, <1>2, <1>3, <1>4 DEF TypeOK
<1>6. PendingInv'
  <2> SUFFICES ASSUME NEW u \in Tickets PROVE Fits(u)'
    BY DEF PendingInv
  <2>1. CASE u = m
    <3>1. probing'[m] = ChosenTarget(p)
      BY <1>1, <1>3 DEF TypeOK
    <3>2. p.kind = "configure" => ChosenTarget(p) = p.target
      BY DEF ChosenTarget
    <3>3. p.kind = "trust" => ChosenTarget(p) = r.sealed.target
      BY DEF ChosenTarget
    <3> QED
      BY <1>1, <1>2, <1>3, <2>1, <3>1, <3>2, <3>3 DEF Fits
  <2>2. CASE u # m
    <3>1. probing'[u] = probing[u]
      BY <1>1, <2>2 DEF TypeOK
    <3> QED
      BY <1>2, <3>1 DEF Fits, PendingInv
  <2> QED
    BY <2>1, <2>2
<1>7. DesktopInv' /\ RemovalInv' /\ KeyOfTarget' /\ LegacyTracked'
  BY <1>2 DEF DesktopInv, RemovalInv, KeyOfTarget, LegacyTracked, Live, Moving, Removing, Gone, Deletes, Members
<1> QED
  BY <1>5, <1>6, <1>7

LEMMA ObservedStep ==
  ASSUME BrokerInv, NEW t \in Tickets, Observed(t)
  PROVE  BrokerInv'
<1> USE DEF BrokerInv
<1>1. /\ UNCHANGED <<records, batches, windows, legacy, file, desktop>>
      /\ probing[t] # None /\ probing' = [probing EXCEPT ![t] = None]
      /\ pending' = [pending EXCEPT ![t] = IF @ = None THEN None ELSE [@ EXCEPT !.key = probing[t]]]
  BY DEF Observed
<1> DEFINE p == pending[t]
           n == [p EXCEPT !.key = probing[t]]
<1>2. CASE p = None
  <2>1. pending' = pending
    BY <1>1, <1>2 DEF TypeOK
  <2>2. Fewer
    BY <2>1 DEF Fewer
  <2> QED
    BY <1>1, <2>1, <2>2, FewerStep DEF TypeOK
<1>3. CASE p # None
  <2>1. pending' = [pending EXCEPT ![t] = n]
    BY <1>1, <1>3
  <2>2. p \in Requests /\ probing[t] \in Targets /\ Fits(t)
    BY <1>1, <1>3 DEF TypeOK, PendingInv
  <2>3. /\ n \in Requests /\ n.kind = p.kind /\ n.id = p.id /\ n.target = p.target /\ n.revision = p.revision
        /\ n.imported = p.imported /\ n.key = probing[t]
    BY <2>2 DEF Requests
  <2> HIDE DEF n
  <2>4. pending'[t] = n /\ \A u \in Tickets \ {t} : pending'[u] = pending[u] /\ probing'[u] = probing[u]
        /\ probing'[t] = None
    BY <1>1, <2>1 DEF TypeOK
  <2>5. TypeOK'
    BY <1>1, <2>1, <2>3 DEF TypeOK
  <2>6. PendingInv'
    <3> SUFFICES ASSUME NEW u \in Tickets PROVE Fits(u)'
      BY DEF PendingInv
    <3>1. CASE u = t
      BY <1>1, <1>3, <2>2, <2>3, <2>4, <3>1 DEF Fits
    <3>2. CASE u # t
      BY <1>1, <2>4, <3>2 DEF Fits, PendingInv
    <3> QED
      BY <3>1, <3>2
  <2>7. ASSUME NEW u \in Tickets
        PROVE  /\ pending'[u] = None <=> pending[u] = None
               /\ pending[u] # None => /\ pending'[u].kind = pending[u].kind /\ pending'[u].id = pending[u].id
                                       /\ pending'[u].revision = pending[u].revision
    BY <1>3, <2>3, <2>4, NoneApart
  <2>8. RemovalInv'
    <3>1. \A u \in Tickets : Members(u)' = Members(u) /\ Members(u) \in SUBSET Tickets
      BY <1>1, SomeMember DEF Members
    <3>2. desktop.step = "wait" /\ Removing(desktop) => Deletes(desktop)'
      <4> SUFFICES ASSUME desktop.step = "wait", Removing(desktop) PROVE Deletes(desktop)'
        OBVIOUS
      <4>1. desktop.ticket \in Tickets /\ Deletes(desktop)
        BY DEF RemovalInv
      <4>2. CASE \E m \in Members(desktop.ticket) : pending[m] = None
        BY <1>1, <2>7, <3>1, <4>1, <4>2 DEF Deletes
      <4>3. CASE \A m \in Members(desktop.ticket) : pending[m] # None
        <5>1. \A m \in Members(desktop.ticket) : pending'[m].kind = pending[m].kind /\ pending'[m].id = pending[m].id
          BY <2>7, <3>1, <4>1, <4>3
        <5> QED
          BY <1>1, <3>1, <4>1, <4>3, <5>1 DEF Deletes
      <4> QED
        BY <4>2, <4>3
    <3>3. \A i \in Ids : Gone(i) => Gone(i)'
      BY <1>1, <2>7 DEF Gone, Live
    <3>4. desktop \in Desks
      BY DEF DesktopInv
    <3> QED
      BY <1>1, <2>7, <3>2, <3>3, <3>4 DEF RemovalInv, Removing, Desks
  <2>9. DesktopInv' /\ KeyOfTarget' /\ LegacyTracked'
    BY <1>1 DEF DesktopInv, KeyOfTarget, LegacyTracked, Live, Moving, Removing
  <2> QED
    BY <2>5, <2>6, <2>8, <2>9
<1> QED
  BY <1>2, <1>3

LEMMA CompleteStep ==
  ASSUME BrokerInv, Complete
  PROVE  /\ BrokerInv'
         /\ \A i \in Ids : records'[i].sealed # None => Live(i) /\ records'[i].sealed.secret = records[i].sealed.secret
<1> USE DEF BrokerInv
<1> DEFINE x == desktop.item
<1>1. /\ desktop \in Desks /\ desktop.step = "complete" /\ desktop.op \in {"configure", "migrate"} /\ x \in Ids
      /\ desktop.target \in Targets /\ x \notin legacy
  BY DEF Complete, DesktopInv, Removing
<1>2. UNCHANGED <<windows, probing, legacy, file>> /\ CleanupComplete(x, desktop.revision)
      /\ desktop' = [desktop EXCEPT !.step = "save"]
  BY DEF Complete
<1>3. /\ records' \in [Ids -> [revision : 0..MaxRevision, sealed : Seals \cup {None}]]
      /\ UNCHANGED <<pending, batches>>
      /\ \A y \in Ids \ {x} : records'[y] = records[y]
      /\ records'[x].revision = records[x].revision /\ records[x].sealed # None /\ records'[x].sealed # None
      /\ records'[x].sealed.key = records[x].sealed.key /\ records'[x].sealed.target = records[x].sealed.target
      /\ records'[x].sealed.secret = records[x].sealed.secret
  BY <1>1, <1>2, CompleteDoes DEF Live
<1>4. DeskIs(desktop.op, "save", desktop.item, desktop.ids, desktop.target, desktop.staged, desktop.ticket)
  BY <1>1, <1>2, GoDoes DEF Steps
<1>5. TypeOK'
  BY <1>2, <1>3 DEF TypeOK
<1>6. DesktopInv'
  BY <1>1, <1>2, <1>4 DEF DeskIs, DesktopInv, Moving, Removing
<1>7. RemovalInv'
  BY <1>1, <1>4 DEF DeskIs, RemovalInv, Removing
<1>8. PendingInv'
  <2> SUFFICES ASSUME NEW u \in Tickets, pending[u] # None PROVE Fits(u)'
    BY <1>3 DEF PendingInv, Fits
  <2>1. Fits(u) /\ pending[u].id \in Ids
    BY DEF PendingInv, TypeOK, Requests
  <2>2. CASE pending[u].id = x
    BY <1>2, <1>3, <2>1, <2>2 DEF Fits
  <2>3. CASE pending[u].id # x
    BY <1>2, <1>3, <2>1, <2>3 DEF Fits
  <2> QED
    BY <2>2, <2>3
<1>9. KeyOfTarget' /\ LegacyTracked'
  <2>1. \A y \in Ids : records'[y] = records[y] \/ y = x
    BY <1>3
  <2>2. \A y \in legacy : records'[y] = records[y]
    BY <1>1, <1>3 DEF TypeOK
  <2> QED
    BY <1>2, <1>3, <2>1, <2>2 DEF KeyOfTarget, LegacyTracked, Live
<1> QED
  BY <1>3, <1>5, <1>6, <1>7, <1>8, <1>9 DEF Live

\* The end of a window, as the desktop sees it.
LEMMA AnswerHolds ==
  ASSUME TypeOK, DesktopInv, NEW t \in Tickets, NEW ok \in BOOLEAN, Answer(t, ok), UNCHANGED <<file, legacy>>
  PROVE  DesktopInv'
<1>1. desktop \in Desks
  BY DEF DesktopInv
<1>2. CASE UNCHANGED desktop
  BY <1>2 DEF DesktopInv, Moving, Removing
<1>3. CASE desktop.step = "wait" /\ DeskIs(desktop.op, IF ok THEN "approved" ELSE "cancel", desktop.item, desktop.ids,
                                           desktop.target, desktop.staged, desktop.ticket)
  BY <1>1, <1>3 DEF DeskIs, DesktopInv, Moving, Removing
<1> QED
  BY <1>1, <1>2, <1>3, AnswerDoes

\* What the service does for the ticket of another window than the one that is waited for.
LEMMA OthersPromised ==
  ASSUME BrokerInv, NEW t \in Tickets, Fewer, \A u \in Tickets \ {t} : batches'[u] = batches[u],
         UNCHANGED desktop, ~(desktop.step = "wait" /\ desktop.ticket = t),
         \A i \in Ids : Gone(i) => records'[i] = records[i]
  PROVE  RemovalInv'
<1> USE DEF BrokerInv
<1>1. desktop \in Desks /\ desktop.ids \subseteq Ids /\ desktop.staged \subseteq Tickets
  BY DEF DesktopInv, Desks
<1>2. desktop.step = "wait" /\ Removing(desktop) => Deletes(desktop)'
  <2> SUFFICES ASSUME desktop.step = "wait", Removing(desktop) PROVE Deletes(desktop)'
    OBVIOUS
  <2>1. desktop.ticket \in Tickets \ {t} /\ Deletes(desktop)
    BY DEF RemovalInv
  <2>2. Members(desktop.ticket)' = Members(desktop.ticket) /\ Members(desktop.ticket) \in SUBSET Tickets
    BY <2>1, SomeMember DEF Members
  <2>3. CASE \E m \in Members(desktop.ticket) : pending'[m] = None
    BY <2>2, <2>3 DEF Deletes
  <2>4. CASE \A m \in Members(desktop.ticket) : pending'[m] # None
    <3>1. \A m \in Members(desktop.ticket) : pending'[m] = pending[m]
      BY <2>2, <2>4 DEF Fewer
    <3> QED
      BY <2>1, <2>2, <2>4, <3>1 DEF Deletes
  <2> QED
    BY <2>3, <2>4
<1>3. desktop.step \in {"approved", "clear", "save"} /\ Removing(desktop) => \A i \in desktop.ids : Gone(i)'
  BY <1>1, GoneStays DEF RemovalInv
<1>4. desktop.step = "stage" /\ desktop.op = "deleteGroup" =>
        \A m \in desktop.staged : pending'[m] # None => pending'[m].kind = "delete"
  BY <1>1 DEF RemovalInv, Fewer
<1> QED
  BY <1>2, <1>3, <1>4 DEF RemovalInv, Removing

LEMMA WindowFailsStep ==
  ASSUME BrokerInv, NEW t \in Tickets, WindowFails(t)
  PROVE  BrokerInv'
<1> USE DEF BrokerInv
<1>1. UNCHANGED <<records, pending, batches, probing, legacy, file>> /\ Answer(t, FALSE) /\ desktop \in Desks
  BY DEF WindowFails, service, DesktopInv
<1>2. TypeOK'
  BY <1>1, AnswerDoes DEF TypeOK
<1>3. DesktopInv'
  BY <1>1, AnswerHolds
<1>4. PendingInv' /\ KeyOfTarget' /\ LegacyTracked'
  BY <1>1 DEF PendingInv, Fits, KeyOfTarget, LegacyTracked, Live
<1>5. RemovalInv'
  <2>1. CASE desktop.step = "wait" /\ desktop.ticket = t
    <3>1. DeskIs(desktop.op, "cancel", desktop.item, desktop.ids, desktop.target, desktop.staged, desktop.ticket)
      BY <1>1, <2>1, AnswerDoes
    <3> QED
      BY <3>1, NothingPromised DEF DeskIs
  <2>2. CASE ~(desktop.step = "wait" /\ desktop.ticket = t)
    <3>1. UNCHANGED desktop /\ Fewer
      BY <1>1, <2>2 DEF Answer, Fewer
    <3> QED
      BY <1>1, <2>2, <3>1, OthersPromised
  <2> QED
    BY <2>1, <2>2
<1> QED
  BY <1>2, <1>3, <1>4, <1>5

\* What the desktop may conclude when the window of its ticket reports success.
LEMMA CommitDeletes ==
  ASSUME BrokerInv, NEW t \in Tickets, Commit(t), desktop.step = "wait", desktop.ticket = t, Removing(desktop)
  PROVE  \A i \in desktop.ids : Gone(i)'
<1> USE DEF BrokerInv
<1> SUFFICES ASSUME NEW i \in desktop.ids PROVE Gone(i)'
  OBVIOUS
<1>1. i \in Ids /\ Members(t) \in SUBSET Tickets
  BY SomeMember DEF DesktopInv, Desks
<1>2. \A m \in Members(t) : Possible(pending[m]) /\ pending[m] # None
  BY DEF Commit, Possible, Allowed
<1>3. /\ \A m \in Members(t) : pending[m].kind = "delete"
      /\ \E m \in Members(t) : pending[m].id = i
  BY <1>2 DEF RemovalInv, Deletes
<1>4. Fewer /\ Renewed(i, t)
  BY <1>1, <1>3, CommitDoes DEF Same
<1>5. PICK m \in Members(t) : pending[m].id = i /\ Possible(pending[m]) /\ records'[i] = Approved(pending[m])
  BY <1>4 DEF Renewed
<1>6. /\ records'[i].sealed = None /\ records'[i].revision = records[i].revision + 1
      /\ records[i].revision \in Nat
  BY <1>1, <1>3, <1>5, ApprovedIsTrue DEF TypeOK
<1>7. ASSUME NEW u \in Tickets, pending'[u] # None, pending'[u].id = i
      PROVE  pending'[u].revision < records'[i].revision
  <2>1. pending'[u] = pending[u] /\ pending[u].revision \in Nat /\ pending[u].revision <= records[i].revision
    BY <1>4, <1>7 DEF Fewer, PendingInv, Fits, TypeOK, Requests
  <2> QED
    BY <1>6, <2>1
<1> QED
  BY <1>6, <1>7 DEF Gone, Live

LEMMA ApproveStep ==
  ASSUME BrokerInv, NEW t \in Tickets, Approve(t)
  PROVE  BrokerInv'
<1> USE DEF BrokerInv
<1>1. UNCHANGED <<probing, legacy, file>> /\ desktop \in Desks
  BY DEF Approve, DesktopInv
<1>2. CASE Commit(t) /\ \E heard \in BOOLEAN : Answer(t, heard)
  <2>1. PICK heard \in BOOLEAN : Answer(t, heard)
    BY <1>2
  <2>2. /\ records' \in [Ids -> [revision : 0..MaxRevision, sealed : Seals \cup {None}]]
        /\ pending' \in [Tickets -> Requests \cup {None}] /\ batches' \in [Tickets -> SUBSET Tickets]
        /\ Fewer /\ \A u \in Tickets \ {t} : batches'[u] = batches[u]
        /\ \A i \in Ids : Same(i, t) \/ Renewed(i, t)
    BY <1>2, CommitDoes
  <2>3. TypeOK'
    BY <1>1, <2>1, <2>2, AnswerDoes DEF TypeOK
  <2>4. DesktopInv'
    BY <1>1, <2>1, AnswerHolds
  <2>5. PendingInv' /\ KeyOfTarget' /\ LegacyTracked'
    BY <1>1, <1>2, CommitFits
  <2>6. RemovalInv'
    <3>1. CASE desktop.step = "wait" /\ desktop.ticket = t /\ heard
      <4>1. DeskIs(desktop.op, "approved", desktop.item, desktop.ids, desktop.target, desktop.staged, desktop.ticket)
        BY <1>1, <2>1, <3>1, AnswerDoes
      <4>2. Removing(desktop) => \A i \in desktop.ids : Gone(i)'
        BY <1>2, <3>1, CommitDeletes
      <4> QED
        BY <4>1, <4>2 DEF DeskIs, RemovalInv, Removing
    <3>2. CASE desktop.step = "wait" /\ desktop.ticket = t /\ ~heard
      <4>1. DeskIs(desktop.op, "cancel", desktop.item, desktop.ids, desktop.target, desktop.staged, desktop.ticket)
        BY <1>1, <2>1, <3>2, AnswerDoes
      <4> QED
        BY <4>1, NothingPromised DEF DeskIs
    <3>3. CASE ~(desktop.step = "wait" /\ desktop.ticket = t)
      <4>1. UNCHANGED desktop
        BY <2>1, <3>3 DEF Answer
      <4>2. ASSUME NEW i \in Ids, Gone(i) PROVE records'[i] = records[i]
        <5>1. CASE Same(i, t)
          BY <5>1 DEF Same
        <5>2. CASE Renewed(i, t)
          <6>1. PICK m \in Members(t) : pending[m].id = i /\ Possible(pending[m])
            BY <5>2 DEF Renewed
          <6>2. m \in Tickets /\ pending[m] # None /\ pending[m].revision = records[i].revision
                /\ records[i].revision \in Nat
            BY <6>1, SomeMember DEF Possible, Allowed, TypeOK
          <6> QED
            BY <4>2, <6>1, <6>2 DEF Gone
        <5> QED
          BY <2>2, <5>1, <5>2
      <4> QED
        BY <2>2, <3>3, <4>1, <4>2, OthersPromised
    <3> QED
      BY <3>1, <3>2, <3>3
  <2> QED
    BY <2>3, <2>4, <2>5, <2>6
<1>3. CASE Rollback(t) /\ Answer(t, FALSE)
  <2>1. /\ pending' \in [Tickets -> Requests \cup {None}] /\ batches' \in [Tickets -> SUBSET Tickets]
        /\ UNCHANGED records /\ Fewer /\ \A u \in Tickets \ {t} : batches'[u] = batches[u]
    BY <1>3, RollbackDoes
  <2>2. TypeOK'
    BY <1>1, <1>3, <2>1, AnswerDoes DEF TypeOK
  <2>3. DesktopInv'
    BY <1>1, <1>3, AnswerHolds
  <2>4. PendingInv'
    BY <1>1, <2>1, FewerFit
  <2>5. KeyOfTarget' /\ LegacyTracked'
    BY <1>1, <2>1 DEF KeyOfTarget, LegacyTracked, Live
  <2>6. RemovalInv'
    <3>1. CASE desktop.step = "wait" /\ desktop.ticket = t
      <4>1. DeskIs(desktop.op, "cancel", desktop.item, desktop.ids, desktop.target, desktop.staged, desktop.ticket)
        BY <1>1, <1>3, <3>1, AnswerDoes
      <4> QED
        BY <4>1, NothingPromised DEF DeskIs
    <3>2. CASE ~(desktop.step = "wait" /\ desktop.ticket = t)
      BY <1>3, <2>1, <3>2, OthersPromised DEF Answer
    <3> QED
      BY <3>1, <3>2
  <2> QED
    BY <2>2, <2>3, <2>4, <2>5, <2>6
<1> QED
  BY <1>2, <1>3 DEF Approve

\* The last approval of a session was of a secret it already had, or is its first.
LEMMA ApproveMovesOnce ==
  ASSUME BrokerInv, NEW t \in Tickets, Approve(t), NEW i \in Ids, records'[i].sealed # None, records'[i].sealed.secret.old
  PROVE  (Live(i) /\ records[i].sealed.secret.old) \/ records[i].revision = 0
<1> USE DEF BrokerInv
<1>1. CASE UNCHANGED records
  BY <1>1 DEF Live
<1>2. CASE Commit(t)
  <2>1. Same(i, t) \/ Renewed(i, t)
    BY <1>2, CommitDoes
  <2>2. CASE Same(i, t)
    BY <2>2 DEF Same, Live
  <2>3. CASE Renewed(i, t)
    <3>1. PICK m \in Members(t) : pending[m].id = i /\ Possible(pending[m]) /\ records'[i] = Approved(pending[m])
      BY <2>3 DEF Renewed
    <3>2. m \in Tickets
      BY SomeMember
    <3> QED
      BY <3>1, <3>2, ApprovedIsTrue
  <2> QED
    BY <2>1, <2>2, <2>3
<1> QED
  BY <1>1, <1>2 DEF Approve, Rollback

-----------------------------------------------------------------------------
(* What the desktop asks of the service.                                     *)

\* A ticket for one request deletes the session if the request does.
LEMMA StageOneStep ==
  ASSUME BrokerInv, StageOne
  PROVE  BrokerInv'
<1> USE DEF BrokerInv
<1>1. /\ desktop \in Desks /\ desktop.step = "stage" /\ desktop.op \in {"configure", "delete", "trust", "migrate"}
      /\ desktop.item \in Ids
  BY DEF StageOne, DesktopInv
<1>2. PICK t \in Tickets :
        /\ Elevate(t, "wait")
        /\ \/ /\ desktop.op \in {"configure", "delete", "trust"}
              /\ Stage(t, Change(desktop.op, desktop.item, desktop.target, desktop.replace, None))
           \/ /\ desktop.op = "migrate" /\ Stage(t, Migration(desktop.item))
  BY DEF StageOne
<1>3. PICK change : /\ NewRequest(change) /\ Stage(t, change)
                    /\ desktop.op = "delete" => change.kind = "delete" /\ change.id = desktop.item
  <2>1. CASE desktop.op \in {"configure", "delete", "trust"}
    <3> DEFINE change == Change(desktop.op, desktop.item, desktop.target, desktop.replace, None)
    <3>1. desktop.target \in Targets \cup {None} /\ desktop.replace \in BOOLEAN /\ (desktop.op = "configure" => desktop.target \in Targets)
      BY <1>1 DEF DesktopInv, Desks
    <3>2. NewRequest(change) /\ change.kind = desktop.op /\ change.id = desktop.item
      BY <1>1, <2>1, <3>1, ChangeIsNew
    <3>3. Stage(t, change)
      BY <1>2, <2>1
    <3> HIDE DEF change
    <3> QED
      BY <3>2, <3>3
  <2>2. CASE desktop.op = "migrate"
    <3>1. NewRequest(Migration(desktop.item))
      BY <1>1, <2>2, MigrationIsNew DEF DesktopInv
    <3> QED
      BY <1>2, <2>2, <3>1
  <2> QED
    BY <1>1, <2>1, <2>2
<1>4. /\ windows' \in [Tickets -> {"none", "open"}] /\ UNCHANGED <<probing, legacy, file, faults>>
      /\ DeskIs(desktop.op, "wait", desktop.item, desktop.ids, desktop.target, desktop.staged, t)
  BY <1>1, <1>2, ElevateDoes DEF Steps
<1>5. /\ pending' \in [Tickets -> Requests \cup {None}] /\ batches' \in [Tickets -> SUBSET Tickets]
      /\ UNCHANGED records /\ PendingInv' /\ pending' = [pending EXCEPT ![t] = change] /\ batches'[t] = {}
  BY <1>3, <1>4, StageDoes
<1>6. TypeOK'
  BY <1>4, <1>5 DEF TypeOK
<1>7. KeyOfTarget' /\ LegacyTracked'
  BY <1>4, <1>5 DEF KeyOfTarget, LegacyTracked, Live
<1>8. DesktopInv'
  BY <1>1, <1>4 DEF DeskIs, DesktopInv, Moving, Removing
<1>9. RemovalInv'
  <2>1. CASE desktop.op = "delete"
    <3>1. Members(t)' = {t} /\ pending'[t] = change /\ change.kind = "delete" /\ change.id = desktop.item
          /\ desktop.ids = {desktop.item}
      BY <1>1, <1>3, <1>5, <2>1 DEF Members, TypeOK, RemovalInv
    <3> QED
      BY <1>4, <3>1 DEF DeskIs, RemovalInv, Removing, Deletes
  <2>2. CASE desktop.op # "delete"
    BY <1>1, <1>4, <2>2 DEF DeskIs, RemovalInv, Removing
  <2> QED
    BY <2>1, <2>2
<1> QED
  BY <1>5, <1>6, <1>7, <1>8, <1>9

LEMMA StageMemberStep ==
  ASSUME BrokerInv, StageMember
  PROVE  BrokerInv'
<1> USE DEF BrokerInv
<1>1. desktop \in Desks /\ desktop.step = "stage" /\ desktop.op \in {"deleteGroup", "migrateGroup"}
      /\ UNCHANGED <<windows, probing, legacy, file>>
  BY DEF StageMember, DesktopInv
<1>2. PICK t \in Tickets, i \in Wanted :
        /\ \/ desktop.op = "deleteGroup" /\ Stage(t, Change("delete", i, None, FALSE, None))
           \/ desktop.op = "migrateGroup" /\ Imports(i) /\ Stage(t, Migration(i))
        /\ desktop' = [desktop EXCEPT !.staged = @ \cup {t}]
  BY DEF StageMember
<1>3. i \in Ids /\ i \in desktop.ids
  BY <1>1 DEF Wanted, Desks
<1>4. PICK change : /\ NewRequest(change) /\ Stage(t, change)
                    /\ desktop.op = "deleteGroup" => change.kind = "delete"
  <2>1. CASE desktop.op = "deleteGroup"
    <3> DEFINE change == Change("delete", i, None, FALSE, None)
    <3>1. NewRequest(change) /\ change.kind = "delete"
      BY <1>3 DEF NewRequest, Change, Requests, TypeOK
    <3>2. Stage(t, change)
      BY <1>2, <2>1
    <3> HIDE DEF change
    <3> QED
      BY <3>1, <3>2
  <2>2. CASE desktop.op = "migrateGroup"
    <3>1. NewRequest(Migration(i))
      BY <1>3, <2>2, MigrationIsNew DEF DesktopInv, Moving
    <3> QED
      BY <1>2, <2>2, <3>1
  <2> QED
    BY <1>1, <2>1, <2>2
<1>5. /\ pending' \in [Tickets -> Requests \cup {None}] /\ batches' \in [Tickets -> SUBSET Tickets]
      /\ UNCHANGED records /\ PendingInv' /\ pending' = [pending EXCEPT ![t] = change]
  BY <1>1, <1>4, StageDoes
<1>6. DeskIs(desktop.op, "stage", desktop.item, desktop.ids, desktop.target, desktop.staged \cup {t}, desktop.ticket)
  <2> DEFINE more == desktop.staged \cup {t}
             d    == [desktop EXCEPT !.staged = more]
  <2>1. desktop' = d /\ more \in SUBSET Tickets
    BY <1>1, <1>2 DEF Desks
  <2> HIDE DEF more
  <2>2. /\ d \in Desks /\ d.op = desktop.op /\ d.step = desktop.step /\ d.item = desktop.item /\ d.ids = desktop.ids
        /\ d.target = desktop.target /\ d.staged = more /\ d.ticket = desktop.ticket
    BY <1>1, <2>1 DEF Desks
  <2> HIDE DEF d
  <2> QED
    BY <1>1, <2>1, <2>2 DEF DeskIs, more
<1>7. TypeOK'
  BY <1>1, <1>5 DEF TypeOK
<1>8. KeyOfTarget' /\ LegacyTracked'
  BY <1>1, <1>5 DEF KeyOfTarget, LegacyTracked, Live
<1>9. DesktopInv'
  BY <1>1, <1>6 DEF DeskIs, DesktopInv, Moving, Removing
<1>10. RemovalInv'
  <2>1. desktop.op = "deleteGroup" => \A m \in desktop.staged \cup {t} : pending'[m] # None => pending'[m].kind = "delete"
    <3> SUFFICES ASSUME desktop.op = "deleteGroup", NEW m \in desktop.staged \cup {t}, pending'[m] # None
                 PROVE  pending'[m].kind = "delete"
      OBVIOUS
    <3>1. m \in Tickets /\ (m = t => pending'[m] = change) /\ (m # t => pending'[m] = pending[m])
      BY <1>1, <1>5 DEF TypeOK, Desks
    <3> QED
      BY <1>1, <1>4, <3>1 DEF RemovalInv
  <2> QED
    BY <1>1, <1>6, <2>1 DEF DeskIs, RemovalInv, Removing
<1> QED
  BY <1>5, <1>7, <1>8, <1>9, <1>10

\* A batch that deletes a group deletes all of it.
LEMMA StageBatchStep ==
  ASSUME BrokerInv, StageBatch
  PROVE  BrokerInv'
<1> USE DEF BrokerInv
<1>1. desktop \in Desks /\ desktop.step = "stage" /\ desktop.staged # {} /\ Wanted \subseteq StagedIds
  BY DEF StageBatch, DesktopInv
<1>2. PICK t \in Tickets : Batch(t, desktop.staged) /\ Elevate(t, "wait")
  BY DEF StageBatch
<1>3. /\ windows' \in [Tickets -> {"none", "open"}] /\ UNCHANGED <<probing, legacy, file, faults>>
      /\ DeskIs(desktop.op, "wait", desktop.item, desktop.ids, desktop.target, desktop.staged, t)
  BY <1>1, <1>2, ElevateDoes DEF Steps
<1>4. /\ batches' = [batches EXCEPT ![t] = desktop.staged] /\ UNCHANGED <<records, pending>>
      /\ \A m \in desktop.staged : pending[m] # None
  BY <1>2 DEF Batch
<1>5. desktop.staged \in SUBSET Tickets /\ desktop.ids \in SUBSET Ids
  BY <1>1 DEF Desks
<1>6. TypeOK'
  BY <1>3, <1>4, <1>5 DEF TypeOK
<1>7. PendingInv' /\ KeyOfTarget' /\ LegacyTracked'
  BY <1>3, <1>4 DEF PendingInv, Fits, KeyOfTarget, LegacyTracked, Live
<1>8. DesktopInv'
  BY <1>1, <1>3 DEF DeskIs, DesktopInv, Moving, Removing
<1>9. RemovalInv'
  <2>1. CASE Removing(desktop)
    <3>1. desktop.op = "deleteGroup"
      BY <1>1, <2>1 DEF Removing, RemovalInv
    <3>2. Members(t)' = desktop.staged
      BY <1>1, <1>4, <1>5 DEF Members, TypeOK
    <3>3. \A m \in desktop.staged : pending'[m].kind = "delete"
      BY <1>1, <1>4, <3>1 DEF RemovalInv
    <3>4. \A i \in desktop.ids : \E m \in desktop.staged : pending'[m].id = i
      BY <1>1, <1>4, <3>1 DEF Wanted, StagedIds
    <3> QED
      BY <1>3, <3>1, <3>2, <3>3, <3>4 DEF DeskIs, RemovalInv, Removing, Deletes
  <2>2. CASE ~Removing(desktop)
    BY <1>3, <2>2 DEF DeskIs, RemovalInv, Removing
  <2> QED
    BY <2>1, <2>2
<1> QED
  BY <1>6, <1>7, <1>8, <1>9

LEMMA CancelTicketsStep ==
  ASSUME BrokerInv, CancelTickets
  PROVE  BrokerInv'
<1> USE DEF BrokerInv
<1> DEFINE gone == desktop.staged \cup ({desktop.ticket} \ {None})
<1>1. UNCHANGED <<windows, probing, legacy, file>> /\ desktop' = Idle /\ Cancel(gone)
  BY DEF CancelTickets
<1>2. gone \in SUBSET Tickets
  BY DEF DesktopInv, Desks
<1> HIDE DEF gone
<1>3. /\ pending' \in [Tickets -> Requests \cup {None}] /\ batches' \in [Tickets -> SUBSET Tickets]
      /\ UNCHANGED records /\ Fewer
  BY <1>1, <1>2, CancelDoes
<1>4. TypeOK'
  BY <1>1, <1>3 DEF TypeOK
<1>5. PendingInv'
  BY <1>1, <1>3, FewerFit
<1>6. KeyOfTarget' /\ LegacyTracked'
  BY <1>1, <1>3 DEF KeyOfTarget, LegacyTracked, Live
<1> QED
  BY <1>1, <1>4, <1>5, <1>6, IdleHolds

LEMMA AfterApprovalStep ==
  ASSUME BrokerInv, AfterApproval
  PROVE  BrokerInv'
<1> USE DEF BrokerInv
<1>1. UNCHANGED <<windows, probing, legacy, file>> /\ desktop.step = "approved" /\ Cancel(desktop.staged)
      /\ desktop \in Desks /\ desktop.staged \in SUBSET Tickets /\ desktop.ids \subseteq Ids
  BY DEF AfterApproval, DesktopInv, Desks
<1>2. /\ pending' \in [Tickets -> Requests \cup {None}] /\ batches' \in [Tickets -> SUBSET Tickets]
      /\ UNCHANGED records /\ Fewer
  BY <1>1, CancelDoes
<1>3. TypeOK'
  BY <1>1, <1>2 DEF TypeOK
<1>4. PendingInv'
  BY <1>1, <1>2, FewerFit
<1>5. KeyOfTarget' /\ LegacyTracked'
  BY <1>1, <1>2 DEF KeyOfTarget, LegacyTracked, Live
<1>6. CASE desktop' = Idle
  BY <1>3, <1>4, <1>5, <1>6, IdleHolds
<1>7. CASE desktop.op # "trust"
  <2> DEFINE step == CASE desktop.op \in {"delete", "deleteGroup"} -> "clear"
                       [] desktop.op = "migrateGroup" -> "each"
                       [] OTHER -> "list"
             d    == [desktop EXCEPT !.staged = {}, !.ticket = None, !.step = step]
  <2>1. desktop' = d
    BY <1>7 DEF AfterApproval
  <2>2. /\ step \in Steps /\ (Removing(desktop) => step = "clear") /\ (desktop.op = "migrateGroup" => step = "each")
        /\ ~Removing(desktop) /\ desktop.op # "migrateGroup" => step = "list"
    BY DEF Steps, Removing
  <2> HIDE DEF step
  <2>3. d \in Desks /\ d.op = desktop.op /\ d.step = step /\ d.item = desktop.item /\ d.ids = desktop.ids /\ d.target = desktop.target
    BY <1>1, <2>2 DEF Desks
  <2> HIDE DEF d
  <2>4. desktop.op \in {"configure", "delete", "deleteGroup", "migrate", "migrateGroup"}
    BY <1>1, <1>7 DEF DesktopInv, Desks, Ops
  <2>5. DesktopInv'
    BY <1>1, <2>1, <2>2, <2>3, <2>4 DEF DesktopInv, Moving, Removing
  <2>6. RemovalInv'
    <3>1. CASE Removing(desktop)
      <4>1. \A i \in desktop.ids : Gone(i)'
        BY <1>1, <1>2, <3>1, GoneStays DEF RemovalInv
      <4> QED
        BY <2>1, <2>2, <2>3, <3>1, <4>1 DEF RemovalInv, Removing
    <3>2. CASE ~Removing(desktop)
      BY <2>1, <2>2, <2>3, <2>4, <3>2, NothingPromised DEF Removing
    <3> QED
      BY <3>1, <3>2
  <2> QED
    BY <1>3, <1>4, <1>5, <2>5, <2>6
<1> QED
  BY <1>6, <1>7 DEF AfterApproval

-----------------------------------------------------------------------------
(* The theorems.                                                             *)

\* The invariant holds at first, and no step of the service, of a window or of the
\* desktop breaks it.
LEMMA BrokerInit ==
  ASSUME Init
  PROVE  BrokerInv
<1>1. TypeOK
  BY BoundsAssumption DEF Init, TypeOK
<1>2. desktop = Idle /\ (\A t \in Tickets : pending[t] = None) /\ \A i \in Ids : ~Live(i)
  BY DEF Init, Live
<1>3. DesktopInv /\ RemovalInv
  BY <1>2, IdleDesk DEF DesktopInv, RemovalInv, Moving, Removing
<1>4. PendingInv /\ KeyOfTarget /\ LegacyTracked
  BY <1>1, <1>2 DEF PendingInv, Fits, KeyOfTarget, LegacyTracked, TypeOK
<1> QED
  BY <1>1, <1>3, <1>4 DEF BrokerInv

LEMMA BrokerNext ==
  ASSUME BrokerInv, Next
  PROVE  BrokerInv'
<1>1. CASE Expire \/ ServiceRestarts
  BY <1>1, ServiceStep
<1>2. CASE \E t \in Tickets : WindowFails(t) \/ Probe(t) \/ Observed(t) \/ Approve(t)
  BY <1>2, WindowFailsStep, ProbeStep, ObservedStep, ApproveStep
<1>3. CASE Create \/ Update \/ Manage \/ Delete \/ DeleteGroup \/ Trust \/ Migrate \/ MigrateGroup
  BY <1>3, StartsStep
<1>4. CASE StageOne \/ StageMember \/ StageBatch \/ NothingToStage \/ StageFails \/ CancelTickets
  BY <1>4, StageOneStep, StageMemberStep, StageBatchStep, StageEndsStep, CancelTicketsStep
<1>5. CASE AfterApproval \/ NextOfGroup \/ List \/ Clear \/ Complete \/ Save \/ Fail \/ ListGroups
  BY <1>5, AfterApprovalStep, NextOfGroupStep, ListStep, ClearStep, CompleteStep, SaveStep, FailStep, ListGroupsStep
<1> QED
  BY <1>1, <1>2, <1>3, <1>4, <1>5 DEF Next

LEMMA BrokerStutters ==
  ASSUME BrokerInv, UNCHANGED vars
  PROVE  BrokerInv'
BY DEF BrokerInv, TypeOK, DesktopInv, PendingInv, Fits, RemovalInv, Gone, Deletes, Members, Removing, Moving,
       KeyOfTarget, LegacyTracked, Live, vars, service

\* Every state of the broker and of the desktop satisfies the invariant that the
\* properties rest on.
THEOREM BrokerInductive == Spec => []BrokerInv
<1>1. BrokerInv /\ [Next]_vars => BrokerInv'
  BY BrokerNext, BrokerStutters
<1> QED
  BY <1>1, BrokerInit, PTL DEF Spec

\* What the service has sealed for a session is true, for every number of tickets that
\* are staged, reviewed, replaced and approved at once: the key it pins was observed at
\* the host it is for, and an old copy that is left is still known to be left (approve,
\* set_observed_key, cleanup_complete).
THEOREM RecordsAreTrue == Spec => []RecordsTrue
<1>1. BrokerInv => RecordsTrue
  BY DEF BrokerInv, RecordsTrue
<1> QED
  BY <1>1, BrokerInductive, PTL

\* What one step may do to an old copy and to a session that is in the file.
LEMMA OldCopyStep ==
  ASSUME BrokerInv, Next, NEW i \in Ids, records'[i].sealed # None, records'[i].sealed.secret.old
  PROVE  (Live(i) /\ records[i].sealed.secret.old) \/ records[i].revision = 0
<1>1. CASE \E t \in Tickets : Approve(t)
  BY <1>1, ApproveMovesOnce
<1>2. CASE Complete
  BY <1>2, CompleteStep
<1>3. CASE UNCHANGED records
  BY <1>3 DEF Live
<1> QED
  BY <1>1, <1>2, <1>3 DEF Next, Expire, ServiceRestarts, WindowFails, Probe, Observed, Create, Update, Manage, Delete,
       DeleteGroup, Trust, Migrate, MigrateGroup, StageOne, StageMember, StageBatch, NothingToStage, StageFails,
       CancelTickets, AfterApproval, NextOfGroup, List, Clear, Save, Fail, ListGroups, Stage, Batch, Cancel, service

LEMMA RemovedStep ==
  ASSUME BrokerInv, Next, NEW i \in Ids, file[i] # None, file'[i] = None
  PROVE  ~Live(i)
<1>1. CASE Save
  BY <1>1, SaveStep
<1>2. CASE ListGroups
  BY <1>2, ListGroupsStep
<1>3. CASE UNCHANGED file
  BY <1>3
<1> QED
  BY <1>1, <1>2, <1>3 DEF Next, Expire, ServiceRestarts, WindowFails, Probe, Observed, Approve, Create, Update, Manage,
       Delete, DeleteGroup, Trust, Migrate, MigrateGroup, StageOne, StageMember, StageBatch, NothingToStage, StageFails,
       CancelTickets, AfterApproval, NextOfGroup, List, Clear, Complete, Fail, Elevate, service

\* An old copy becomes the secret of a session at most once, and a session leaves the
\* file only after its credentials are gone, whatever windows an earlier desktop left.
THEOREM SecretsMoveOnce == Spec => SecretsMove
<1> DEFINE Once    == \A i \in Ids : records'[i].sealed # None /\ records'[i].sealed.secret.old
                        => (Live(i) /\ records[i].sealed.secret.old) \/ records[i].revision = 0
           Removed == \A i \in Ids : file[i] # None /\ file'[i] = None => ~Live(i)
<1>1. BrokerInv /\ [Next]_vars => [Once]_vars /\ [Removed]_vars
  BY OldCopyStep, RemovedStep
<1>2. Spec => [][Once]_vars /\ [][Removed]_vars
  BY <1>1, BrokerInductive, PTL DEF Spec
<1> QED
  BY <1>2 DEF SecretsMove, OldCopyOnce, RemovedMeansDeleted
=============================================================================
