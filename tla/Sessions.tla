------------------------------ MODULE Sessions ------------------------------
(***************************************************************************)
(* Saved sessions and their secrets where the program itself keeps both:   *)
(* the list is a file (StoreFile), the secrets are in the credential store *)
(* (CredentialVault).  A change of a session is several accesses to both;  *)
(* any of them may fail and the process may die between any two.  Calls    *)
(* are serialised by the mutex of SessionService.                          *)
(***************************************************************************)
EXTENDS Naturals, FiniteSets

CONSTANTS Ids,        \* session ids
          Passwords,  \* passwords and passphrases
          Keys,       \* pasted private keys
          None,       \* no session, no secret
          Bad         \* a secret that is damaged or was not saved as asked

VARIABLES store,    \* SessionStore in memory
          disk,     \* the store a restart loads
          secret,   \* the secrets of every id in the credential store
          task,     \* the call in progress
          answer,   \* history: the last call, if it changed a session and failed
          spoiled   \* history: ids whose secrets an interrupted or failed
                    \* rollback left as they were

vars == <<store, disk, secret, task, answer, spoiled>>

Auths    == [source : {"password", "file", "inline"}, phrase : BOOLEAN] \ {[source |-> "password", phrase |-> TRUE]}
NoSecret == [cred |-> None, key |-> None]
Keep     == [do |-> "keep", value |-> None]
Delete   == [do |-> "delete", value |-> None]
Set(x)   == [do |-> "set", value |-> x]
Exists(s, id) == s.auth[id] # None
Live(s)  == {id \in Ids : Exists(s, id)}

-----------------------------------------------------------------------------
(* prepare_auth: which changes of the secrets may go with the new way to   *)
(* authenticate.  `same' says that the key file, or the pasted key, stays. *)
NewPhrase(same, had) == {Set(p) : p \in Passwords} \cup {Delete}
                        \cup (IF same /\ had # None THEN {Keep} ELSE {})

OldKeyLeft(old) == Keep
OldKey(old) ==
  IF old # None /\ old.source = "inline" THEN Delete ELSE Keep

NoPhrase(old, same) == IF old # None /\ (~same \/ old.phrase) THEN Delete ELSE Keep

Changes(old, had, new) ==
  CASE new.source = "password" ->
         [cred : {Set(p) : p \in Passwords} \cup {Delete}
                 \cup (IF old # None /\ old.source = "password" THEN {Keep} ELSE {}),
          key  : {IF old # None /\ old.source # "password" THEN Delete ELSE Keep}]
    [] new.source = "file" ->
         UNION {[cred : IF new.phrase THEN NewPhrase(same, had.cred) ELSE {NoPhrase(old, same)},
                 key  : {OldKey(old)}]
                : same \in IF old # None /\ old.source = "file" THEN BOOLEAN ELSE {FALSE}}
    [] new.source = "inline" ->
         [cred : IF new.phrase THEN NewPhrase(FALSE, had.cred) ELSE {NoPhrase(old, FALSE)},
          key  : {Set(k) : k \in Keys}]
         \cup IF old # None /\ old.source = "inline" /\ had.key \in Keys
              THEN [cred : IF new.phrase THEN NewPhrase(TRUE, had.cred) ELSE {NoPhrase(old, TRUE)},
                    key  : {Keep}]
              ELSE {}

Changed(c) == c.cred # Keep \/ c.key # Keep
Apply(change, old) == CASE change.do = "keep" -> old [] change.do = "delete" -> None [] OTHER -> change.value

-----------------------------------------------------------------------------
NoTask == [op |-> "none", pc |-> "", ids |-> {}, auth |-> None, change |-> [cred |-> Keep, key |-> Keep],
           before |-> NoSecret, left |-> {}, broke |-> FALSE]
NotYet == [how |-> "none", id |-> None, before |-> NoSecret]
The(t) == CHOOSE id \in t.ids : TRUE
Goto(pc) == task' = [task EXCEPT !.pc = pc]

Answer(how) ==
  /\ task' = NoTask
  /\ answer' = IF how = "failed" /\ task.op # "create"
               THEN [how |-> how, id |-> The(task), before |-> task.before] ELSE NotYet
  /\ spoiled' = IF how = "broken" THEN spoiled \cup task.ids ELSE spoiled

NoAnswer == UNCHANGED <<answer, spoiled>>

\* The new list is saved: the file and memory change together, or neither does.
SaveAs(s) == store' = s /\ disk' = s

Begin(op, pc, ids, auth, change, before) ==
  /\ task = NoTask
  /\ task' = [NoTask EXCEPT !.op = op, !.pc = pc, !.ids = ids, !.auth = auth, !.change = change,
                            !.before = before, !.left = ids]
  /\ answer' = NotYet /\ UNCHANGED spoiled

\* create: an id that was never used; nothing is known of it.
Create ==
  \E id \in Ids, new \in Auths : \E c \in Changes(None, NoSecret, new) :
    /\ ~Exists(store, id) /\ id \notin store.pending \cup disk.pending \cup spoiled
    /\ secret[id] = NoSecret
    /\ Begin("create", "key", {id}, new, c, NoSecret)
    /\ UNCHANGED <<store, disk, secret>>

\* update: the secrets are read first, to be put back if a later step fails.
\* A damaged key can be replaced or deleted, but not put back.
Update ==
  \E id \in Live(store), new \in Auths : \E c \in Changes(store.auth[id], secret[id], new) :
    /\ c.key = Keep /\ Changed(c) => secret[id].key # Bad
    /\ Begin("update", "key", {id}, new, c,
             [secret[id] EXCEPT !.key = IF @ = Bad THEN None ELSE @])
    /\ UNCHANGED <<store, disk, secret>>

\* The accesses that change a secret: what is asked, nothing, or something bad.
Access(id, part, change) ==
  secret' = [secret EXCEPT ![id][part] = Apply(change, @)]

AccessFails(id, part, change) ==
  /\ change # Keep
  /\ \/ UNCHANGED secret
     \/ change.do = "set" /\ secret' = [secret EXCEPT ![id][part] = Bad]

Part == IF task.pc \in {"key", "undoKey"} THEN "key" ELSE "cred"

Change ==
  /\ task.pc \in {"key", "cred"}
  /\ LET id == The(task)  c == task.change[Part] IN
       \/ Access(id, Part, c) /\ Goto(IF task.pc = "key" THEN "cred" ELSE "state")
       \/ AccessFails(id, Part, c) /\ Goto("undoKey")
  /\ NoAnswer /\ UNCHANGED <<store, disk>>

\* resolve_credential_state: the answer tells whether the secrets are there.
NotUndone == Answer("failed")
Failed ==
  IF task.op = "create" THEN Goto("cleanup") /\ NoAnswer
  ELSE IF Changed(task.change) THEN Goto("undoKey") /\ NoAnswer
  ELSE Answer("failed")

ReadState ==
  /\ task.pc = "state"
  /\ \/ Goto("save") /\ NoAnswer
     \/ Failed
  /\ UNCHANGED <<store, disk, secret>>

Save ==
  /\ task.pc = "save"
  /\ \/ SaveAs([store EXCEPT !.auth[The(task)] = task.auth]) /\ Answer("done")
     \/ /\ IF task.op = "create" /\ ~Changed(task.change) THEN Answer("failed") ELSE Failed
        /\ UNCHANGED <<store, disk>>
  /\ UNCHANGED secret

\* restore_secrets: the key, then, whether that failed or not, the password.
PutBack(x) == IF x = None THEN Delete ELSE Set(x)

Undo ==
  /\ task.pc \in {"undoKey", "undoCred"}
  /\ LET id == The(task)  c == PutBack(task.before[Part]) IN
       \/ /\ Access(id, Part, c)
          /\ \/ task.pc = "undoKey" /\ Goto("undoCred") /\ NoAnswer
             \/ task.pc = "undoCred" /\ task.op = "create" /\ Goto("cleanup") /\ NoAnswer
             \/ task.pc = "undoCred" /\ task.op = "update" /\ Answer(IF task.broke THEN "broken" ELSE "failed")
       \/ /\ AccessFails(id, Part, c)
          /\ \/ task.pc = "undoKey" /\ task' = [task EXCEPT !.pc = "undoCred", !.broke = TRUE] /\ NoAnswer
             \/ task.pc = "undoCred" /\ task.op = "create" /\ Goto("cleanup") /\ NoAnswer
             \/ task.pc = "undoCred" /\ task.op = "update" /\ Answer("broken")
  /\ UNCHANGED <<store, disk>>

\* delete_all that fails has removed some of the secrets, in this order.
WipeFails(id) ==
  secret' \in {secret, [secret EXCEPT ![id].cred = None],
               [secret EXCEPT ![id] = [cred |-> None, key |-> IF @.key = None THEN None ELSE Bad]]}
Wipe(id) == secret' = [secret EXCEPT ![id] = NoSecret]

\* cleanup_credentials_or_queue: whether the queue could be saved is not asked.
Forgotten(id) == UNCHANGED <<store, disk>>
Queued(id) ==
  /\ store' = [store EXCEPT !.pending = @ \cup {id}]
  /\ disk' \in {disk, store'}

Cleanup ==
  /\ task.pc = "cleanup"
  /\ \/ Wipe(The(task)) /\ UNCHANGED <<store, disk>>
     \/ WipeFails(The(task)) /\ Queued(The(task))
  /\ Answer("failed")

-----------------------------------------------------------------------------
\* delete and delete_group: the sessions go and their ids are queued in one
\* save; only then their secrets are deleted.
Unqueued(s, ids) == [s EXCEPT !.auth = [id \in Ids |-> IF id \in ids THEN None ELSE @[id]], !.asked = @ \ ids]
Removed(s, ids)  == [Unqueued(s, ids) EXCEPT !.pending = @ \cup ids]

DeleteSessions ==
  \E ids \in SUBSET Live(store) \ {{}} :
    /\ Begin("delete", "wipe", ids, None, NoTask.change, NoSecret)
    /\ SaveAs(Removed(store, ids))
    /\ UNCHANGED secret

\* list_groups retries what is queued.
RetryCleanup ==
  /\ store.pending # {}
  /\ Begin("retry", "wipe", store.pending, None, NoTask.change, NoSecret)
  /\ UNCHANGED <<store, disk, secret>>

WipeNext ==
  /\ task.pc = "wipe"
  /\ \E id \in task.left :
       \/ Wipe(id) /\ task' = [task EXCEPT !.left = @ \ {id}]
       \/ WipeFails(id) /\ task' = [task EXCEPT !.left = @ \ {id}, !.ids = @ \ {id}]
  /\ NoAnswer /\ UNCHANGED <<store, disk>>

\* What was wiped leaves the queue, unless that cannot be saved.
Forget ==
  /\ task.pc = "wipe" /\ task.left = {}
  /\ \/ SaveAs([store EXCEPT !.pending = @ \ task.ids])
     \/ UNCHANGED <<store, disk>>
  /\ task' = NoTask
  /\ NoAnswer /\ UNCHANGED secret

-----------------------------------------------------------------------------
\* resolve_login_save_prompt: asked once; the password that was typed may be
\* saved before the answer to the prompt is.  (Reading the new state for the
\* reply may still fail; what was saved stays.)
LoginPrompt ==
  \E id \in Live(store), c \in {Keep} \cup {Set(p) : p \in Passwords} :
    /\ store.auth[id].source = "password" /\ id \notin store.asked
    /\ Begin("login", "login", {id}, store.auth[id], [cred |-> c, key |-> Keep], secret[id])
    /\ UNCHANGED <<store, disk, secret>>

SaveLogin ==
  /\ task.pc = "login"
  /\ LET id == The(task)  c == task.change.cred IN
       \/ Access(id, "cred", c) /\ Goto("asked") /\ NoAnswer
       \/ /\ AccessFails(id, "cred", c)
          /\ Answer(IF secret'[id] = secret[id] THEN "failed" ELSE "broken")
  /\ UNCHANGED <<store, disk>>

SaveAsked ==
  /\ task.pc = "asked"
  /\ LET id == The(task)  c == PutBack(task.before.cred) IN
       \/ SaveAs([store EXCEPT !.asked = @ \cup {id}]) /\ Answer("done") /\ UNCHANGED secret
       \/ /\ UNCHANGED <<store, disk>>
          /\ IF task.change.cred = Keep THEN Answer("failed") /\ UNCHANGED secret
             ELSE \/ Access(id, "cred", c) /\ Answer("failed")
                  \/ AccessFails(id, "cred", c) /\ Answer("broken")

\* set_credential: only for sessions that use one.
SetCredential ==
  \E id \in Live(store), p \in Passwords :
    /\ task = NoTask
    /\ store.auth[id].source = "password" \/ store.auth[id].phrase
    /\ store.auth[id].source = "inline" => secret[id].key \in Keys
    /\ secret' = [secret EXCEPT ![id].cred = p]
    /\ answer' = NotYet
    /\ UNCHANGED <<store, disk, task, spoiled>>

\* The process dies and starts again, with the list that is on disk.  What it
\* had begun to change stays half done.
Crash ==
  /\ store' = disk
  /\ task' = NoTask /\ answer' = NotYet
  /\ spoiled' = spoiled \cup (store.pending \ disk.pending)
                 \cup IF task.op \in {"create", "update", "login"} THEN task.ids ELSE {}
  /\ UNCHANGED <<disk, secret>>

Init ==
  /\ store = [auth |-> [id \in Ids |-> None], asked |-> {}, pending |-> {}]
  /\ disk = store
  /\ secret = [id \in Ids |-> NoSecret]
  /\ task = NoTask /\ answer = NotYet /\ spoiled = {}

Next ==
  \/ Create \/ Update \/ Change \/ ReadState \/ Save \/ Undo \/ Cleanup
  \/ DeleteSessions \/ RetryCleanup \/ WipeNext \/ Forget
  \/ LoginPrompt \/ SaveLogin \/ SaveAsked \/ SetCredential
  \/ Crash

Spec == Init /\ [][Next]_vars
-----------------------------------------------------------------------------
Idle == task = NoTask

TypeOK ==
  /\ \A s \in {store, disk} :
       /\ s.auth \in [Ids -> Auths \cup {None}]
       /\ s.asked \subseteq Ids /\ s.pending \subseteq Ids
  /\ secret \in [Ids -> [cred : Passwords \cup {None, Bad}, key : Keys \cup {None, Bad}]]
  /\ task.ids \subseteq Ids /\ task.left \subseteq Ids /\ spoiled \subseteq Ids
  /\ answer.how \in {"none", "failed"}

\* A secret belongs to a saved session or is queued for deletion, and never to
\* both, so that no cleanup deletes what a session needs; only a crash in the
\* middle of a call leaves a secret to nobody.
SecretsOwned ==
  /\ Live(store) \cap store.pending = {}
  /\ \A id \in Ids : secret[id] # NoSecret =>
       id \in Live(store) \cup store.pending \cup task.ids \cup spoiled

\* Between calls the secrets of a session fit the way it authenticates: a key
\* exactly when it was pasted, and no passphrase of a key that needs none.
SecretsFit ==
  Idle => \A id \in Live(store) \ spoiled :
    /\ secret[id].key # None <=> store.auth[id].source = "inline"
    /\ store.auth[id].source # "password" /\ ~store.auth[id].phrase => secret[id].cred = None

\* A change that was answered with an ordinary error has changed nothing: every
\* secret is what it was before (a damaged key may be gone).
FailureUndone ==
  Idle /\ answer.how = "failed" /\ answer.id \notin spoiled
    => secret[answer.id] = answer.before
=============================================================================
