-------------------------- MODULE CredentialVault --------------------------
(***************************************************************************)
(* The secrets of one session in the credential store of the system.  An   *)
(* account of the store holds a short text, so a private key is cut in     *)
(* chunks, one account each, and a manifest (count, length and checksum,   *)
(* here: the key it describes).  One worker thread serves a request at a   *)
(* time, one account after the other; every access may fail, and the       *)
(* process may die between any two.                                        *)
(***************************************************************************)
EXTENDS Naturals, Sequences

CONSTANTS Keys,       \* private keys, as sequences of chunks
          Passwords,  \* passwords and passphrases
          MaxChunks,  \* MAX_PRIVATE_KEY_CHUNKS
          None,       \* there is no such entry
          Garbage,    \* an entry that was not saved as asked
          Damaged     \* the manifest and the chunks do not fit

VARIABLES vault,  \* the content of every account
          task,   \* the request the worker serves, or Idle
          last    \* history: the answer to the last request

vars == <<vault, task, last>>

Manifest == 0
Session  == MaxChunks + 1
Accounts == 0 .. MaxChunks + 1
Idle     == [phase |-> "idle", new |-> None, before |-> None, todo |-> << >>]

\* get_private_key
Key(v) ==
  IF v[Manifest] = None THEN None
  ELSE IF v[Manifest] \in Keys /\ \A i \in 1 .. Len(v[Manifest]) : v[i] = v[Manifest][i]
  THEN v[Manifest]
  ELSE Damaged

Put(a, x) == [op |-> "put", account |-> a, value |-> x]
Del(a)    == [op |-> "del", account |-> a, value |-> None]
Check(k)  == [op |-> "check", account |-> Manifest, value |-> k]

DeleteKey == <<Del(Manifest)>> \o [i \in 1 .. MaxChunks |-> Del(i)]

\* Chunks first, the manifest after them; then the chunks of a longer old key go.
WriteUntrimmed(k) == [i \in 1 .. Len(k) |-> Put(i, k[i])] \o <<Put(Manifest, k), Check(k)>>

WriteKey(k) ==
  [i \in 1 .. Len(k) |-> Put(i, k[i])]
  \o <<Put(Manifest, k)>>
  \o [i \in 1 .. MaxChunks - Len(k) |-> Del(Len(k) + i)]
  \o <<Check(k)>>

-----------------------------------------------------------------------------
Begin(phase, new, todo) ==
  /\ task = Idle
  /\ task' = [phase |-> phase, new |-> new, before |-> Key(vault), todo |-> todo]
  /\ last' = [result |-> "none", new |-> None, before |-> None]
  /\ UNCHANGED vault

SetPassword == \E p \in Passwords : Begin("password", p, <<Put(Session, p)>>)

\* Chunks that do not fit cannot be rolled back to: they are cleared first.
SetKey ==
  \E k \in Keys :
    IF Key(vault) = Damaged THEN Begin("clear", k, DeleteKey) ELSE Begin("write", k, WriteKey(k))

DeletePrivateKey == Begin("delete", None, DeleteKey)

\* On Windows every account is read again at the end.
DeleteAll == Begin("deleteAll", None, <<Del(Session)>> \o DeleteKey \o <<Check(None)>>)

Answer(result) ==
  /\ task' = Idle
  /\ last' = [result |-> result, new |-> task.new, before |-> task.before]

-----------------------------------------------------------------------------
\* CredentialBackend::set, delete and get of one account.
Step ==
  /\ task.todo # << >>
  /\ LET x == Head(task.todo) IN
       IF x.op = "check"
       THEN /\ IF x.value = None THEN \A a \in Accounts : vault[a] = None ELSE Key(vault) = x.value
            /\ UNCHANGED vault
       ELSE vault' = [vault EXCEPT ![x.account] = x.value]
  /\ task' = [task EXCEPT !.todo = Tail(@)]
  /\ UNCHANGED last

\* What is done with the key when an access has failed.
UndoNothing(before) == << >>
Undo(before)        == IF before = None THEN DeleteKey ELSE WriteKey(before)

AfterFailure ==
  IF task.phase = "write"
  THEN task' = [task EXCEPT !.phase = "undo", !.todo = Undo(task.before)] /\ UNCHANGED last
  ELSE Answer(IF task.phase = "undo" THEN "broken" ELSE "failed")

\* The access fails and the account keeps, or gets back, what it held.
StepFails ==
  /\ task.todo # << >>
  /\ AfterFailure
  /\ UNCHANGED vault

\* What was written does not read back as it was, and cannot be put back.
PutBreaks ==
  /\ task.todo # << >> /\ Head(task.todo).op = "put"
  /\ IF task.phase = "password" THEN Answer("broken") ELSE AfterFailure
  /\ \E x \in {Garbage, Head(task.todo).value} :
       vault' = [vault EXCEPT ![Head(task.todo).account] = x]

Finish ==
  /\ task # Idle /\ task.todo = << >>
  /\ CASE task.phase = "clear" ->
            /\ task' = [task EXCEPT !.phase = "write", !.before = None, !.todo = WriteKey(task.new)]
            /\ UNCHANGED last
       [] task.phase = "undo" -> Answer("failed")
       [] OTHER -> Answer(task.phase)
  /\ UNCHANGED vault

\* The process dies; the store keeps what has reached it.
Crash ==
  /\ task # Idle
  /\ task' = Idle
  /\ UNCHANGED <<vault, last>>

Init ==
  /\ vault = [a \in Accounts |-> None]
  /\ task = Idle
  /\ last = [result |-> "none", new |-> None, before |-> None]

Next ==
  \/ SetPassword \/ SetKey \/ DeletePrivateKey \/ DeleteAll
  \/ Step \/ StepFails \/ PutBreaks \/ Finish \/ Crash

Spec == Init /\ [][Next]_vars
-----------------------------------------------------------------------------
TypeOK ==
  /\ vault[Session] \in Passwords \cup {None, Garbage}
  /\ Key(vault) \in Keys \cup {None, Damaged}
  /\ task.phase \in {"idle", "password", "clear", "write", "undo", "delete", "deleteAll"}
  /\ last.result \in {"none", "password", "write", "delete", "deleteAll", "failed", "broken"}

\* What the answer to a request says is what the store holds: a saved key reads
\* back, and an ordinary failure leaves the key that was there (unless it was
\* damaged already), whichever of the many accesses failed.
KeyAtomic ==
  task = Idle =>
    /\ last.result = "write" => Key(vault) = last.new
    /\ last.result = "failed" /\ last.new \in Keys =>
         Key(vault) = last.before \/ (last.before = Damaged /\ Key(vault) = None)

\* No part of a secret outlives the request that removed or replaced it: after
\* a key was saved, or a failed save of a first key was undone, no chunk is left
\* outside of the key that reads, and a deleted session has no entry at all.
NothingLeft ==
  task = Idle =>
    /\ last.result = "write" => \A i \in Len(last.new) + 1 .. MaxChunks : vault[i] = None
    /\ \/ last.result \in {"delete", "deleteAll"}
       \/ last.result = "failed" /\ last.new \in Keys /\ last.before = None
         => \A i \in 0 .. MaxChunks : vault[i] = None
    /\ last.result = "deleteAll" => vault[Session] = None
=============================================================================
