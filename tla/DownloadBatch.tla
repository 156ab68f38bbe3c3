---------------------------- MODULE DownloadBatch ----------------------------
(***************************************************************************)
(* A batch of downloads taken over by the back end, and the window's        *)
(* subscription to it.  A fixed number of workers share the queue; a worker *)
(* keeps one of the download slots of the whole program from before it      *)
(* takes a file until the file is accounted for, the time it waits for the  *)
(* user included.  Files that exist already are asked about one at a time:  *)
(* the worker shows its conflict in the job's summary, the summary reaches  *)
(* the window as an event, and the user's decision comes back as a call     *)
(* that names the job, not the file.                                        *)
(* The window may be destroyed and created again (lightweight mode), the    *)
(* session may be lost, the job cancelled, a worker may panic.              *)
(***************************************************************************)
EXTENDS Naturals, Sequences, FiniteSets, SequenceTheorems, FiniteSetTheorems, TLAPS

CONSTANTS Workers,    \* MAX_CONCURRENT_DOWNLOADS workers of the batch
          Files,      \* number of files of the batch
          Slots,      \* download_slots, shared with other jobs
          MaxOthers,  \* bound: slots that other jobs take at one time
          MaxWindows, \* bound: windows opened during the batch
          Disturbances \* environment: cancellation, loss of the session, panic

ASSUME FilesAssumption == Files \in Nat \ {0} /\ Slots \in Nat \ {0} /\ MaxOthers \in 0..Slots
ASSUME WorkersAssumption == IsFiniteSet(Workers) /\ Workers # {}
ASSUME BoundsAssumption == MaxWindows \in Nat /\ Disturbances \subseteq {"cancel", "session", "panic"}

VARIABLES queue,     \* files not taken yet, in order
          worker,    \* what each worker does
          others,    \* slots held by other jobs
          lock,      \* batch_conflict: the workers that hold it
          summary,   \* the TransferJobSummary
          decision,  \* the pending decision
          notified,  \* the permit of decision_notify
          cancelled, \* the flag shared with the transfers
          token,     \* the cancellation token
          session,   \* the connection is there
          failedWorker,
          ui,        \* the window's subscription
          channel,   \* events on their way to the window
          call,      \* the resolve call on its way to the back end
          approved,  \* files the user agreed to overwrite
          overwritten \* files that were overwritten

vars == <<queue, worker, others, lock, summary, decision, notified, cancelled, token, session,
          failedWorker, ui, channel, call, approved, overwritten>>

NoFile == 0
\* The key of a conflict whose conflict_id is gone: batch index and file name.
Unnamed == Files + 1
NoDecision == "none"
Decisions == {"overwrite", "skip", "cancel"}

Terminal == summary.state \in {"completed", "cancelled", "failed"}

Holds(w) == worker[w].pc \notin {"slot", "acquire", "exit", "panicked"}
FreeSlots == Slots - others - Cardinality({w \in Workers : Holds(w)})

Go(w, pc) == worker' = [worker EXCEPT ![w].pc = pc]

\* update: the summary and its event change under one lock; the channel is there
\* while a window is attached.
Event(s) == [state |-> s.state, conflict |-> s.conflict]
Send(s) ==
  channel' = IF ui.attached /\ (channel = <<>> \/ channel[Len(channel)] # Event(s))
               THEN Append(channel, Event(s)) ELSE channel
Update(s) == summary' = s /\ Send(s)

-----------------------------------------------------------------------------
(* A worker: a slot, a file, the transfer, its outcome.                     *)

\* acquire_download_slot: the flag is read before and after the wait, the token
\* ends it.
CheckSlot(w) ==
  /\ worker[w].pc = "slot"
  /\ Go(w, IF cancelled THEN "exit" ELSE "acquire")
  /\ UNCHANGED <<queue, others, lock, summary, decision, notified, cancelled, token, session,
                 failedWorker, ui, channel, call, approved, overwritten>>

AcquireSlot(w) ==
  /\ worker[w].pc = "acquire"
  /\ \/ token /\ Go(w, "exit")
     \/ FreeSlots > 0 /\ Go(w, IF cancelled THEN "exit" ELSE "pop")
  /\ UNCHANGED <<queue, others, lock, summary, decision, notified, cancelled, token, session,
                 failedWorker, ui, channel, call, approved, overwritten>>

Pop(w) ==
  /\ worker[w].pc = "pop"
  /\ IF queue = <<>> THEN Go(w, "exit") /\ UNCHANGED queue
     ELSE /\ worker' = [worker EXCEPT ![w] = [pc |-> "begin", file |-> Head(queue), over |-> FALSE,
                                              result |-> "none"]]
          /\ queue' = Tail(queue)
  /\ UNCHANGED <<others, lock, summary, decision, notified, cancelled, token, session,
                 failedWorker, ui, channel, call, approved, overwritten>>

Finish(w, result) == worker' = [worker EXCEPT ![w].pc = "account", ![w].result = result]

BeginKeepsQueued(w) ==
  /\ worker[w].pc = "begin"
  /\ Update([summary EXCEPT !.active = @ + 1])
  /\ IF cancelled THEN Finish(w, "cancelled") ELSE Go(w, "transfer")
  /\ UNCHANGED <<queue, others, lock, decision, notified, cancelled, token, session,
                 failedWorker, ui, call, approved, overwritten>>

Begin(w) ==
  /\ worker[w].pc = "begin"
  /\ Update([summary EXCEPT !.queued = @ - 1, !.active = @ + 1])
  /\ IF cancelled THEN Finish(w, "cancelled") ELSE Go(w, "transfer")
  /\ UNCHANGED <<queue, others, lock, decision, notified, cancelled, token, session,
                 failedWorker, ui, call, approved, overwritten>>

\* One turn of the loop of download_one.  The flag is read before and after the
\* transfer; a transfer that sees it reports that it was cancelled, but may also
\* end before it does.  Without a session it cannot succeed.
Transferred(w) ==
  /\ session
  /\ overwritten' = IF worker[w].over THEN overwritten \cup {worker[w].file} ELSE overwritten
  /\ Finish(w, IF cancelled THEN "cancelled" ELSE "downloaded")
  /\ UNCHANGED <<token, notified>>

Conflicted(w) ==
  /\ session /\ ~worker[w].over
  /\ IF cancelled THEN Finish(w, "cancelled") ELSE Go(w, "conflict")
  /\ UNCHANGED <<token, notified, overwritten>>

TransferFailed(w) ==
  /\ Finish(w, IF cancelled THEN "cancelled" ELSE "failed")
  /\ UNCHANGED <<token, notified, overwritten>>

TransferCancelled(w) ==
  /\ cancelled
  /\ token' = TRUE /\ notified' = TRUE
  /\ Finish(w, "cancelled")
  /\ UNCHANGED overwritten

TransferEnds(w) ==
  /\ worker[w].pc = "transfer"
  /\ Transferred(w) \/ Conflicted(w) \/ TransferFailed(w) \/ TransferCancelled(w)
  /\ UNCHANGED <<queue, others, lock, summary, decision, cancelled, session,
                 failedWorker, ui, channel, call, approved>>

Account(w) ==
  /\ worker[w].pc = "account"
  /\ LET r == worker[w].result
         s == [summary EXCEPT !.active = @ - 1]
     IN Update(CASE r = "downloaded" -> [s EXCEPT !.downloaded = @ + 1]
                 [] r = "skipped"    -> [s EXCEPT !.skipped = @ + 1]
                 [] r = "failed"     -> [s EXCEPT !.failed = @ + 1]
                 [] OTHER            -> s)
  /\ Go(w, "slot")
  /\ UNCHANGED <<queue, others, lock, decision, notified, cancelled, token, session,
                 failedWorker, ui, call, approved, overwritten>>

-----------------------------------------------------------------------------
(* resolve_batch_conflict and wait_for_conflict_decision.                   *)

\* The conflict is shown under the lock, unless the job was cancelled meanwhile.
ShowConflictUnlocked(w) ==
  /\ worker[w].pc = "conflict"
  /\ IF cancelled
       THEN /\ worker' = [worker EXCEPT ![w].pc = "stop"]
            /\ UNCHANGED <<lock, summary, channel>>
       ELSE /\ lock' = {w}
            /\ Update([summary EXCEPT !.state = "waiting", !.conflict = worker[w].file])
            /\ Go(w, "wait")
  /\ UNCHANGED <<queue, others, decision, notified, cancelled, token, session,
                 failedWorker, ui, call, approved, overwritten>>

ShowConflict(w) ==
  /\ worker[w].pc = "conflict" /\ lock = {}
  /\ IF cancelled
       THEN /\ worker' = [worker EXCEPT ![w].pc = "stop"]
            /\ UNCHANGED <<lock, summary, channel>>
       ELSE /\ lock' = {w}
            /\ Update([summary EXCEPT !.state = "waiting", !.conflict = worker[w].file])
            /\ Go(w, "wait")
  /\ UNCHANGED <<queue, others, decision, notified, cancelled, token, session,
                 failedWorker, ui, call, approved, overwritten>>

Decide(w, d) == worker' = [worker EXCEPT ![w].pc = "decided", ![w].result = d]

\* Taking a decision leaves the waiting state with it, without an event.
TakeDecisionOnly(w) ==
  /\ Decide(w, decision)
  /\ decision' = NoDecision
  /\ UNCHANGED summary

TakeDecision(w) ==
  /\ Decide(w, decision)
  /\ decision' = NoDecision
  /\ summary' = [summary EXCEPT !.state = "running"]

CheckDecisionOnly(w) ==
  /\ worker[w].pc = "wait"
  /\ \/ decision # NoDecision /\ TakeDecision(w)
     \/ decision = NoDecision /\ Go(w, "sleep") /\ UNCHANGED <<decision, summary>>
  /\ UNCHANGED <<queue, others, lock, notified, cancelled, token, session,
                 failedWorker, ui, channel, call, approved, overwritten>>

CheckDecision(w) ==
  /\ worker[w].pc = "wait"
  /\ \/ cancelled /\ Decide(w, "cancel") /\ UNCHANGED <<decision, summary>>
     \/ ~cancelled /\ decision # NoDecision /\ TakeDecision(w)
     \/ ~cancelled /\ decision = NoDecision /\ Go(w, "sleep") /\ UNCHANGED <<decision, summary>>
  /\ UNCHANGED <<queue, others, lock, notified, cancelled, token, session,
                 failedWorker, ui, channel, call, approved, overwritten>>

\* Woken by a notification, or after a second to look for the session.
Wake(w) ==
  /\ worker[w].pc = "sleep"
  /\ \/ notified /\ notified' = FALSE /\ Go(w, "wait")
     \/ session /\ Go(w, "wait") /\ UNCHANGED notified
     \/ ~session /\ Decide(w, "cancel") /\ UNCHANGED notified
  /\ UNCHANGED <<queue, others, lock, summary, decision, cancelled, token, session,
                 failedWorker, ui, channel, call, approved, overwritten>>

\* The conflict is withdrawn and the lock released before the decision is acted on.
Withdraw(w) ==
  /\ worker[w].pc = "decided"
  /\ Update([summary EXCEPT !.conflict = NoFile])
  /\ lock' = {}
  /\ LET d == worker[w].result
     IN worker' = [worker EXCEPT ![w] = [@ EXCEPT
          !.pc     = CASE d = "overwrite" -> "transfer" [] d = "skip" -> "account" [] OTHER -> "stop",
          !.over   = (d = "overwrite"),
          !.result = IF d = "skip" THEN "skipped" ELSE "none"]]
  /\ UNCHANGED <<queue, others, decision, notified, cancelled, token, session,
                 failedWorker, ui, call, approved, overwritten>>

StopBatch(w) ==
  /\ worker[w].pc = "stop"
  /\ cancelled' = TRUE /\ token' = TRUE
  /\ Finish(w, "cancelled")
  /\ UNCHANGED <<queue, others, lock, summary, decision, notified, session,
                 failedWorker, ui, channel, call, approved, overwritten>>

-----------------------------------------------------------------------------
(* The runner joins the workers; a panic cancels the others.                *)

Panic(w) ==
  /\ "panic" \in Disturbances /\ worker[w].pc \in {"transfer", "wait"}
  /\ \A v \in Workers : worker[v].pc # "panicked"
  /\ Go(w, "panicked")
  /\ lock' = lock \ {w}
  /\ UNCHANGED <<queue, others, summary, decision, notified, cancelled, token, session,
                 failedWorker, ui, channel, call, approved, overwritten>>

Join(w) ==
  /\ worker[w].pc = "panicked" /\ ~failedWorker
  /\ failedWorker' = TRUE
  /\ cancelled' = TRUE /\ token' = TRUE /\ notified' = TRUE
  /\ Update([summary EXCEPT !.failed = @ + 1])
  /\ UNCHANGED <<queue, worker, others, lock, decision, session, ui, call, approved, overwritten>>

EndIgnoresCancel ==
  /\ "cancel" \in Disturbances /\ ~Terminal /\ \A w \in Workers : worker[w].pc = "exit" \/ (worker[w].pc = "panicked" /\ failedWorker)
  /\ Update([summary EXCEPT !.queued = 0, !.active = 0, !.conflict = NoFile,
       !.state = IF failedWorker \/ summary.failed = Files THEN "failed" ELSE "completed"])
  /\ UNCHANGED <<queue, worker, others, lock, decision, notified, cancelled, token, session,
                 failedWorker, ui, call, approved, overwritten>>

End ==
  /\ ~Terminal /\ \A w \in Workers : worker[w].pc = "exit" \/ (worker[w].pc = "panicked" /\ failedWorker)
  /\ Update([summary EXCEPT !.queued = 0, !.active = 0, !.conflict = NoFile,
       !.state = IF cancelled /\ ~failedWorker THEN "cancelled"
                 ELSE IF failedWorker \/ summary.failed = Files THEN "failed" ELSE "completed"])
  /\ UNCHANGED <<queue, worker, others, lock, decision, notified, cancelled, token, session,
                 failedWorker, ui, call, approved, overwritten>>

-----------------------------------------------------------------------------
(* The service: cancel, resolve_conflict, and the rest of the program.      *)

Cancel ==
  /\ "cancel" \in Disturbances /\ ~Terminal /\ ~token
  /\ cancelled' = TRUE /\ token' = TRUE /\ notified' = TRUE
  /\ UNCHANGED <<queue, worker, others, lock, summary, decision, session,
                 failedWorker, ui, channel, call, approved, overwritten>>

\* The connection ends; the flags of the transfers that are registered are set.
LoseSession ==
  /\ "session" \in Disturbances /\ session /\ ~Terminal
  /\ session' = FALSE
  /\ cancelled' \in {cancelled, cancelled \/ \E w \in Workers : worker[w].pc = "transfer"}
  /\ UNCHANGED <<queue, worker, others, lock, summary, decision, notified, token,
                 failedWorker, ui, channel, call, approved, overwritten>>

Accepts == summary.state = "waiting" /\ decision = NoDecision

ServeCall ==
  /\ call.at = "sent"
  /\ IF Accepts THEN decision' = call.decision /\ notified' = TRUE
     ELSE UNCHANGED <<decision, notified>>
  /\ call' = [call EXCEPT !.at = IF Accepts THEN "accepted" ELSE "refused"]
  /\ UNCHANGED <<queue, worker, others, lock, summary, cancelled, token, session,
                 failedWorker, ui, channel, approved, overwritten>>

OthersTake ==
  /\ FreeSlots > 0 /\ others < MaxOthers
  /\ others' = others + 1
  /\ UNCHANGED <<queue, worker, lock, summary, decision, notified, cancelled, token, session,
                 failedWorker, ui, channel, call, approved, overwritten>>

OthersGive ==
  /\ others > 0
  /\ others' = others - 1
  /\ UNCHANGED <<queue, worker, lock, summary, decision, notified, cancelled, token, session,
                 failedWorker, ui, channel, call, approved, overwritten>>

-----------------------------------------------------------------------------
(* The window.  `latest', `handled' are keys of conflicts; `key' is the one   *)
(* the user is asked about while conflictPending.                           *)

NoCall == [at |-> "none", decision |-> NoDecision]
ClosedUi == [open |-> FALSE, attached |-> FALSE, latest |-> NoFile, handled |-> NoFile,
             key |-> NoFile, asking |-> FALSE, ended |-> FALSE, opened |-> 0]

\* settleConflict, up to the dialog.
Settle(u) ==
  IF u.latest = NoFile \/ u.key # NoFile \/ u.ended \/ u.handled = u.latest THEN u
  ELSE [u EXCEPT !.key = u.latest, !.handled = u.latest, !.asking = TRUE]

\* apply: one summary.
Apply(u, e) ==
  IF u.ended THEN u
  ELSE LET waits == e.state = "waiting"
       IN Settle([u EXCEPT
            !.latest  = IF ~waits THEN NoFile ELSE IF e.conflict = NoFile THEN Unnamed ELSE e.conflict,
            !.handled = IF waits THEN @ ELSE NoFile,
            !.ended   = e.state \in {"completed", "cancelled", "failed"}])

\* A new window reads the summary, asks if it must, and installs its channel after.
\* Assumed: a decision that is there is taken before a new window has started.
OpenWindow ==
  /\ ~ui.open /\ call = NoCall /\ ui.opened < MaxWindows
  /\ decision = NoDecision
  /\ ui' = Apply([ui EXCEPT !.open = TRUE, !.opened = @ + 1], Event(summary))
  /\ UNCHANGED <<queue, worker, others, lock, summary, decision, notified, cancelled, token, session,
                 failedWorker, channel, call, approved, overwritten>>

AttachSilently ==
  /\ ui.open /\ ~ui.attached /\ ui.key = NoFile
  /\ ui' = [ui EXCEPT !.attached = TRUE]
  /\ channel' = <<>>
  /\ UNCHANGED <<queue, worker, others, lock, summary, decision, notified, cancelled, token, session,
                 failedWorker, call, approved, overwritten>>

Attach ==
  /\ ui.open /\ ~ui.attached /\ ui.key = NoFile
  /\ ui' = [ui EXCEPT !.attached = TRUE]
  /\ channel' = <<Event(summary)>>
  /\ UNCHANGED <<queue, worker, others, lock, summary, decision, notified, cancelled, token, session,
                 failedWorker, call, approved, overwritten>>

Receive ==
  /\ channel # <<>>
  /\ ui' = Apply(ui, Head(channel))
  /\ channel' = Tail(channel)
  /\ UNCHANGED <<queue, worker, others, lock, summary, decision, notified, cancelled, token, session,
                 failedWorker, call, approved, overwritten>>

\* finally: the next conflict may have come before the call returned.
ReleaseOnly(u) == [u EXCEPT !.key = NoFile, !.asking = FALSE]

Release(u) ==
  LET free == [u EXCEPT !.key = NoFile, !.asking = FALSE]
  IN IF u.latest # NoFile /\ u.latest # u.key THEN Settle(free) ELSE free

\* The dialog offers to overwrite or to skip; an answer to a conflict that is no
\* longer the latest is dropped.
Answer ==
  /\ ui.asking
  /\ \E d \in {"overwrite", "skip"} :
       /\ approved' = IF d = "overwrite" THEN approved \cup {ui.key} ELSE approved
       /\ IF ~ui.ended /\ ui.latest = ui.key
            THEN /\ call' = [at |-> "sent", decision |-> d]
                 /\ ui' = [ui EXCEPT !.asking = FALSE]
            ELSE ui' = Release(ui) /\ UNCHANGED call
  /\ UNCHANGED <<queue, worker, others, lock, summary, decision, notified, cancelled, token, session,
                 failedWorker, channel, overwritten>>

\* A refused call makes the conflict askable again.
Return ==
  /\ call.at \in {"accepted", "refused"}
  /\ call' = NoCall
  /\ ui' = IF ~ui.open THEN ui
           ELSE Release(IF call.at = "refused" /\ ~ui.ended /\ ui.latest = ui.key
                          THEN [ui EXCEPT !.handled = NoFile] ELSE ui)
  /\ UNCHANGED <<queue, worker, others, lock, summary, decision, notified, cancelled, token, session,
                 failedWorker, channel, approved, overwritten>>

LoseWindow ==
  /\ ui.open /\ ui.opened < MaxWindows /\ ~Terminal
  /\ ui' = [ClosedUi EXCEPT !.opened = ui.opened]
  /\ channel' = <<>>
  /\ UNCHANGED <<queue, worker, others, lock, summary, decision, notified, cancelled, token, session,
                 failedWorker, call, approved, overwritten>>

-----------------------------------------------------------------------------
\* The batch when its first files are downloaded already.
Begun(done) ==
  /\ queue = [i \in 1..Files - done |-> i + done]
  /\ worker = [w \in Workers |-> [pc |-> "slot", file |-> NoFile, over |-> FALSE, result |-> "none"]]
  /\ others \in 0..MaxOthers /\ lock = {}
  /\ summary = [state |-> "running", queued |-> Files - done, active |-> 0, downloaded |-> done,
                skipped |-> 0, failed |-> 0, conflict |-> NoFile]
  /\ decision = NoDecision /\ notified = FALSE /\ cancelled = FALSE /\ token = FALSE
  /\ session = TRUE /\ failedWorker = FALSE
  /\ ui = ClosedUi /\ channel = <<>> /\ call = NoCall
  /\ approved = {} /\ overwritten = {}

Init == Begun(0)

WorkerStep(w) ==
  \/ CheckSlot(w) \/ AcquireSlot(w) \/ Pop(w) \/ Begin(w) \/ TransferEnds(w) \/ Account(w)
  \/ ShowConflict(w) \/ CheckDecision(w) \/ Wake(w) \/ Withdraw(w) \/ StopBatch(w) \/ Join(w)

WindowStep == Attach \/ Receive \/ ServeCall \/ Return

Next ==
  \/ \E w \in Workers : WorkerStep(w) \/ Panic(w)
  \/ End \/ Cancel \/ LoseSession \/ OthersTake \/ OthersGive
  \/ WindowStep \/ OpenWindow \/ Answer \/ LoseWindow

Spec == Init /\ [][Next]_vars

\* Every task runs; the mutex and the semaphore are first come, first served;
\* transfers end.
Runs ==
  /\ \A w \in Workers : WF_vars(WorkerStep(w)) /\ SF_vars(AcquireSlot(w)) /\ SF_vars(ShowConflict(w))
  /\ WF_vars(End)

FairSpec == Spec /\ Runs /\ WF_vars(WindowStep)

-----------------------------------------------------------------------------
WorkerPcs == {"slot", "acquire", "pop", "begin", "transfer", "account", "conflict", "wait",
              "sleep", "decided", "stop", "exit", "panicked"}
Keys == 0..Files + 1
States == {"running", "waiting", "completed", "cancelled", "failed"}

Jobs == [pc : WorkerPcs, file : 0..Files, over : BOOLEAN,
         result : {"none", "downloaded", "failed", "cancelled", "skipped"} \cup Decisions]
Summaries == [state : States, queued : 0..Files, active : 0..Files, downloaded : 0..Files,
              skipped : 0..Files, failed : 0..Files, conflict : 0..Files]
Events == [state : States, conflict : 0..Files]
Uis == [open : BOOLEAN, attached : BOOLEAN, latest : Keys, handled : Keys, key : Keys,
        asking : BOOLEAN, ended : BOOLEAN, opened : 0..MaxWindows]
Calls == [at : {"none", "sent", "accepted", "refused"}, decision : Decisions \cup {NoDecision}]

TypeOK ==
  /\ queue \in Seq(1..Files) /\ Len(queue) <= Files
  /\ worker \in [Workers -> Jobs]
  /\ others \in 0..MaxOthers /\ FreeSlots \in 0..Slots
  /\ lock \subseteq Workers
  /\ summary \in Summaries
  /\ decision \in Decisions \cup {NoDecision}
  /\ notified \in BOOLEAN /\ cancelled \in BOOLEAN /\ token \in BOOLEAN
  /\ session \in BOOLEAN /\ failedWorker \in BOOLEAN
  /\ ui \in Uis
  /\ channel \in Seq(Events)
  /\ call \in Calls
  /\ approved \subseteq Keys /\ overwritten \subseteq 1..Files

InHand == {w \in Workers : worker[w].pc \in {"transfer", "account", "conflict", "wait",
                                            "sleep", "decided", "stop"}}

\* The counters add up in every state: every file is queued, in hand or accounted
\* for, so that neither saturating subtraction ever saturates.
CountsAgree ==
  (~Terminal /\ ~failedWorker /\ \A w \in Workers : worker[w].pc # "panicked") =>
    /\ summary.active = Cardinality(InHand)
    /\ summary.queued = Len(queue) + Cardinality({w \in Workers : worker[w].pc = "begin"})
    /\ ~cancelled => summary.queued + summary.active + summary.downloaded + summary.skipped
                       + summary.failed = Files

\* A batch that says it is completed has dealt with every file.
CompletedMeansAll ==
  summary.state = "completed" =>
    summary.downloaded + summary.skipped + summary.failed = Files /\ queue = <<>>

Waits(w) == worker[w].pc \in {"wait", "sleep", "decided"}

\* One conflict is shown at a time: a worker that waits for a decision has its own
\* file shown, and a file that is shown has its worker waiting for the decision.
ShownConflictWaits ==
  /\ \A w \in Workers : Waits(w) => lock = {w} /\ summary.conflict = worker[w].file
  /\ (summary.conflict # NoFile /\ \A w \in Workers : worker[w].pc # "panicked")
       => \E w \in Workers : Waits(w)

\* No file is overwritten unless the user agreed to overwrite that file, although
\* a decision does not say which file it is about.
OverwriteApproved == overwritten \subseteq approved

\* What the summary says of the batch is true whatever disturbs it: its counters
\* add up until it ends, a batch that is completed has dealt with every file, and
\* the one conflict that is shown is the one its worker waits for.
SummaryTrue == TypeOK /\ CountsAgree /\ CompletedMeansAll /\ ShownConflictWaits
-----------------------------------------------------------------------------
(***************************************************************************)
(* Theorems, for any workers, files, slots and windows.  The invariant has *)
(* three parts: SummaryInv counts the files, AnswersInv is the protocol of *)
(* conflicts and answers between the workers, the summary, the events on   *)
(* their way and the window, and ApprovedInv says who may overwrite.  A    *)
(* worker that has panicked or a batch that is told to stop leaves the     *)
(* protocol (Live), never the counting.                                    *)
(***************************************************************************)
(* The inductive invariants of the summary and of the answers.              *)

InPhase(P) == {w \in Workers : worker[w].pc \in P}
Count(P) == Cardinality(InPhase(P))

HandPcs == {"transfer", "account", "conflict", "wait", "sleep", "decided", "stop"}
HoldPcs == {"pop", "begin"} \cup HandPcs
Accounted == summary.downloaded + summary.skipped + summary.failed
Joined == IF failedWorker THEN 1 ELSE 0

\* The counters of a batch that runs: a worker that panicked keeps its file among
\* the active ones, and is a failed one once it is joined.
Running ==
  /\ summary.queued = Len(queue) + Count({"begin"})
  /\ summary.active = Count(HandPcs) + Count({"panicked"})
  /\ summary.queued + summary.active + Accounted <= Files + Joined
  /\ ~cancelled => summary.queued + summary.active + Accounted = Files

\* A batch ends when all workers have left, and they leave when there is no more
\* file or when they are told to.
Left ==
  /\ Accounted <= Files
  /\ \A w \in Workers : worker[w].pc = "exit" => cancelled \/ queue = <<>>
  /\ Terminal => \A w \in Workers : worker[w].pc = "exit" \/ (worker[w].pc = "panicked" /\ failedWorker)

\* A worker with a file has a real one, and counts no file as cancelled before the
\* batch is.
Busy(w) == worker[w].pc \notin {"slot", "acquire", "pop", "exit"}
Work ==
  \A w \in Workers :
    /\ Busy(w) => worker[w].file # NoFile
    /\ worker[w].pc = "account" => cancelled \/ worker[w].result \in {"downloaded", "skipped", "failed"}

CountInv ==
  /\ token => cancelled
  /\ failedWorker => cancelled /\ summary.failed >= 1
  /\ Count({"panicked"}) \in Joined..1
  /\ ~Terminal => Running
  /\ Work
  /\ Left
  /\ CompletedMeansAll

-----------------------------------------------------------------------------
(* What one worker's step does to the others and to the counts.             *)

Moves(w, r) ==
  /\ r \in Jobs /\ worker' \in [Workers -> Jobs]
  /\ worker'[w] = r /\ \A v \in Workers \ {w} : worker'[v] = worker[v]

LEMMA JobType ==
  ASSUME TypeOK, NEW w \in Workers
  PROVE  worker[w] \in Jobs /\ worker[w].pc \in WorkerPcs /\ worker[w].file \in 0..Files
         /\ worker[w].over \in BOOLEAN
BY DEF TypeOK, Jobs

LEMMA JobMoves ==
  ASSUME TypeOK, NEW w \in Workers, NEW r \in Jobs, worker' = [worker EXCEPT ![w] = r]
  PROVE  Moves(w, r)
BY DEF TypeOK, Moves

LEMMA GoMoves ==
  ASSUME TypeOK, NEW w \in Workers, NEW pc \in WorkerPcs, Go(w, pc)
  PROVE  Moves(w, [pc |-> pc, file |-> worker[w].file, over |-> worker[w].over,
                   result |-> worker[w].result])
<1> DEFINE r == [pc |-> pc, file |-> worker[w].file, over |-> worker[w].over,
                 result |-> worker[w].result]
<1>1. worker[w] \in Jobs
  BY JobType
<1>2. r \in Jobs /\ [worker[w] EXCEPT !.pc = pc] = r
  BY <1>1 DEF Jobs
<1>3. worker' = [worker EXCEPT ![w] = r]
  BY <1>2 DEF Go
<1> QED
  BY <1>2, <1>3, JobMoves

\* A worker that has a result, of the transfer or of its conflict.
Results == {"none", "downloaded", "failed", "cancelled", "skipped"} \cup Decisions
Reports(w, pc, d) == worker' = [worker EXCEPT ![w].pc = pc, ![w].result = d]

LEMMA ResultMoves ==
  ASSUME TypeOK, NEW w \in Workers, NEW pc \in WorkerPcs, NEW d \in Results, Reports(w, pc, d)
  PROVE  Moves(w, [pc |-> pc, file |-> worker[w].file, over |-> worker[w].over, result |-> d])
<1> DEFINE r == [pc |-> pc, file |-> worker[w].file, over |-> worker[w].over, result |-> d]
<1>1. worker[w] \in Jobs /\ worker \in [Workers -> Jobs]
  BY JobType DEF TypeOK
<1>2. r \in Jobs /\ [[worker[w] EXCEPT !.pc = pc] EXCEPT !.result = d] = r
  <2> DEFINE q == [pc |-> pc, file |-> worker[w].file, over |-> worker[w].over,
                   result |-> worker[w].result]
  <2>1. [worker[w] EXCEPT !.pc = pc] = q /\ q \in Jobs
    BY <1>1 DEF Jobs
  <2>2. [q EXCEPT !.result = d] = r
    OBVIOUS
  <2>3. r \in Jobs
    BY <1>1 DEF Jobs, Results
  <2> QED
    BY <2>1, <2>2, <2>3
<1>3. worker'[w] = [[worker[w] EXCEPT !.pc = pc] EXCEPT !.result = d]
  BY <1>1 DEF Reports
<1>4. worker'[w] = r /\ \A v \in Workers \ {w} : worker'[v] = worker[v]
  BY <1>1, <1>2, <1>3 DEF Reports
<1>5. DOMAIN worker' = Workers /\ worker' = [v \in Workers |-> worker'[v]]
  BY <1>1 DEF Reports
<1> HIDE DEF r
<1>6. worker' \in [Workers -> Jobs]
  BY <1>1, <1>2, <1>4, <1>5
<1> QED
  BY <1>2, <1>4, <1>6 DEF Moves, r

LEMMA CountType ==
  ASSUME NEW P
  PROVE  IsFiniteSet(InPhase(P)) /\ Count(P) \in Nat
<1>1. InPhase(P) \in SUBSET Workers
  BY DEF InPhase
<1> QED
  BY <1>1, WorkersAssumption, FS_Subset, FS_CardinalityType DEF Count

LEMMA CountMoves ==
  ASSUME NEW w \in Workers, NEW r, Moves(w, r), NEW P
  PROVE  /\ Count(P) \in Nat /\ Count(P)' \in Nat
         /\ worker[w].pc \in P => Count(P) >= 1
         /\ worker[w].pc \in P /\ r.pc \in P => Count(P)' = Count(P)
         /\ worker[w].pc \notin P /\ r.pc \notin P => Count(P)' = Count(P)
         /\ worker[w].pc \in P /\ r.pc \notin P => Count(P)' = Count(P) - 1
         /\ worker[w].pc \notin P /\ r.pc \in P => Count(P)' = Count(P) + 1
<1> DEFINE S == InPhase(P)
           T == {v \in Workers : worker'[v].pc \in P}
<1>1. S \ {w} = T \ {w}
  BY DEF Moves, InPhase
<1>2. (w \in S <=> worker[w].pc \in P) /\ (w \in T <=> r.pc \in P)
  BY DEF Moves, InPhase
<1>3. IsFiniteSet(S) /\ Cardinality(S) \in Nat
  BY CountType DEF Count
<1>4. T \in SUBSET Workers
  OBVIOUS
<1>5. IsFiniteSet(T)
  BY <1>4, WorkersAssumption, FS_Subset
<1>6. Cardinality(T) \in Nat
  BY <1>5, FS_CardinalityType
<1>7. Cardinality(S \ {w}) = IF w \in S THEN Cardinality(S) - 1 ELSE Cardinality(S)
  BY <1>3, FS_RemoveElement
<1>8. Cardinality(T \ {w}) = IF w \in T THEN Cardinality(T) - 1 ELSE Cardinality(T)
  BY <1>5, FS_RemoveElement
<1>9. IsFiniteSet(S \ {w}) /\ Cardinality(S \ {w}) = Cardinality(T \ {w})
  BY <1>1, <1>3, FS_RemoveElement
<1>10. Cardinality(S \ {w}) \in Nat
  BY <1>9, FS_CardinalityType
<1>11. Count(P) = Cardinality(S) /\ Count(P)' = Cardinality(T)
  BY DEF Count, InPhase
<1> HIDE DEF S, T
<1>12. worker[w].pc \in P => Cardinality(S) = Cardinality(S \ {w}) + 1
  BY <1>2, <1>3, <1>7, <1>10
<1>13. worker[w].pc \notin P => Cardinality(S) = Cardinality(S \ {w})
  BY <1>2, <1>7
<1>14. r.pc \in P => Cardinality(T) = Cardinality(S \ {w}) + 1
  BY <1>2, <1>6, <1>8, <1>9, <1>10
<1>15. r.pc \notin P => Cardinality(T) = Cardinality(S \ {w})
  BY <1>2, <1>8, <1>9
<1> QED
  BY <1>3, <1>6, <1>10, <1>11, <1>12, <1>13, <1>14, <1>15

\* A count without a worker in its phase, and one with a worker.
LEMMA CountNone ==
  ASSUME NEW P, \A w \in Workers : worker[w].pc \notin P
  PROVE  Count(P) = 0
<1>1. InPhase(P) = {}
  BY DEF InPhase
<1> QED
  BY <1>1, FS_EmptySet DEF Count

LEMMA CountSome ==
  ASSUME NEW P, NEW w \in Workers, worker[w].pc \in P
  PROVE  Count(P) >= 1
<1>1. InPhase(P) # {}
  BY DEF InPhase
<1>2. Count(P) # 0
  BY <1>1, CountType, FS_EmptySet DEF Count
<1> QED
  BY <1>2, CountType

\* The sets that the counters and the slots are about.
LEMMA CountsMove ==
  ASSUME TypeOK, NEW w \in Workers, NEW r, Moves(w, r)
  PROVE  LET in(pc, P) == IF pc \in P THEN 1 ELSE 0
             Moved(P) == /\ Count(P) \in Nat /\ Count(P)' \in Nat
                         /\ Count(P)' = Count(P) + in(r.pc, P) - in(worker[w].pc, P)
                         /\ Count(P) >= in(worker[w].pc, P)
         IN Moved({"begin"}) /\ Moved(HandPcs) /\ Moved(HoldPcs) /\ Moved({"panicked"})
<1> DEFINE in(pc, P) == IF pc \in P THEN 1 ELSE 0
           Moved(P) == /\ Count(P) \in Nat /\ Count(P)' \in Nat
                       /\ Count(P)' = Count(P) + in(r.pc, P) - in(worker[w].pc, P)
                       /\ Count(P) >= in(worker[w].pc, P)
<1>1. ASSUME NEW P PROVE Moved(P)
  BY CountMoves
<1> HIDE DEF Moved
<1>2. Moved({"begin"}) /\ Moved(HandPcs) /\ Moved(HoldPcs) /\ Moved({"panicked"})
  BY <1>1
<1> QED
  BY <1>2 DEF Moved

\* The slots that are free.
LEMMA SlotsFree ==
  ASSUME TypeOK
  PROVE  FreeSlots = Slots - others - Count(HoldPcs)
<1>1. {w \in Workers : Holds(w)} = InPhase(HoldPcs)
  BY JobType DEF InPhase, Holds, HoldPcs, HandPcs, WorkerPcs
<1> QED
  BY <1>1 DEF FreeSlots, Count

LEMMA SlotsFreeNext ==
  ASSUME worker' \in [Workers -> Jobs]
  PROVE  FreeSlots' = Slots - others' - Count(HoldPcs)'
<1>1. {w \in Workers : Holds(w)'} = {w \in Workers : worker'[w].pc \in HoldPcs}
  <2>1. \A w \in Workers : worker'[w].pc \in WorkerPcs
    BY DEF Jobs
  <2> QED
    BY <2>1 DEF Holds, HoldPcs, HandPcs, WorkerPcs
<1> QED
  BY <1>1 DEF FreeSlots, Count, InPhase, Holds

-----------------------------------------------------------------------------
(* The steps, and the summary they leave.                                    *)

SummaryInv == TypeOK /\ CountInv

LEMMA GoStep ==
  ASSUME TypeOK, NEW w \in Workers, NEW pc \in WorkerPcs, Go(w, pc)
  PROVE  \E r \in Jobs : /\ Moves(w, r) /\ r.pc = pc /\ r.file = worker[w].file
                         /\ r.over = worker[w].over /\ r.result = worker[w].result
BY GoMoves DEF Moves

LEMMA ResultStep ==
  ASSUME TypeOK, NEW w \in Workers, NEW pc \in WorkerPcs, NEW d \in Results, Reports(w, pc, d)
  PROVE  \E r \in Jobs : /\ Moves(w, r) /\ r.pc = pc /\ r.file = worker[w].file
                         /\ r.over = worker[w].over /\ r.result = d
BY ResultMoves DEF Moves

LEMMA FinishStep ==
  ASSUME TypeOK, NEW w \in Workers, NEW d \in Results, Finish(w, d)
  PROVE  \E r \in Jobs : /\ Moves(w, r) /\ r.pc = "account" /\ r.file = worker[w].file
                         /\ r.over = worker[w].over /\ r.result = d
<1>1. Reports(w, "account", d) /\ "account" \in WorkerPcs
  BY DEF Finish, Reports, WorkerPcs
<1> QED
  BY <1>1, ResultStep

LEMMA DecideStep ==
  ASSUME TypeOK, NEW w \in Workers, NEW d \in Results, Decide(w, d)
  PROVE  \E r \in Jobs : /\ Moves(w, r) /\ r.pc = "decided" /\ r.file = worker[w].file
                         /\ r.over = worker[w].over /\ r.result = d
<1>1. Reports(w, "decided", d) /\ "decided" \in WorkerPcs
  BY DEF Decide, Reports, WorkerPcs
<1> QED
  BY <1>1, ResultStep

LEMMA SendType ==
  ASSUME TypeOK, NEW s \in Summaries, Send(s)
  PROVE  channel' \in Seq(Events)
<1>1. Event(s) \in Events
  BY DEF Event, Events, Summaries
<1>2. channel \in Seq(Events)
  BY DEF TypeOK
<1>3. Append(channel, Event(s)) \in Seq(Events)
  BY <1>1, <1>2, AppendProperties
<1> QED
  BY <1>2, <1>3 DEF Send

\* The counters of the summary, which most steps leave.
SameCounters ==
  /\ summary'.queued = summary.queued /\ summary'.active = summary.active
  /\ summary'.downloaded = summary.downloaded /\ summary'.skipped = summary.skipped
  /\ summary'.failed = summary.failed

\* A worker that takes a step runs, and so does its batch.
LEMMA RunsStill ==
  ASSUME TypeOK, CountInv, NEW w \in Workers, worker[w].pc \notin {"exit", "panicked"}
  PROVE  ~Terminal /\ Running
<1>1. Left /\ (~Terminal => Running)
  BY DEF CountInv
<1> QED
  BY <1>1 DEF Left

\* The same with every quantity a number.
Numbers ==
  /\ Files \in Nat /\ Len(queue) \in Nat /\ Joined \in {0, 1} /\ Accounted \in Nat
  /\ summary.queued \in Nat /\ summary.active \in Nat /\ summary.downloaded \in Nat
  /\ summary.skipped \in Nat /\ summary.failed \in Nat
  /\ Count({"begin"}) \in Nat /\ Count(HandPcs) \in Nat /\ Count({"panicked"}) \in Nat
  /\ summary.queued = Len(queue) + Count({"begin"})
  /\ summary.active = Count(HandPcs) + Count({"panicked"})
  /\ Joined <= Count({"panicked"}) /\ Joined <= summary.failed
  /\ Joined <= Accounted
  /\ summary.queued + summary.active + Accounted <= Files + Joined
  /\ ~cancelled => summary.queued + summary.active + Accounted = Files

LEMMA RunningNumbers ==
  ASSUME TypeOK, CountInv, NEW w \in Workers, worker[w].pc \notin {"exit", "panicked"}
  PROVE  Numbers
<1>1. summary \in Summaries /\ queue \in Seq(1..Files) /\ failedWorker \in BOOLEAN
  BY DEF TypeOK
<1>2. Files \in Nat /\ Len(queue) \in Nat
  BY <1>1, LenProperties, FilesAssumption
<1>3. /\ summary.queued \in Nat /\ summary.active \in Nat /\ summary.downloaded \in Nat
      /\ summary.skipped \in Nat /\ summary.failed \in Nat
  BY <1>1, <1>2 DEF Summaries
<1>4. Accounted \in Nat
  BY <1>3 DEF Accounted
<1>5. Count({"begin"}) \in Nat /\ Count(HandPcs) \in Nat /\ Count({"panicked"}) \in Nat
  BY CountType
<1>6. Joined \in {0, 1} /\ Joined <= Count({"panicked"}) /\ Joined <= summary.failed
  <2>1. Count({"panicked"}) \in Joined..1 /\ (failedWorker => summary.failed >= 1)
    BY DEF CountInv
  <2> QED
    BY <1>1, <1>3, <1>5, <2>1 DEF Joined
<1>7. Running
  BY RunsStill
<1>8. Joined <= Accounted
  BY <1>3, <1>6 DEF Accounted
<1> QED
  BY <1>2, <1>3, <1>4, <1>5, <1>6, <1>7, <1>8 DEF Running, Numbers

LEMMA WorkMoves ==
  ASSUME TypeOK, CountInv, NEW w \in Workers, NEW r \in Jobs, Moves(w, r), cancelled => cancelled',
         r.pc \notin {"slot", "acquire", "pop", "exit"} => r.file # NoFile,
         r.pc = "account" => cancelled' \/ r.result \in {"downloaded", "skipped", "failed"}
  PROVE  Work'
<1>1. Work
  BY DEF CountInv
<1> QED
  BY <1>1 DEF Work, Busy, Moves

LEMMA FileInHand ==
  ASSUME TypeOK, CountInv, NEW w \in Workers, Busy(w)
  PROVE  worker[w].file \in 1..Files
<1>1. Work /\ worker[w].file \in 0..Files
  BY JobType DEF CountInv
<1> QED
  BY <1>1, FilesAssumption DEF Work, NoFile

\* A step that counts nothing: a worker that goes on with the file it has, or
\* without one, whatever is shown meanwhile.
LEMMA QuietCount ==
  ASSUME TypeOK, CountInv, NEW w \in Workers, NEW r \in Jobs, Moves(w, r),
         worker[w].pc \notin {"exit", "panicked", "begin"}, r.pc \notin {"panicked", "begin"},
         worker[w].pc \in HandPcs <=> r.pc \in HandPcs,
         r.pc = "exit" => cancelled' \/ queue = <<>>,
         UNCHANGED <<queue, failedWorker>>, SameCounters,
         summary'.state \in {"running", "waiting"},
         cancelled => cancelled', token' => cancelled',
         r.pc \in HandPcs => r.file = worker[w].file,
         r.pc = "account" => cancelled' \/ r.result \in {"downloaded", "skipped", "failed"}
  PROVE  CountInv'
<1>1. ~Terminal /\ Running
  BY RunsStill
<1>2. ~Terminal'
  BY DEF Terminal
<1>3. /\ Count({"begin"})' = Count({"begin"}) /\ Count(HandPcs)' = Count(HandPcs)
      /\ Count({"panicked"})' = Count({"panicked"})
  BY CountMoves
<1>4. Running'
  BY <1>1, <1>3 DEF Running, SameCounters, Accounted, Joined
<1>5. \A v \in Workers : worker'[v].pc = "exit" => cancelled' \/ queue' = <<>>
  BY DEF Moves, CountInv, Left
<1>6. Left'
  BY <1>2, <1>5 DEF CountInv, Left, SameCounters, Accounted
<1>7. CompletedMeansAll'
  BY DEF CompletedMeansAll
<1>8. Work'
  <2>1. r.pc \notin {"slot", "acquire", "pop", "exit"} => r.file # NoFile
    <3>1. r.pc \in WorkerPcs
      BY DEF Jobs
    <3>2. CASE r.pc \in HandPcs
      BY <3>2, FileInHand, FilesAssumption DEF HandPcs, Busy, NoFile
    <3>3. CASE r.pc \notin HandPcs
      BY <3>1, <3>3 DEF WorkerPcs, HandPcs
    <3> QED
      BY <3>2, <3>3
  <2> QED
    BY <2>1, WorkMoves
<1> QED
  BY <1>3, <1>4, <1>6, <1>7, <1>8 DEF CountInv, SameCounters, Joined

\* A step of the program around the workers.
LEMMA QuietAround ==
  ASSUME TypeOK, CountInv, UNCHANGED <<queue, worker, summary, failedWorker>>,
         cancelled => cancelled', token' => cancelled'
  PROVE  CountInv'
<1>1. \A P : Count(P)' = Count(P)
  BY DEF Count, InPhase
<1>2. Terminal' = Terminal
  BY DEF Terminal
<1>3. Running => Running'
  BY <1>1 DEF Running, Accounted, Joined
<1>4. Left' /\ Work'
  BY <1>2 DEF CountInv, Left, Accounted, Work, Busy
<1> QED
  BY <1>1, <1>2, <1>3, <1>4 DEF CountInv, CompletedMeansAll, Accounted, Joined

-----------------------------------------------------------------------------
(* The summary, action by action.                                            *)

LEMMA SlotsKept ==
  ASSUME TypeOK, NEW w \in Workers, NEW r \in Jobs, Moves(w, r), UNCHANGED others,
         r.pc \in HoldPcs => worker[w].pc \in HoldPcs
  PROVE  FreeSlots' \in 0..Slots
<1>1. FreeSlots = Slots - others - Count(HoldPcs) /\ FreeSlots \in 0..Slots /\ others \in 0..MaxOthers
  BY SlotsFree DEF TypeOK
<1>2. FreeSlots' = Slots - others' - Count(HoldPcs)'
  BY SlotsFreeNext DEF Moves
<1>3. Count(HoldPcs) \in Nat /\ Count(HoldPcs)' \in Nat /\ Count(HoldPcs)' <= Count(HoldPcs)
  BY CountMoves
<1>4. MaxOthers \in 0..Slots /\ Slots \in Nat
  BY FilesAssumption
<1> QED
  BY <1>1, <1>2, <1>3, <1>4

LEMMA CheckSlotSummary ==
  ASSUME SummaryInv, NEW w \in Workers, CheckSlot(w)
  PROVE  SummaryInv'
<1> USE DEF SummaryInv
<1>1. PICK r \in Jobs : Moves(w, r) /\ r.pc = IF cancelled THEN "exit" ELSE "acquire"
  BY GoStep DEF CheckSlot, WorkerPcs
<1>2. FreeSlots' \in 0..Slots
  BY <1>1, SlotsKept DEF CheckSlot, HoldPcs, HandPcs
<1>3. TypeOK'
  BY <1>1, <1>2 DEF TypeOK, CheckSlot, Moves
<1>4. ~Terminal
  BY RunsStill DEF CheckSlot
<1>5. CountInv'
  BY <1>1, <1>4, QuietCount DEF CheckSlot, HandPcs, SameCounters, TypeOK, Summaries, Terminal, States, CountInv
<1> QED
  BY <1>3, <1>5

LEMMA AcquireSlotSummary ==
  ASSUME SummaryInv, NEW w \in Workers, AcquireSlot(w)
  PROVE  SummaryInv'
<1> USE DEF SummaryInv
<1>1. PICK r \in Jobs : /\ Moves(w, r) /\ r.pc \in {"exit", "pop"}
                        /\ r.pc = "exit" => cancelled
                        /\ r.pc = "pop" => FreeSlots > 0
  <2>1. CASE token /\ Go(w, "exit")
    BY <2>1, GoStep DEF WorkerPcs, CountInv
  <2>2. CASE FreeSlots > 0 /\ Go(w, IF cancelled THEN "exit" ELSE "pop")
    BY <2>2, GoStep DEF WorkerPcs
  <2> QED
    BY <2>1, <2>2 DEF AcquireSlot
<1>2. FreeSlots' \in 0..Slots
  <2>1. CASE r.pc = "exit"
    BY <1>1, <2>1, SlotsKept DEF AcquireSlot, HoldPcs, HandPcs
  <2>2. CASE r.pc = "pop"
    <3>1. FreeSlots = Slots - others - Count(HoldPcs) /\ FreeSlots \in 0..Slots
      BY SlotsFree DEF TypeOK
    <3>2. FreeSlots' = Slots - others' - Count(HoldPcs)'
      BY <1>1, SlotsFreeNext DEF Moves
    <3>3. Count(HoldPcs) \in Nat /\ Count(HoldPcs)' = Count(HoldPcs) + 1
      BY <1>1, <2>2, CountMoves DEF AcquireSlot, HoldPcs, HandPcs
    <3> QED
      BY <1>1, <2>2, <3>1, <3>2, <3>3, FilesAssumption DEF AcquireSlot, TypeOK
  <2> QED
    BY <1>1, <2>1, <2>2
<1>3. TypeOK'
  BY <1>1, <1>2 DEF TypeOK, AcquireSlot, Moves
<1>4. ~Terminal
  BY RunsStill DEF AcquireSlot
<1>5. CountInv'
  BY <1>1, <1>4, QuietCount DEF AcquireSlot, HandPcs, SameCounters, TypeOK, Summaries, Terminal, States, CountInv
<1> QED
  BY <1>3, <1>5

LEMMA PopSummary ==
  ASSUME SummaryInv, NEW w \in Workers, Pop(w)
  PROVE  SummaryInv'
<1> USE DEF SummaryInv
<1>1. CASE queue = <<>>
  <2>1. PICK r \in Jobs : Moves(w, r) /\ r.pc = "exit"
    BY <1>1, GoStep DEF Pop, WorkerPcs
  <2>2. FreeSlots' \in 0..Slots
    BY <2>1, SlotsKept DEF Pop, HoldPcs, HandPcs
  <2>3. TypeOK'
    BY <1>1, <2>1, <2>2 DEF TypeOK, Pop, Moves
  <2>4. ~Terminal
    BY RunsStill DEF Pop
  <2>5. CountInv'
    BY <1>1, <2>1, <2>4, QuietCount DEF Pop, HandPcs, SameCounters, TypeOK, Summaries, Terminal, States, CountInv
  <2> QED
    BY <2>3, <2>5
<1>2. CASE queue # <<>>
  <2> DEFINE r == [pc |-> "begin", file |-> Head(queue), over |-> FALSE, result |-> "none"]
  <2>1. /\ Head(queue) \in 1..Files /\ Tail(queue) \in Seq(1..Files)
        /\ Len(queue) \in Nat /\ Len(Tail(queue)) = Len(queue) - 1
    BY <1>2, HeadTailProperties, LenProperties DEF TypeOK
  <2>2. r \in Jobs
    BY <2>1, FilesAssumption DEF Jobs, WorkerPcs
  <2>3. Moves(w, r) /\ queue' = Tail(queue)
    BY <1>2, <2>2, JobMoves DEF Pop
  <2>4. FreeSlots' \in 0..Slots
    BY <2>2, <2>3, SlotsKept DEF Pop, HoldPcs, HandPcs
  <2>5. Len(queue') = Len(queue) - 1 /\ queue' \in Seq(1..Files) /\ Len(queue') <= Files
    BY <2>1, <2>3, FilesAssumption DEF TypeOK
  <2>6. TypeOK'
    BY <2>3, <2>4, <2>5 DEF TypeOK, Pop, Moves
  <2>7. ~Terminal /\ Running
    BY RunsStill DEF Pop
  <2>8. ~Terminal' /\ ~cancelled' = ~cancelled
    BY <2>7 DEF Terminal, Pop
  <2>9. /\ Count({"begin"})' = Count({"begin"}) + 1 /\ Count(HandPcs)' = Count(HandPcs)
        /\ Count({"panicked"})' = Count({"panicked"}) /\ Count({"begin"}) \in Nat
    BY <2>3, CountMoves DEF Pop, HandPcs
  <2>10. Running'
    BY <2>1, <2>5, <2>7, <2>9 DEF Running, Accounted, Joined, Pop
  <2>11. Left'
    BY <1>2, <2>3, <2>8 DEF CountInv, Left, Accounted, Pop, Moves
  <2>12. CompletedMeansAll'
    BY <2>8 DEF CompletedMeansAll, Terminal
  <2>13. Work'
    <3>1. r.file # NoFile /\ r.pc = "begin"
      BY <2>1, FilesAssumption DEF NoFile
    <3> HIDE DEF r
    <3> QED
      BY <2>2, <2>3, <3>1, WorkMoves DEF Pop
  <2> QED
    BY <2>6, <2>9, <2>10, <2>11, <2>12, <2>13 DEF CountInv, Joined, Pop
<1> QED
  BY <1>1, <1>2

LEMMA BeginSummary ==
  ASSUME SummaryInv, NEW w \in Workers, Begin(w)
  PROVE  SummaryInv'
<1> USE DEF SummaryInv
<1> DEFINE s == [summary EXCEPT !.queued = @ - 1, !.active = @ + 1]
<1>1. PICK r \in Jobs : /\ Moves(w, r) /\ r.pc \in {"account", "transfer"}
                        /\ r.file = worker[w].file /\ (r.pc = "account" => cancelled)
  <2>1. CASE cancelled
    BY <2>1, FinishStep DEF Begin, Results
  <2>2. CASE ~cancelled
    BY <2>2, GoStep DEF Begin, WorkerPcs
  <2> QED
    BY <2>1, <2>2
<1>2. FreeSlots' \in 0..Slots
  BY <1>1, SlotsKept DEF Begin, HoldPcs, HandPcs
<1>3. ~Terminal
  BY RunsStill DEF Begin
<1>4. /\ Count({"begin"})' = Count({"begin"}) - 1 /\ Count(HandPcs)' = Count(HandPcs) + 1
      /\ Count({"panicked"})' = Count({"panicked"}) /\ Count({"begin"}) >= 1
  BY <1>1, CountMoves DEF Begin, HandPcs
<1> Numbers
  BY RunningNumbers DEF Begin
<1>5. summary.queued - 1 \in 0..Files /\ summary.active + 1 \in 0..Files
  <2> DEFINE q == summary.queued
             a == summary.active
             x == Accounted
             j == Joined
  <2>1. q \in Nat /\ a \in Nat /\ x \in Nat /\ j \in Nat /\ Files \in Nat /\ j <= x
    BY DEF Numbers
  <2>2. q + a + x <= Files + j
    BY DEF Numbers
  <2>3. q >= 1
    <3>1. /\ q = Len(queue) + Count({"begin"}) /\ Len(queue) \in Nat /\ Count({"begin"}) \in Nat
          /\ Count({"begin"}) >= 1
      BY <1>4 DEF Numbers
    <3> HIDE DEF q
    <3> QED
      BY <3>1
  <2> HIDE DEF q, a, x, j
  <2>4. q + a <= Files
    BY <2>1, <2>2
  <2>5. q - 1 \in 0..Files /\ a + 1 \in 0..Files
    BY <2>1, <2>3, <2>4
  <2> QED
    BY <2>5 DEF q, a
<1>6. /\ s \in Summaries /\ s.queued = summary.queued - 1 /\ s.active = summary.active + 1
      /\ s.state = summary.state /\ s.downloaded = summary.downloaded
      /\ s.skipped = summary.skipped /\ s.failed = summary.failed
  BY <1>5 DEF TypeOK, Summaries
<1>7. summary' = s /\ Send(s)
  BY DEF Begin, Update
<1> HIDE DEF s
<1>8. channel' \in Seq(Events)
  BY <1>6, <1>7, SendType
<1>9. TypeOK'
  BY <1>1, <1>2, <1>6, <1>7, <1>8 DEF TypeOK, Begin, Moves
<1>10. ~Terminal'
  BY <1>3, <1>6, <1>7 DEF Terminal
<1>11. Accounted' = Accounted /\ Joined' = Joined
  BY <1>6, <1>7 DEF Accounted, Joined, Begin
<1>12. /\ summary'.queued = summary.queued - 1 /\ summary'.active = summary.active + 1
       /\ UNCHANGED <<cancelled, queue>>
  BY <1>6, <1>7 DEF Begin
<1>13. Running'
  <2>1. summary'.queued = Len(queue') + Count({"begin"})'
    BY <1>4, <1>12 DEF Numbers
  <2>2. summary'.active = Count(HandPcs)' + Count({"panicked"})'
    BY <1>4, <1>12 DEF Numbers
  <2>3. summary'.queued + summary'.active = summary.queued + summary.active
    BY <1>12 DEF Numbers
  <2> QED
    BY <1>11, <1>12, <2>1, <2>2, <2>3 DEF Running, Numbers
<1>14. Work'
  BY <1>1, WorkMoves, FileInHand, FilesAssumption DEF Begin, Busy, NoFile
<1>15. Left'
  BY <1>1, <1>10, <1>11, <1>12 DEF CountInv, Left, Moves
<1>16. CompletedMeansAll'
  BY <1>10 DEF CompletedMeansAll, Terminal
<1> QED
  BY <1>4, <1>6, <1>7, <1>9, <1>11, <1>13, <1>14, <1>15, <1>16 DEF CountInv, Begin

LEMMA TransferEndsSummary ==
  ASSUME SummaryInv, NEW w \in Workers, TransferEnds(w)
  PROVE  SummaryInv'
<1> USE DEF SummaryInv
<1>1. PICK r \in Jobs : /\ Moves(w, r) /\ r.pc \in {"account", "conflict"} /\ r.file = worker[w].file
                        /\ r.pc = "account" => cancelled \/ r.result \in {"downloaded", "failed"}
  <2>1. CASE Transferred(w)
    BY <2>1, FinishStep DEF Transferred, Results
  <2>2. CASE Conflicted(w)
    <3>1. CASE cancelled
      BY <2>2, <3>1, FinishStep DEF Conflicted, Results
    <3>2. CASE ~cancelled
      BY <2>2, <3>2, GoStep DEF Conflicted, WorkerPcs
    <3> QED
      BY <3>1, <3>2
  <2>3. CASE TransferFailed(w)
    BY <2>3, FinishStep DEF TransferFailed, Results
  <2>4. CASE TransferCancelled(w)
    BY <2>4, FinishStep DEF TransferCancelled, Results
  <2> QED
    BY <2>1, <2>2, <2>3, <2>4 DEF TransferEnds
<1>2. FreeSlots' \in 0..Slots
  BY <1>1, SlotsKept DEF TransferEnds, HoldPcs, HandPcs
<1>3. ~Terminal /\ worker[w].file \in 1..Files
  BY RunsStill, FileInHand DEF TransferEnds, Busy
<1>4. /\ token' \in BOOLEAN /\ notified' \in BOOLEAN /\ (token' => token \/ cancelled)
      /\ overwritten' \subseteq overwritten \cup {worker[w].file}
  <2>1. token \in BOOLEAN /\ notified \in BOOLEAN
    BY DEF TypeOK
  <2>2. CASE Transferred(w)
    BY <2>1, <2>2 DEF Transferred
  <2>3. CASE Conflicted(w)
    BY <2>1, <2>3 DEF Conflicted
  <2>4. CASE TransferFailed(w)
    BY <2>1, <2>4 DEF TransferFailed
  <2>5. CASE TransferCancelled(w)
    BY <2>1, <2>5 DEF TransferCancelled
  <2> QED
    BY <2>2, <2>3, <2>4, <2>5 DEF TransferEnds
<1>5. TypeOK'
  BY <1>1, <1>2, <1>3, <1>4 DEF TypeOK, TransferEnds, Moves
<1>6. CountInv'
  BY <1>1, <1>3, <1>4, QuietCount DEF TransferEnds, HandPcs, SameCounters, TypeOK, Summaries, Terminal, States, CountInv
<1> QED
  BY <1>5, <1>6

\* The outcome of a file is counted once.
Outcome(q, a) ==
  CASE q = "downloaded" -> [a EXCEPT !.downloaded = @ + 1]
    [] q = "skipped"    -> [a EXCEPT !.skipped = @ + 1]
    [] q = "failed"     -> [a EXCEPT !.failed = @ + 1]
    [] OTHER            -> a

LEMMA OutcomeCounts ==
  ASSUME NEW q, NEW a \in Summaries, a.downloaded + a.skipped + a.failed < Files
  PROVE  LET s == Outcome(q, a)
         IN /\ s \in Summaries /\ s.active = a.active /\ s.queued = a.queued /\ s.state = a.state
            /\ s.failed >= a.failed
            /\ s.downloaded + s.skipped + s.failed
                 = a.downloaded + a.skipped + a.failed
                   + (IF q \in {"downloaded", "skipped", "failed"} THEN 1 ELSE 0)
<1>1. Files \in Nat
  BY FilesAssumption
<1>2. CASE q = "downloaded"
  <2>1. Outcome(q, a) = [a EXCEPT !.downloaded = @ + 1]
    BY <1>2 DEF Outcome
  <2> QED
    BY <1>1, <1>2, <2>1 DEF Summaries
<1>3. CASE q = "skipped"
  <2>1. Outcome(q, a) = [a EXCEPT !.skipped = @ + 1]
    BY <1>3 DEF Outcome
  <2> QED
    BY <1>1, <1>3, <2>1 DEF Summaries
<1>4. CASE q = "failed"
  <2>1. Outcome(q, a) = [a EXCEPT !.failed = @ + 1]
    BY <1>4 DEF Outcome
  <2> QED
    BY <1>1, <1>4, <2>1 DEF Summaries
<1>5. CASE q \notin {"downloaded", "skipped", "failed"}
  <2>1. Outcome(q, a) = a
    BY <1>5 DEF Outcome
  <2> QED
    BY <1>1, <1>5, <2>1 DEF Summaries
<1> QED
  BY <1>2, <1>3, <1>4, <1>5

LEMMA AccountSummary ==
  ASSUME SummaryInv, NEW w \in Workers, Account(w)
  PROVE  SummaryInv'
<1> USE DEF SummaryInv
<1> DEFINE a == [summary EXCEPT !.active = @ - 1]
           q == worker[w].result
           s == Outcome(q, a)
           one == IF q \in {"downloaded", "skipped", "failed"} THEN 1 ELSE 0
<1>1. PICK r \in Jobs : Moves(w, r) /\ r.pc = "slot"
  BY GoStep DEF Account, WorkerPcs
<1>2. FreeSlots' \in 0..Slots
  BY <1>1, SlotsKept DEF Account, HoldPcs, HandPcs
<1>3. ~Terminal
  BY RunsStill DEF Account
<1>4. /\ Count({"begin"})' = Count({"begin"}) /\ Count(HandPcs)' = Count(HandPcs) - 1
      /\ Count({"panicked"})' = Count({"panicked"}) /\ Count(HandPcs) >= 1
  BY <1>1, CountMoves DEF Account, HandPcs
<1> Numbers
  BY RunningNumbers DEF Account
<1>5. summary.active - 1 \in 0..Files /\ Accounted + 1 <= Files /\ Accounted \in Nat /\ Files \in Nat
  <2> DEFINE u == summary.queued
             n == summary.active
             h == Count(HandPcs)
             p == Count({"panicked"})
             x == Accounted
             j == Joined
  <2>1. /\ u \in Nat /\ n \in Nat /\ h \in Nat /\ p \in Nat /\ x \in Nat /\ j \in Nat
        /\ Files \in Nat /\ j <= x
    BY DEF Numbers
  <2>2. u + n + x <= Files + j /\ n = h + p /\ j <= p /\ h >= 1
    BY <1>4 DEF Numbers
  <2> HIDE DEF u, n, h, p, x, j
  <2>3. n - 1 \in 0..Files /\ x + 1 <= Files
    BY <2>1, <2>2
  <2> QED
    BY <2>1, <2>3 DEF n, x
<1>6. /\ a \in Summaries /\ a.active = summary.active - 1 /\ a.queued = summary.queued
      /\ a.state = summary.state /\ a.downloaded = summary.downloaded
      /\ a.skipped = summary.skipped /\ a.failed = summary.failed
  BY <1>5 DEF TypeOK, Summaries
<1>7. a.downloaded + a.skipped + a.failed = Accounted
  BY <1>6 DEF Accounted
<1>8. summary' = s /\ Send(s)
  BY DEF Account, Update, Outcome
<1> HIDE DEF a, one
<1>9. /\ s \in Summaries /\ s.active = a.active /\ s.queued = a.queued /\ s.state = a.state
      /\ s.failed >= a.failed /\ s.downloaded + s.skipped + s.failed = Accounted + one
  <2>1. a.downloaded + a.skipped + a.failed < Files
    BY <1>5, <1>7
  <2> QED
    BY <1>6, <1>7, <2>1, OutcomeCounts DEF one
<1> HIDE DEF s
<1>10. channel' \in Seq(Events)
  BY <1>8, <1>9, SendType
<1>11. TypeOK'
  BY <1>1, <1>2, <1>8, <1>9, <1>10 DEF TypeOK, Account, Moves
<1>12. one \in {0, 1} /\ (~cancelled => one = 1)
  BY DEF CountInv, Work, Account, one
<1>13. ~Terminal'
  BY <1>3, <1>6, <1>8, <1>9 DEF Terminal
<1>14. Accounted' = Accounted + one /\ Joined' = Joined
  BY <1>8, <1>9 DEF Accounted, Joined, Account
<1>15. /\ summary'.queued = summary.queued /\ summary'.active = summary.active - 1
       /\ summary'.failed >= summary.failed /\ UNCHANGED <<cancelled, queue>>
  BY <1>6, <1>8, <1>9 DEF Account
<1>16. Running'
  <2>1. summary'.queued = Len(queue') + Count({"begin"})'
    BY <1>4, <1>15 DEF Numbers
  <2>2. summary'.active = Count(HandPcs)' + Count({"panicked"})'
    <3>1. /\ summary.active = Count(HandPcs) + Count({"panicked"})
          /\ Count(HandPcs) \in Nat /\ Count({"panicked"}) \in Nat
      BY DEF Numbers
    <3> QED
      BY <1>4, <1>15, <3>1
  <2>3. /\ summary.queued \in Nat /\ summary.active \in Nat /\ Accounted \in Nat
        /\ Joined \in Nat /\ Files \in Nat
        /\ summary.queued + summary.active + Accounted <= Files + Joined
    BY DEF Numbers
  <2>4. ~cancelled => summary.queued + summary.active + Accounted = Files
    BY DEF Numbers
  <2>5. /\ summary'.queued = summary.queued /\ summary'.active = summary.active - 1
        /\ Accounted' = Accounted + one /\ Joined' = Joined /\ one \in {0, 1}
    BY <1>12, <1>14, <1>15
  <2>6. summary'.queued + summary'.active + Accounted' <= Files + Joined'
    BY <2>3, <2>5
  <2>7. ~cancelled => summary'.queued + summary'.active + Accounted' = Files
    BY <1>12, <2>3, <2>4, <2>5
  <2> QED
    BY <1>15, <2>1, <2>2, <2>6, <2>7 DEF Running
<1>17. Work'
  BY <1>1, WorkMoves DEF Account
<1>18. Accounted' <= Files
  BY <1>5, <1>12, <1>14
<1>19. Left'
  BY <1>1, <1>13, <1>15, <1>18 DEF CountInv, Left, Moves
<1>20. CompletedMeansAll'
  BY <1>13 DEF CompletedMeansAll, Terminal
<1>21. summary.failed \in Nat /\ summary'.failed \in Nat
  BY <1>5, <1>11 DEF TypeOK, Summaries
<1> QED
  BY <1>4, <1>11, <1>14, <1>15, <1>16, <1>17, <1>19, <1>20, <1>21 DEF CountInv, Account

\* A summary whose state or conflict is another one.
LEMMA ShownAs ==
  ASSUME TypeOK, NEW st \in States, NEW f \in 0..Files
  PROVE  LET s == [summary EXCEPT !.state = st, !.conflict = f]
         IN /\ s \in Summaries /\ s.state = st /\ s.conflict = f
            /\ s.queued = summary.queued /\ s.active = summary.active
            /\ s.downloaded = summary.downloaded /\ s.skipped = summary.skipped
            /\ s.failed = summary.failed
BY DEF TypeOK, Summaries

LEMMA Unended ==
  ASSUME TypeOK, CountInv, NEW w \in Workers, worker[w].pc \notin {"exit", "panicked"}
  PROVE  summary.state \in {"running", "waiting"}
BY RunsStill DEF TypeOK, Summaries, States, Terminal

LEMMA ShowConflictSummary ==
  ASSUME SummaryInv, NEW w \in Workers, ShowConflict(w)
  PROVE  SummaryInv'
<1> USE DEF SummaryInv
<1> DEFINE s == [summary EXCEPT !.state = "waiting", !.conflict = worker[w].file]
<1>1. worker[w].file \in 0..Files /\ "waiting" \in States
  BY JobType DEF States
<1>2. /\ s \in Summaries /\ s.state = "waiting" /\ s.queued = summary.queued
      /\ s.active = summary.active /\ s.downloaded = summary.downloaded
      /\ s.skipped = summary.skipped /\ s.failed = summary.failed
  BY <1>1, ShownAs
<1>3. PICK r \in Jobs : Moves(w, r) /\ r.pc \in {"stop", "wait"} /\ r.file = worker[w].file
  <2>1. CASE cancelled
    <3>1. Go(w, "stop")
      BY <2>1 DEF ShowConflict, Go
    <3> QED
      BY <3>1, GoStep DEF WorkerPcs
  <2>2. CASE ~cancelled
    BY <2>2, GoStep DEF ShowConflict, WorkerPcs
  <2> QED
    BY <2>1, <2>2
<1>4. (UNCHANGED <<lock, summary, channel>>) \/ (lock' = {w} /\ summary' = s /\ Send(s))
  BY DEF ShowConflict, Update
<1> HIDE DEF s
<1>5. channel' \in Seq(Events) /\ summary' \in Summaries /\ lock' \subseteq Workers
  BY <1>2, <1>4, SendType DEF TypeOK
<1>6. SameCounters /\ summary'.state \in {"running", "waiting"}
  BY <1>2, <1>4, Unended DEF SameCounters, ShowConflict
<1>7. FreeSlots' \in 0..Slots
  BY <1>3, SlotsKept DEF ShowConflict, HoldPcs, HandPcs
<1>8. TypeOK'
  BY <1>3, <1>5, <1>7 DEF TypeOK, ShowConflict, Moves
<1>9. CountInv'
  BY <1>3, <1>6, QuietCount DEF ShowConflict, HandPcs, CountInv
<1> QED
  BY <1>8, <1>9

LEMMA CheckDecisionSummary ==
  ASSUME SummaryInv, NEW w \in Workers, CheckDecision(w)
  PROVE  SummaryInv'
<1> USE DEF SummaryInv
<1> DEFINE s == [summary EXCEPT !.state = "running"]
<1>1. /\ s \in Summaries /\ s.state = "running" /\ s.queued = summary.queued
      /\ s.active = summary.active /\ s.downloaded = summary.downloaded
      /\ s.skipped = summary.skipped /\ s.failed = summary.failed
  BY DEF TypeOK, Summaries, States
<1>2. PICK r \in Jobs : Moves(w, r) /\ r.pc \in {"decided", "sleep"} /\ r.file = worker[w].file
  <2>1. CASE Decide(w, "cancel")
    BY <2>1, DecideStep DEF Results, Decisions
  <2>2. CASE TakeDecision(w)
    BY <2>2, DecideStep DEF Results, TakeDecision, TypeOK, NoDecision
  <2>3. CASE Go(w, "sleep")
    BY <2>3, GoStep DEF WorkerPcs
  <2> QED
    BY <2>1, <2>2, <2>3 DEF CheckDecision
<1>3. \/ UNCHANGED <<decision, summary>>
      \/ decision' = NoDecision /\ summary' = s
  BY DEF CheckDecision, TakeDecision
<1> HIDE DEF s
<1>4. decision' \in Decisions \cup {NoDecision} /\ summary' \in Summaries
  BY <1>1, <1>3 DEF TypeOK
<1>5. SameCounters /\ summary'.state \in {"running", "waiting"}
  BY <1>1, <1>3, Unended DEF SameCounters, CheckDecision
<1>6. FreeSlots' \in 0..Slots
  BY <1>2, SlotsKept DEF CheckDecision, HoldPcs, HandPcs
<1>7. TypeOK'
  BY <1>2, <1>4, <1>6 DEF TypeOK, CheckDecision, Moves
<1>8. CountInv'
  BY <1>2, <1>5, QuietCount DEF CheckDecision, HandPcs, CountInv
<1> QED
  BY <1>7, <1>8

LEMMA WakeSummary ==
  ASSUME SummaryInv, NEW w \in Workers, Wake(w)
  PROVE  SummaryInv'
<1> USE DEF SummaryInv
<1>1. PICK r \in Jobs : Moves(w, r) /\ r.pc \in {"decided", "wait"} /\ r.file = worker[w].file
  <2>1. CASE Decide(w, "cancel")
    BY <2>1, DecideStep DEF Results, Decisions
  <2>2. CASE Go(w, "wait")
    BY <2>2, GoStep DEF WorkerPcs
  <2> QED
    BY <2>1, <2>2 DEF Wake
<1>2. notified' \in BOOLEAN
  BY DEF Wake, TypeOK
<1>3. SameCounters /\ summary'.state \in {"running", "waiting"}
  BY Unended DEF SameCounters, Wake
<1>4. FreeSlots' \in 0..Slots
  BY <1>1, SlotsKept DEF Wake, HoldPcs, HandPcs
<1>5. TypeOK'
  BY <1>1, <1>2, <1>4 DEF TypeOK, Wake, Moves
<1>6. CountInv'
  BY <1>1, <1>3, QuietCount DEF Wake, HandPcs, CountInv
<1> QED
  BY <1>5, <1>6

LEMMA WithdrawMoves ==
  ASSUME TypeOK, NEW w \in Workers, Withdraw(w)
  PROVE  \E r \in Jobs :
           /\ Moves(w, r) /\ r.pc \in {"transfer", "account", "stop"} /\ r.file = worker[w].file
           /\ r.pc = "account" => r.result = "skipped"
           /\ r.over <=> worker[w].result = "overwrite"
           /\ r.pc = "transfer" <=> worker[w].result = "overwrite"
<1> DEFINE d == worker[w].result
           pc == CASE d = "overwrite" -> "transfer" [] d = "skip" -> "account" [] OTHER -> "stop"
           res == IF d = "skip" THEN "skipped" ELSE "none"
           ov == d = "overwrite"
           r == [pc |-> pc, file |-> worker[w].file, over |-> ov, result |-> res]
<1>1. worker[w] \in Jobs
  BY JobType
<1>2. pc \in {"transfer", "account", "stop"} /\ res \in {"none", "skipped"}
      /\ (pc = "account" => res = "skipped") /\ (pc = "transfer" <=> ov) /\ ov \in BOOLEAN
  BY DEF Decisions
<1>3. worker' = [worker EXCEPT ![w] = [worker[w] EXCEPT !.pc = pc, !.over = ov, !.result = res]]
  BY DEF Withdraw, TypeOK
<1> HIDE DEF pc, res, ov
<1>4. r \in Jobs
  BY <1>1, <1>2 DEF Jobs, WorkerPcs
<1>5. [worker[w] EXCEPT !.pc = pc, !.over = ov, !.result = res] = r
  <2> DEFINE j  == worker[w]
             q0 == [pc |-> j.pc, file |-> j.file, over |-> j.over, result |-> j.result]
             q1 == [pc |-> pc, file |-> j.file, over |-> j.over, result |-> j.result]
             q2 == [pc |-> pc, file |-> j.file, over |-> ov, result |-> j.result]
  <2>1. j = q0
    BY <1>1 DEF Jobs
  <2>2. [q0 EXCEPT !.pc = pc] = q1
    OBVIOUS
  <2>3. [q1 EXCEPT !.over = ov] = q2
    OBVIOUS
  <2>4. [q2 EXCEPT !.result = res] = r
    OBVIOUS
  <2> HIDE DEF q0, q1, q2, r
  <2> QED
    BY <2>1, <2>2, <2>3, <2>4
<1>6. Moves(w, r)
  <2>1. worker' = [worker EXCEPT ![w] = r]
    BY <1>3, <1>5
  <2> HIDE DEF r
  <2> QED
    BY <2>1, <1>4, JobMoves
<1> QED
  BY <1>2, <1>4, <1>6 DEF ov

LEMMA WithdrawSummary ==
  ASSUME SummaryInv, NEW w \in Workers, Withdraw(w)
  PROVE  SummaryInv'
<1> USE DEF SummaryInv
<1> DEFINE s == [summary EXCEPT !.conflict = NoFile]
<1>1. PICK r \in Jobs : /\ Moves(w, r) /\ r.pc \in {"transfer", "account", "stop"}
                        /\ r.file = worker[w].file /\ (r.pc = "account" => r.result = "skipped")
  BY WithdrawMoves
<1>2. /\ s \in Summaries /\ s.state = summary.state /\ s.queued = summary.queued
      /\ s.active = summary.active /\ s.downloaded = summary.downloaded
      /\ s.skipped = summary.skipped /\ s.failed = summary.failed
  <2>1. summary \in Summaries /\ NoFile \in 0..Files
    BY FilesAssumption DEF TypeOK, NoFile
  <2> QED
    BY <2>1 DEF Summaries
<1>3. summary' = s /\ Send(s)
  BY DEF Withdraw, Update
<1> HIDE DEF s
<1>4. channel' \in Seq(Events)
  BY <1>2, <1>3, SendType
<1>5. SameCounters /\ summary'.state \in {"running", "waiting"}
  BY <1>2, <1>3, Unended DEF SameCounters, Withdraw
<1>6. FreeSlots' \in 0..Slots
  BY <1>1, SlotsKept DEF Withdraw, HoldPcs, HandPcs
<1>7. TypeOK'
  BY <1>1, <1>2, <1>3, <1>4, <1>6 DEF TypeOK, Withdraw, Moves
<1>8. CountInv'
  BY <1>1, <1>5, QuietCount DEF Withdraw, HandPcs, CountInv
<1> QED
  BY <1>7, <1>8

LEMMA StopBatchSummary ==
  ASSUME SummaryInv, NEW w \in Workers, StopBatch(w)
  PROVE  SummaryInv'
<1> USE DEF SummaryInv
<1>1. PICK r \in Jobs : Moves(w, r) /\ r.pc = "account" /\ r.file = worker[w].file
  BY FinishStep DEF StopBatch, Results
<1>2. SameCounters /\ summary'.state \in {"running", "waiting"}
  BY Unended DEF SameCounters, StopBatch
<1>3. FreeSlots' \in 0..Slots
  BY <1>1, SlotsKept DEF StopBatch, HoldPcs, HandPcs
<1>4. TypeOK'
  BY <1>1, <1>3 DEF TypeOK, StopBatch, Moves
<1>5. CountInv'
  BY <1>1, <1>2, QuietCount DEF StopBatch, HandPcs
<1> QED
  BY <1>4, <1>5

LEMMA PanicSummary ==
  ASSUME SummaryInv, NEW w \in Workers, Panic(w)
  PROVE  SummaryInv'
<1> USE DEF SummaryInv
<1>1. PICK r \in Jobs : Moves(w, r) /\ r.pc = "panicked" /\ r.file = worker[w].file
  BY GoStep DEF Panic, WorkerPcs
<1>2. FreeSlots' \in 0..Slots
  BY <1>1, SlotsKept DEF Panic, HoldPcs, HandPcs
<1>3. TypeOK'
  BY <1>1, <1>2 DEF TypeOK, Panic, Moves
<1>4. ~Terminal /\ ~Terminal'
  BY RunsStill DEF Panic, Terminal
<1> Numbers
  BY RunningNumbers DEF Panic
<1>5. /\ Count({"begin"})' = Count({"begin"}) /\ Count(HandPcs)' = Count(HandPcs) - 1
      /\ Count({"panicked"})' = Count({"panicked"}) + 1
      /\ Count(HandPcs) \in Nat /\ Count({"panicked"}) \in Nat
  BY <1>1, CountMoves DEF Panic, HandPcs
<1>6. Count({"panicked"}) = 0
  BY CountNone DEF Panic
<1>7. Joined' = Joined /\ Accounted' = Accounted /\ UNCHANGED <<queue, summary, cancelled, failedWorker>>
  BY DEF Panic, Joined, Accounted
<1>8. Joined = 0
  <2>1. Joined \in {0, 1} /\ Joined <= Count({"panicked"})
    BY DEF Numbers
  <2> QED
    BY <1>6, <2>1
<1>9. Running'
  <2>1. summary.active = Count(HandPcs)' + Count({"panicked"})'
    <3>1. summary.active = Count(HandPcs) + Count({"panicked"})
      BY DEF Numbers
    <3> QED
      BY <1>5, <3>1
  <2>2. Running
    BY RunsStill DEF Panic
  <2> QED
    BY <1>5, <1>7, <2>1, <2>2 DEF Running
<1>10. Work'
  BY <1>1, WorkMoves, FileInHand, FilesAssumption DEF Panic, Busy, NoFile
<1>11. Left'
  BY <1>1, <1>4, <1>7 DEF CountInv, Left, Moves
<1>12. CompletedMeansAll'
  BY <1>4 DEF CompletedMeansAll, Terminal
<1>13. Count({"panicked"})' \in Joined'..1
  BY <1>5, <1>6, <1>7, <1>8
<1> QED
  BY <1>3, <1>7, <1>9, <1>10, <1>11, <1>12, <1>13 DEF CountInv, Panic

\* A worker that panicked has left its file among the active ones.
LEMMA PanickedRuns ==
  ASSUME TypeOK, CountInv, NEW w \in Workers, worker[w].pc = "panicked", ~failedWorker
  PROVE  ~Terminal /\ Numbers
<1>1. ~Terminal
  BY DEF CountInv, Left
<1>2. Running
  BY <1>1 DEF CountInv
<1>3. summary \in Summaries /\ queue \in Seq(1..Files) /\ failedWorker \in BOOLEAN
  BY DEF TypeOK
<1>4. Files \in Nat /\ Len(queue) \in Nat
  BY <1>3, LenProperties, FilesAssumption
<1>5. /\ summary.queued \in Nat /\ summary.active \in Nat /\ summary.downloaded \in Nat
      /\ summary.skipped \in Nat /\ summary.failed \in Nat
  BY <1>3, <1>4 DEF Summaries
<1>6. Accounted \in Nat
  BY <1>5 DEF Accounted
<1>7. Count({"begin"}) \in Nat /\ Count(HandPcs) \in Nat /\ Count({"panicked"}) \in Nat
  BY CountType
<1>8. Joined = 0
  BY DEF Joined
<1> QED
  BY <1>1, <1>2, <1>4, <1>5, <1>6, <1>7, <1>8 DEF Running, Numbers

LEMMA JoinSummary ==
  ASSUME SummaryInv, NEW w \in Workers, Join(w)
  PROVE  SummaryInv'
<1> USE DEF SummaryInv
<1> DEFINE s == [summary EXCEPT !.failed = @ + 1]
<1>1. ~Terminal /\ Numbers /\ Joined = 0 /\ Joined' = 1
  BY PanickedRuns DEF Join, Joined
<1>2. Count({"panicked"}) = 1
  <2>1. Count({"panicked"}) >= 1 /\ Count({"panicked"}) \in 0..1
    BY <1>1, CountSome DEF Join, CountInv
  <2> QED
    BY <2>1
<1>3. Accounted + 1 <= Files /\ Accounted \in Nat
  <2> DEFINE u == summary.queued
             n == summary.active
             h == Count(HandPcs)
             x == Accounted
  <2>1. u \in Nat /\ n \in Nat /\ h \in Nat /\ x \in Nat /\ Files \in Nat
    BY <1>1 DEF Numbers
  <2>2. u + n + x <= Files /\ n = h + 1
    BY <1>1, <1>2 DEF Numbers
  <2> HIDE DEF u, n, h, x
  <2>3. x + 1 <= Files
    BY <2>1, <2>2
  <2> QED
    BY <2>1, <2>3 DEF x
<1>4. summary.failed + 1 \in 1..Files
  <2>1. summary.failed \in Nat /\ summary.downloaded \in Nat /\ summary.skipped \in Nat /\ Files \in Nat
    BY <1>1 DEF Numbers
  <2> QED
    BY <1>3, <2>1 DEF Accounted
<1>5. /\ s \in Summaries /\ s.state = summary.state /\ s.queued = summary.queued
      /\ s.active = summary.active /\ s.downloaded = summary.downloaded
      /\ s.skipped = summary.skipped /\ s.failed = summary.failed + 1
  BY <1>4 DEF TypeOK, Summaries
<1>6. summary' = s /\ Send(s)
  BY DEF Join, Update
<1> HIDE DEF s
<1>7. channel' \in Seq(Events)
  BY <1>5, <1>6, SendType
<1>8. \A P : Count(P)' = Count(P)
  BY DEF Join, Count, InPhase
<1>9. FreeSlots' = FreeSlots
  BY DEF Join, FreeSlots, Holds
<1>10. TypeOK'
  BY <1>5, <1>6, <1>7, <1>9 DEF TypeOK, Join
<1>11. ~Terminal'
  BY <1>1, <1>5, <1>6 DEF Terminal
<1>12. Accounted' = Accounted + 1
  <2>1. summary.failed \in Nat /\ summary.downloaded \in Nat /\ summary.skipped \in Nat
    BY <1>1 DEF Numbers
  <2> QED
    BY <1>5, <1>6, <2>1 DEF Accounted
<1>13. Running'
  <2>1. summary.queued + summary.active + Accounted <= Files
        /\ summary.queued \in Nat /\ summary.active \in Nat /\ Files \in Nat
    BY <1>1 DEF Numbers
  <2>2. summary'.queued + summary'.active + Accounted' <= Files + Joined'
    BY <1>1, <1>3, <1>5, <1>6, <1>12, <2>1
  <2>3. cancelled' /\ queue' = queue
    BY DEF Join
  <2>4. summary.queued = Len(queue) + Count({"begin"}) /\ summary.active = Count(HandPcs) + Count({"panicked"})
    BY <1>1 DEF Numbers
  <2> QED
    BY <1>5, <1>6, <1>8, <2>2, <2>3, <2>4 DEF Running
<1>14. Work'
  BY DEF CountInv, Work, Busy, Join
<1>15. Left'
  BY <1>3, <1>11, <1>12 DEF CountInv, Left, Join
<1>16. CompletedMeansAll'
  BY <1>11 DEF CompletedMeansAll, Terminal
<1>17. Count({"panicked"})' \in Joined'..1 /\ summary'.failed >= 1
  BY <1>1, <1>2, <1>4, <1>5, <1>6, <1>8
<1> QED
  BY <1>10, <1>13, <1>14, <1>15, <1>16, <1>17 DEF CountInv, Join

LEMMA EndSummary ==
  ASSUME SummaryInv, End
  PROVE  SummaryInv'
<1> USE DEF SummaryInv
<1> DEFINE st == IF cancelled /\ ~failedWorker THEN "cancelled"
                 ELSE IF failedWorker \/ summary.failed = Files THEN "failed" ELSE "completed"
           s == [summary EXCEPT !.queued = 0, !.active = 0, !.conflict = NoFile, !.state = st]
<1>1. st \in {"cancelled", "failed", "completed"} /\ (st = "completed" => ~cancelled /\ ~failedWorker)
  BY DEF CountInv
<1> HIDE DEF st
<1>2. /\ s \in Summaries /\ s.state = st /\ s.downloaded = summary.downloaded
      /\ s.skipped = summary.skipped /\ s.failed = summary.failed
  <2>1. summary \in Summaries /\ 0 \in 0..Files /\ NoFile = 0 /\ st \in States
    BY <1>1, FilesAssumption DEF TypeOK, NoFile, States
  <2> QED
    BY <2>1 DEF Summaries
<1>3. summary' = s /\ Send(s)
  BY DEF End, Update, st
<1> HIDE DEF s
<1>4. channel' \in Seq(Events)
  BY <1>2, <1>3, SendType
<1>5. FreeSlots' = FreeSlots /\ \A P : Count(P)' = Count(P)
  BY DEF End, FreeSlots, Holds, Count, InPhase
<1>6. TypeOK'
  BY <1>2, <1>3, <1>4, <1>5 DEF TypeOK, End
<1>7. Terminal' /\ Accounted' = Accounted
  BY <1>1, <1>2, <1>3 DEF Terminal, Accounted
<1>8. Left'
  BY <1>7 DEF CountInv, Left, End
<1>9. CompletedMeansAll'
  <2> SUFFICES ASSUME st = "completed"
               PROVE  Accounted = Files /\ queue = <<>>
    BY <1>2, <1>3 DEF CompletedMeansAll, Accounted, End
  <2>1. ~cancelled /\ ~failedWorker /\ \A w \in Workers : worker[w].pc = "exit"
    BY <1>1 DEF End
  <2>2. queue = <<>>
    BY <2>1, WorkersAssumption DEF CountInv, Left
  <2>3. Count({"begin"}) = 0 /\ Count(HandPcs) = 0 /\ Count({"panicked"}) = 0
    BY <2>1, CountNone DEF HandPcs
  <2>4. Running
    BY DEF End, CountInv
  <2>5. summary.queued = 0 /\ summary.active = 0
    BY <2>2, <2>3, <2>4 DEF Running
  <2>6. Accounted \in Nat /\ Files \in Nat
    BY FilesAssumption DEF TypeOK, Summaries, Accounted
  <2>7. Accounted = Files
    BY <2>1, <2>4, <2>5, <2>6 DEF Running
  <2> QED
    BY <2>2, <2>7
<1>10. Work'
  BY DEF CountInv, Work, Busy, End
<1>11. Joined' = Joined
  BY DEF End, Joined
<1> QED
  BY <1>2, <1>3, <1>5, <1>6, <1>7, <1>8, <1>9, <1>10, <1>11 DEF CountInv, End

-----------------------------------------------------------------------------
(* The window's functions, field by field.                                   *)

LEMMA SettleIs ==
  ASSUME NEW u \in Uis
  PROVE  LET asks == ~(u.latest = NoFile \/ u.key # NoFile \/ u.ended \/ u.handled = u.latest)
             v == Settle(u)
         IN /\ v \in Uis /\ v.open = u.open /\ v.attached = u.attached /\ v.latest = u.latest
            /\ v.ended = u.ended /\ v.opened = u.opened
            /\ asks => v.key = u.latest /\ v.handled = u.latest /\ v.asking = TRUE
            /\ ~asks => v = u
BY DEF Settle, Uis

\* What apply makes of the latest and the handled conflict before it settles.
Latest(e) == IF e.state # "waiting" THEN NoFile ELSE IF e.conflict = NoFile THEN Unnamed ELSE e.conflict
Noted(u, e) ==
  [u EXCEPT !.latest = Latest(e), !.handled = IF e.state = "waiting" THEN @ ELSE NoFile,
            !.ended = e.state \in {"completed", "cancelled", "failed"}]

LEMMA NotedIs ==
  ASSUME NEW u \in Uis, NEW e \in Events
  PROVE  LET v == Noted(u, e)
         IN /\ v \in Uis /\ v.open = u.open /\ v.attached = u.attached /\ v.key = u.key
            /\ v.asking = u.asking /\ v.opened = u.opened /\ v.latest = Latest(e)
            /\ v.handled = IF e.state = "waiting" THEN u.handled ELSE NoFile
            /\ v.ended <=> e.state \in {"completed", "cancelled", "failed"}
<1> DEFINE l == Latest(e)
           h == IF e.state = "waiting" THEN u.handled ELSE NoFile
           n == e.state \in {"completed", "cancelled", "failed"}
<1>1. l \in Keys /\ h \in Keys /\ n \in BOOLEAN
  BY FilesAssumption DEF Latest, Events, Uis, Keys, NoFile, Unnamed
<1>2. Noted(u, e) = [u EXCEPT !.latest = l, !.handled = h, !.ended = n]
  BY DEF Noted, Uis
<1> HIDE DEF l, h, n
<1>3. LET v == [u EXCEPT !.latest = l, !.handled = h, !.ended = n]
      IN /\ v \in Uis /\ v.open = u.open /\ v.attached = u.attached /\ v.key = u.key
         /\ v.asking = u.asking /\ v.opened = u.opened /\ v.latest = l /\ v.handled = h
         /\ v.ended = n
  BY <1>1 DEF Uis
<1> QED
  BY <1>2, <1>3 DEF l, h, n

LEMMA ApplyIs ==
  ASSUME NEW u \in Uis, NEW e \in Events
  PROVE  /\ u.ended => Apply(u, e) = u
         /\ ~u.ended => Apply(u, e) = Settle(Noted(u, e))
         /\ Apply(u, e) \in Uis
<1>1. ~u.ended => Apply(u, e) = Settle(Noted(u, e))
  BY DEF Apply, Noted, Latest
<1>2. Settle(Noted(u, e)) \in Uis
  BY NotedIs, SettleIs
<1> QED
  BY <1>1, <1>2 DEF Apply

Freed(u) == [u EXCEPT !.key = NoFile, !.asking = FALSE]

LEMMA FreedIs ==
  ASSUME NEW u \in Uis
  PROVE  LET v == Freed(u)
         IN /\ v \in Uis /\ v.open = u.open /\ v.attached = u.attached /\ v.key = NoFile
            /\ v.asking = FALSE /\ v.opened = u.opened /\ v.latest = u.latest
            /\ v.handled = u.handled /\ v.ended = u.ended
<1>1. NoFile \in Keys
  BY FilesAssumption DEF Keys, NoFile
<1> QED
  BY <1>1 DEF Freed, Uis

LEMMA ReleaseIs ==
  ASSUME NEW u \in Uis
  PROVE  /\ Release(u) = IF u.latest # NoFile /\ u.latest # u.key THEN Settle(Freed(u)) ELSE Freed(u)
         /\ Release(u) \in Uis
<1>1. Release(u) = IF u.latest # NoFile /\ u.latest # u.key THEN Settle(Freed(u)) ELSE Freed(u)
  BY DEF Release, Freed
<1>2. Freed(u) \in Uis
  BY FreedIs
<1>3. Settle(Freed(u)) \in Uis
  BY <1>2, SettleIs
<1> QED
  BY <1>1, <1>2, <1>3

LEMMA EventIs ==
  ASSUME TypeOK
  PROVE  /\ Event(summary) \in Events /\ Event(summary).state = summary.state
         /\ Event(summary).conflict = summary.conflict
BY DEF Event, Events, TypeOK, Summaries

LEMMA ChannelHead ==
  ASSUME TypeOK, channel # <<>>
  PROVE  /\ Head(channel) \in Events /\ Tail(channel) \in Seq(Events)
         /\ Len(channel) \in Nat /\ Len(channel) >= 1 /\ Len(Tail(channel)) = Len(channel) - 1
         /\ Head(channel) = channel[1]
         /\ \A i \in 1..Len(Tail(channel)) : Tail(channel)[i] = channel[i + 1]
<1>1. channel \in Seq(Events)
  BY DEF TypeOK
<1>2. Len(channel) \in Nat \ {0}
  BY <1>1, EmptySeq, LenProperties
<1> QED
  BY <1>1, <1>2, HeadTailProperties

\* The window a new page opens.
Opened == [ui EXCEPT !.open = TRUE, !.opened = @ + 1]

LEMMA OpenedIs ==
  ASSUME TypeOK, ui.opened < MaxWindows
  PROVE  /\ Opened \in Uis /\ Opened.open = TRUE /\ Opened.attached = ui.attached
         /\ Opened.latest = ui.latest /\ Opened.handled = ui.handled /\ Opened.key = ui.key
         /\ Opened.asking = ui.asking /\ Opened.ended = ui.ended
<1> DEFINE n == ui.opened + 1
<1>1. ui \in Uis /\ n \in 0..MaxWindows
  BY BoundsAssumption DEF TypeOK, Uis
<1>2. Opened = [ui EXCEPT !.open = TRUE, !.opened = n]
  BY DEF Opened
<1> HIDE DEF n
<1> QED
  BY <1>1, <1>2 DEF Uis

LEMMA ClosedIs ==
  ASSUME TypeOK
  PROVE  LET v == [ClosedUi EXCEPT !.opened = ui.opened]
         IN /\ v \in Uis /\ v.open = FALSE /\ v.attached = FALSE /\ v.latest = NoFile
            /\ v.handled = NoFile /\ v.key = NoFile /\ v.asking = FALSE /\ v.ended = FALSE
<1>1. NoFile \in Keys
  BY FilesAssumption DEF Keys, NoFile
<1>2. ui.opened \in 0..MaxWindows
  BY DEF TypeOK, Uis
<1> QED
  BY <1>1, <1>2 DEF ClosedUi, Uis

LEMMA AroundSummary ==
  ASSUME SummaryInv,
         Cancel \/ LoseSession \/ ServeCall \/ OthersTake \/ OthersGive \/ WindowStep
         \/ OpenWindow \/ Answer \/ LoseWindow
  PROVE  SummaryInv'
<1> USE DEF SummaryInv
<1>1. CASE Cancel
  <2>1. TypeOK'
    BY <1>1 DEF Cancel, TypeOK, FreeSlots, Holds
  <2> QED
    BY <1>1, <2>1, QuietAround DEF Cancel
<1>2. CASE LoseSession
  <2>1. cancelled' \in BOOLEAN /\ (cancelled => cancelled')
    BY <1>2 DEF LoseSession, TypeOK
  <2>2. TypeOK'
    BY <1>2, <2>1 DEF LoseSession, TypeOK, FreeSlots, Holds
  <2> QED
    BY <1>2, <2>1, <2>2, QuietAround DEF LoseSession, CountInv
<1>3. CASE ServeCall
  <2>1. /\ decision' \in Decisions \cup {NoDecision} /\ notified' \in BOOLEAN
        /\ call' \in Calls
    BY <1>3 DEF ServeCall, TypeOK, Calls
  <2>2. TypeOK'
    BY <1>3, <2>1 DEF ServeCall, TypeOK, FreeSlots, Holds
  <2> QED
    BY <1>3, <2>2, QuietAround DEF ServeCall, CountInv
<1>4. CASE OthersTake \/ OthersGive
  <2>1. /\ UNCHANGED <<queue, worker, lock, summary, decision, notified, cancelled, token, session,
                       failedWorker, ui, channel, call, approved, overwritten>>
        /\ others' \in 0..MaxOthers
        /\ (FreeSlots > 0 /\ others' = others + 1) \/ (others > 0 /\ others' = others - 1)
    <3>1. others \in 0..MaxOthers /\ MaxOthers \in Nat
      BY FilesAssumption DEF TypeOK
    <3>2. CASE OthersTake
      BY <3>1, <3>2 DEF OthersTake
    <3>3. CASE OthersGive
      BY <3>1, <3>3 DEF OthersGive
    <3> QED
      BY <1>4, <3>2, <3>3
  <2>2. Count(HoldPcs)' = Count(HoldPcs) /\ Count(HoldPcs) \in Nat
    BY <2>1, CountType DEF Count, InPhase
  <2>3. FreeSlots' = Slots - others' - Count(HoldPcs)' /\ FreeSlots = Slots - others - Count(HoldPcs)
    BY <2>1, SlotsFree, SlotsFreeNext DEF TypeOK
  <2>4. FreeSlots' \in 0..Slots
    <3>1. FreeSlots \in 0..Slots /\ others \in 0..MaxOthers /\ Slots \in Nat /\ MaxOthers \in Nat
      BY FilesAssumption DEF TypeOK
    <3> QED
      BY <2>1, <2>2, <2>3, <3>1
  <2>5. TypeOK'
    BY <2>1, <2>4 DEF TypeOK
  <2> QED
    BY <2>1, <2>5, QuietAround DEF CountInv
<1>5. CASE Attach
  <2>1. ui' \in Uis
    BY <1>5 DEF Attach, TypeOK, Uis
  <2>2. channel' \in Seq(Events)
    BY <1>5, EventIs DEF Attach
  <2>3. TypeOK'
    BY <1>5, <2>1, <2>2 DEF Attach, TypeOK, FreeSlots, Holds
  <2> QED
    BY <1>5, <2>3, QuietAround DEF Attach, CountInv
<1>6. CASE Receive
  <2>1. ui' \in Uis /\ channel' \in Seq(Events)
    BY <1>6, ChannelHead, ApplyIs DEF Receive, TypeOK
  <2>2. TypeOK'
    BY <1>6, <2>1 DEF Receive, TypeOK, FreeSlots, Holds
  <2> QED
    BY <1>6, <2>2, QuietAround DEF Receive, CountInv
<1>7. CASE Return
  <2> DEFINE u == IF call.at = "refused" /\ ~ui.ended /\ ui.latest = ui.key
                    THEN [ui EXCEPT !.handled = NoFile] ELSE ui
  <2>1. u \in Uis /\ ui \in Uis
    <3>1. ui \in Uis /\ NoFile \in Keys
      BY FilesAssumption DEF TypeOK, Keys, NoFile
    <3>2. [ui EXCEPT !.handled = NoFile] \in Uis
      BY <3>1 DEF Uis
    <3> QED
      BY <3>1, <3>2
  <2>2. ui' \in {ui, Release(u)}
    BY <1>7 DEF Return
  <2>3. ui' \in Uis
    <3> HIDE DEF u
    <3> QED
      BY <2>1, <2>2, ReleaseIs
  <2>4. call' \in Calls
    BY <1>7 DEF Return, NoCall, Calls
  <2>5. TypeOK'
    BY <1>7, <2>3, <2>4 DEF Return, TypeOK, FreeSlots, Holds
  <2> QED
    BY <1>7, <2>5, QuietAround DEF Return, CountInv
<1>8. CASE OpenWindow
  <2>1. ui' \in Uis
    BY <1>8, OpenedIs, ApplyIs, EventIs DEF OpenWindow, Opened
  <2>2. TypeOK'
    BY <1>8, <2>1 DEF OpenWindow, TypeOK, FreeSlots, Holds
  <2> QED
    BY <1>8, <2>2, QuietAround DEF OpenWindow, CountInv
<1>9. CASE Answer
  <2>1. approved' \subseteq Keys
    BY <1>9 DEF Answer, TypeOK, Uis
  <2>2. ui' \in Uis
    <3>1. ui \in Uis /\ [ui EXCEPT !.asking = FALSE] \in Uis
      BY DEF TypeOK, Uis
    <3> QED
      BY <1>9, <3>1, ReleaseIs DEF Answer
  <2>3. call' \in Calls
    BY <1>9 DEF Answer, TypeOK, Calls, Decisions
  <2>4. TypeOK'
    BY <1>9, <2>1, <2>2, <2>3 DEF Answer, TypeOK, FreeSlots, Holds
  <2> QED
    BY <1>9, <2>4, QuietAround DEF Answer, CountInv
<1>10. CASE LoseWindow
  <2>1. ui' \in Uis
    BY <1>10, ClosedIs DEF LoseWindow
  <2>2. channel' \in Seq(Events)
    BY <1>10, EmptySeq DEF LoseWindow
  <2>3. TypeOK'
    BY <1>10, <2>1, <2>2 DEF LoseWindow, TypeOK, FreeSlots, Holds
  <2> QED
    BY <1>10, <2>3, QuietAround DEF LoseWindow, CountInv
<1> QED
  BY <1>1, <1>2, <1>3, <1>4, <1>5, <1>6, <1>7, <1>8, <1>9, <1>10 DEF WindowStep

-----------------------------------------------------------------------------
(* What the workers have in hand, and whose conflict is shown.               *)

\* The queue holds the last files, the workers different ones of the others.
QueueInv ==
  /\ \A i \in 1..Len(queue) : queue[i] = i + (Files - Len(queue))
  /\ \A w \in Workers : Busy(w) => worker[w].file \in 1..Files - Len(queue)
  /\ \A v, w \in Workers : v # w /\ Busy(v) /\ Busy(w) => worker[v].file # worker[w].file
  /\ \A w \in Workers : worker[w].pc = "begin" => ~worker[w].over

NoPanic == \A w \in Workers : worker[w].pc # "panicked"
Live == session /\ ~cancelled /\ NoPanic

\* While nothing disturbs the batch, a worker waits whenever the summary says so, and
\* a decision is about the conflict it waits with.
TurnInv == Live =>
  /\ \A w \in Workers : worker[w].pc = "decided" => summary.state = "running"
  /\ summary.state = "waiting" => \E w \in Workers : worker[w].pc \in {"wait", "sleep"}
  /\ decision # NoDecision => summary.state = "waiting"

WaitPcs == {"wait", "sleep", "decided"}
IdlePcs == {"slot", "acquire", "pop", "exit"}

LEMMA QuietConflict ==
  ASSUME TypeOK, ShownConflictWaits, NEW w \in Workers, NEW r \in Jobs, Moves(w, r),
         worker[w].pc # "panicked", r.pc # "panicked",
         worker[w].pc \in WaitPcs <=> r.pc \in WaitPcs,
         worker[w].pc \in WaitPcs => r.file = worker[w].file,
         lock' = lock, summary'.conflict = summary.conflict
  PROVE  ShownConflictWaits'
<1>1. \A v \in Workers : /\ Waits(v)' <=> Waits(v)
                         /\ Waits(v) => worker'[v].file = worker[v].file
  BY DEF Waits, WaitPcs, Moves
<1>2. (\A v \in Workers : worker'[v].pc # "panicked") => \A v \in Workers : worker[v].pc # "panicked"
  BY DEF Moves
<1> QED
  BY <1>1, <1>2 DEF ShownConflictWaits

LEMMA QuietQueue ==
  ASSUME TypeOK, QueueInv, NEW w \in Workers, NEW r \in Jobs, Moves(w, r), queue' = queue,
         r.pc \notin IdlePcs => Busy(w) /\ r.file = worker[w].file,
         r.pc # "begin"
  PROVE  QueueInv'
<1>1. \A v \in Workers : Busy(v)' => Busy(v) /\ worker'[v].file = worker[v].file
  BY DEF Busy, IdlePcs, Moves
<1>2. \A v \in Workers : worker'[v].pc = "begin" => worker[v].pc = "begin" /\ worker'[v].over = worker[v].over
  BY DEF Moves
<1> QED
  BY <1>1, <1>2 DEF QueueInv

LEMMA QuietTurn ==
  ASSUME TypeOK, TurnInv, NEW w \in Workers, NEW r \in Jobs, Moves(w, r), Live' => Live,
         worker[w].pc \notin WaitPcs, r.pc \notin WaitPcs,
         summary'.state = summary.state, decision' = decision
  PROVE  TurnInv'
BY DEF TurnInv, Moves, WaitPcs

ConflictInv == ShownConflictWaits /\ QueueInv /\ TurnInv

\* A step of a worker that neither waits nor begins to.
LEMMA QuietWorker ==
  ASSUME TypeOK, ConflictInv, NEW w \in Workers, NEW r \in Jobs, Moves(w, r),
         session' => session, cancelled => cancelled',
         worker[w].pc \notin WaitPcs \cup {"panicked"}, r.pc \notin WaitPcs \cup {"panicked", "begin"},
         r.pc \notin IdlePcs => Busy(w) /\ r.file = worker[w].file,
         UNCHANGED <<lock, queue, decision>>,
         summary'.state = summary.state, summary'.conflict = summary.conflict
  PROVE  ConflictInv' /\ (Live' => Live)
<1>1. Live' => Live
  BY DEF Live, NoPanic, Moves
<1>2. ShownConflictWaits'
  BY QuietConflict DEF ConflictInv
<1>3. QueueInv'
  BY QuietQueue DEF ConflictInv
<1>4. TurnInv'
  BY <1>1, QuietTurn DEF ConflictInv
<1> QED
  BY <1>1, <1>2, <1>3, <1>4 DEF ConflictInv

\* A step of the program around the workers.
LEMMA QuietProgram ==
  ASSUME TypeOK, ConflictInv, UNCHANGED <<worker, lock, queue, summary, decision>>,
         session' => session, cancelled => cancelled'
  PROVE  ConflictInv' /\ (Live' => Live)
<1>1. Live' => Live
  BY DEF Live, NoPanic
<1>2. ShownConflictWaits'
  BY DEF ConflictInv, ShownConflictWaits, Waits
<1>3. QueueInv'
  BY DEF ConflictInv, QueueInv, Busy
<1>4. TurnInv'
  BY <1>1 DEF ConflictInv, TurnInv
<1> QED
  BY <1>1, <1>2, <1>3, <1>4 DEF ConflictInv

-----------------------------------------------------------------------------
(* The answers: what the window knows of the conflicts.                      *)

WindowInv ==
  /\ call.at # "none" => ~ui.asking /\ (ui.open => ui.key # NoFile) /\ call.decision # NoDecision
  /\ call.at = "none" => call = NoCall
  /\ ui.asking => ui.open /\ ui.key # NoFile
  /\ ~ui.open => /\ ui.latest = NoFile /\ ui.handled = NoFile /\ ui.key = NoFile
                 /\ ~ui.attached /\ ~ui.ended
  /\ ~ui.attached => channel = <<>>

\* The user's decision about c is still to come.
Undecided(c) == summary.state = "waiting" /\ summary.conflict = c /\ decision = NoDecision

\* A file whose conflict may still be met, and was not.
Ahead(w, f) ==
  /\ worker[w].file = f
  /\ worker[w].pc \in {"begin", "conflict"} \/ (worker[w].pc = "transfer" /\ ~worker[w].over)
Fresh(f) == f \in Files - Len(queue) + 1..Files \/ \E w \in Workers : Ahead(w, f)

\* No one has heard of the conflict of such a file.
FreshUnseen ==
  \A f \in 1..Files : Fresh(f) =>
    /\ f # summary.conflict /\ f # ui.latest /\ f # ui.handled /\ f # ui.key
    /\ \A i \in 1..Len(channel) : channel[i].conflict # f

\* A conflict that waits is that of a file.
NamesFiles ==
  /\ summary.state = "waiting" => summary.conflict \in 1..Files
  /\ \A i \in 1..Len(channel) : channel[i].state = "waiting" => channel[i].conflict \in 1..Files

\* What the user is asked, or will be once the dialog is free, is still undecided.
Questions ==
  /\ ui.latest # NoFile /\ ui.handled # ui.latest => Undecided(ui.latest)
  /\ ui.asking => Undecided(ui.key)

\* A conflict on its way to the window is undecided or one it has handled.
EventsTrue ==
  \A i \in 1..Len(channel) : channel[i].state = "waiting" =>
    \/ Undecided(channel[i].conflict)
    \/ ui.handled = channel[i].conflict /\ \A j \in 1..i : channel[j] = channel[i]

\* Nothing is sent behind the conflict that is shown but that conflict.
EventsLast ==
  summary.state = "waiting" =>
    /\ \A i, j \in 1..Len(channel) : i <= j /\ channel[i] = Event(summary) => channel[j] = Event(summary)
    /\ ui.latest = summary.conflict => \A j \in 1..Len(channel) : channel[j] = Event(summary)

\* A call answers the conflict that is shown, and an answered one is not asked again.
Answers ==
  /\ call.at = "sent" => /\ summary.state = "waiting" /\ decision = NoDecision
                         /\ ui.open => ui.key = summary.conflict
  /\ call.at # "refused"
  /\ /\ summary.state = "waiting" /\ ui.open
     /\ ui.key = summary.conflict \/ decision # NoDecision
     => ui.handled = summary.conflict /\ ui.latest = summary.conflict

AnswerInv == FreshUnseen /\ NamesFiles /\ Questions /\ EventsTrue /\ EventsLast /\ Answers
ProtocolInv == Live => AnswerInv

\* The channel after a summary that says the same as before, or nothing.
Echoed == channel' = channel \/ (ui.attached /\ channel' = Append(channel, Event(summary)))

LEMMA EchoedIs ==
  ASSUME TypeOK, Echoed
  PROVE  /\ Len(channel) \in Nat /\ Len(channel') \in {Len(channel), Len(channel) + 1}
         /\ \A i \in 1..Len(channel) : channel'[i] = channel[i]
         /\ Len(channel') = Len(channel) + 1 => ui.attached /\ channel'[Len(channel) + 1] = Event(summary)
<1>1. channel \in Seq(Events) /\ Event(summary) \in Events
  BY EventIs DEF TypeOK
<1>2. Len(channel) \in Nat
  BY <1>1, LenProperties
<1>3. CASE channel' = channel
  BY <1>2, <1>3
<1>4. CASE ui.attached /\ channel' = Append(channel, Event(summary))
  BY <1>1, <1>2, <1>4, AppendProperties
<1> QED
  BY <1>3, <1>4 DEF Echoed

\* What a step sends whose summary has the same state and conflict.
LEMMA SendEchoes ==
  ASSUME TypeOK, NEW s, Send(s), s.state = summary.state, s.conflict = summary.conflict
  PROVE  Echoed
BY DEF Send, Event, Echoed

LEMMA EchoWindow ==
  ASSUME TypeOK, WindowInv, Echoed, UNCHANGED <<ui, call>>
  PROVE  WindowInv'
BY DEF WindowInv, Echoed

LEMMA EchoProtocol ==
  ASSUME TypeOK, WindowInv, ProtocolInv, Echoed, UNCHANGED <<decision, ui, call>>,
         summary'.state = summary.state, summary'.conflict = summary.conflict,
         Live' => Live, \A f \in 1..Files : Fresh(f)' => Fresh(f)
  PROVE  ProtocolInv'
<1> SUFFICES ASSUME Live'
             PROVE  AnswerInv'
  BY DEF ProtocolInv
<1>1. AnswerInv
  BY DEF ProtocolInv
<1> DEFINE n == Len(channel)
           e == Event(summary)
<1>2. /\ n \in Nat /\ Len(channel') \in {n, n + 1}
      /\ \A i \in 1..n : channel'[i] = channel[i]
      /\ Len(channel') = n + 1 => ui.attached /\ channel'[n + 1] = e
  BY EchoedIs
<1>3. \A i \in 1..Len(channel') : i \in 1..n \/ (i = n + 1 /\ ui.attached /\ channel'[i] = e)
  BY <1>2
<1>4. e.state = summary.state /\ e.conflict = summary.conflict /\ Event(summary)' = e
  BY EventIs DEF Event
<1> HIDE DEF n, e
<1>5. FreshUnseen'
  <2>1. ASSUME NEW f \in 1..Files, Fresh(f)
        PROVE  /\ f # summary.conflict /\ f # ui.latest /\ f # ui.handled /\ f # ui.key
               /\ \A i \in 1..n : channel[i].conflict # f
    BY <1>1, <2>1 DEF AnswerInv, FreshUnseen, n
  <2>2. ASSUME NEW f \in 1..Files, Fresh(f)
        PROVE  \A i \in 1..Len(channel') : channel'[i].conflict # f
    BY <1>2, <1>3, <1>4, <2>1, <2>2
  <2> QED
    BY <2>1, <2>2 DEF FreshUnseen
<1>6. NamesFiles'
  <2>1. /\ summary.state = "waiting" => summary.conflict \in 1..Files
        /\ \A i \in 1..n : channel[i].state = "waiting" => channel[i].conflict \in 1..Files
    BY <1>1 DEF AnswerInv, NamesFiles, n
  <2>2. \A i \in 1..Len(channel') : channel'[i].state = "waiting" => channel'[i].conflict \in 1..Files
    BY <1>2, <1>3, <1>4, <2>1
  <2> QED
    BY <2>1, <2>2 DEF NamesFiles
<1>7. \A c : Undecided(c)' <=> Undecided(c)
  BY DEF Undecided
<1>8. Questions'
  BY <1>1, <1>7 DEF AnswerInv, Questions
<1>9. Answers'
  BY <1>1 DEF AnswerInv, Answers
<1>10. ui.attached /\ summary.state = "waiting" /\ decision # NoDecision
       => ui.handled = summary.conflict /\ \A j \in 1..n : channel[j] = e
  BY <1>1 DEF AnswerInv, Answers, EventsLast, WindowInv, n, e
<1>11. EventsTrue'
  <2> SUFFICES ASSUME NEW i \in 1..Len(channel'), channel'[i].state = "waiting"
               PROVE  \/ Undecided(channel'[i].conflict)
                      \/ ui.handled = channel'[i].conflict /\ \A j \in 1..i : channel'[j] = channel'[i]
    BY <1>7 DEF EventsTrue
  <2>1. CASE i \in 1..n
    BY <1>1, <1>2, <2>1 DEF AnswerInv, EventsTrue, n
  <2>2. CASE i = n + 1 /\ ui.attached /\ channel'[i] = e
    <3>1. CASE decision = NoDecision
      BY <1>4, <2>2, <3>1 DEF Undecided
    <3>2. CASE decision # NoDecision
      <4>1. ui.handled = summary.conflict /\ \A j \in 1..n : channel[j] = e
        BY <1>4, <1>10, <2>2, <3>2
      <4> QED
        BY <1>2, <1>4, <2>2, <4>1
    <3> QED
      BY <3>1, <3>2
  <2> QED
    BY <1>3, <2>1, <2>2
<1>12. EventsLast'
  <2>1. EventsLast
    BY <1>1 DEF AnswerInv
  <2> SUFFICES ASSUME summary.state = "waiting"
               PROVE  /\ \A i, j \in 1..Len(channel') : i <= j /\ channel'[i] = e => channel'[j] = e
                      /\ ui.latest = summary.conflict => \A j \in 1..Len(channel') : channel'[j] = e
    BY <1>4 DEF EventsLast
  <2>2. /\ \A i, j \in 1..n : i <= j /\ channel[i] = e => channel[j] = e
        /\ ui.latest = summary.conflict => \A j \in 1..n : channel[j] = e
    BY <2>1 DEF EventsLast, n, e
  <2>3. ASSUME NEW i \in 1..Len(channel'), NEW j \in 1..Len(channel'), i <= j, channel'[i] = e
        PROVE  channel'[j] = e
    BY <1>2, <1>3, <2>2, <2>3
  <2> QED
    BY <1>2, <1>3, <2>2, <2>3
<1> QED
  BY <1>5, <1>6, <1>8, <1>9, <1>11, <1>12 DEF AnswerInv

-----------------------------------------------------------------------------
(* The answers, action by action.                                            *)

AnswersInv == ConflictInv /\ WindowInv /\ ProtocolInv

\* A step of a worker that neither waits nor begins to, whatever it counts.
LEMMA QuietAnswers ==
  ASSUME TypeOK, AnswersInv, NEW w \in Workers, NEW r \in Jobs, Moves(w, r),
         worker[w].pc \notin WaitPcs \cup {"panicked"}, r.pc \notin WaitPcs \cup {"panicked", "begin"},
         r.pc \notin IdlePcs => Busy(w) /\ r.file = worker[w].file,
         r.pc = "conflict" \/ (r.pc = "transfer" /\ ~r.over) => Ahead(w, worker[w].file),
         session' => session, cancelled => cancelled',
         UNCHANGED <<lock, queue, decision, ui, call>>, Echoed,
         summary'.state = summary.state, summary'.conflict = summary.conflict
  PROVE  AnswersInv'
<1>1. ConflictInv' /\ (Live' => Live)
  BY QuietWorker DEF AnswersInv
<1>2. WindowInv'
  BY EchoWindow DEF AnswersInv
<1>3. ASSUME NEW f \in 1..Files, Fresh(f)'
      PROVE  Fresh(f)
  <2>1. CASE f \in Files - Len(queue') + 1..Files
    BY <2>1 DEF Fresh
  <2>2. ASSUME NEW v \in Workers, Ahead(v, f)'
        PROVE  Fresh(f)
    <3>1. CASE v = w
      <4>1. r.file = f /\ (r.pc = "conflict" \/ (r.pc = "transfer" /\ ~r.over))
        BY <2>2, <3>1 DEF Ahead, Moves
      <4>2. worker[w].file = f
        BY <4>1 DEF IdlePcs
      <4> QED
        BY <4>1, <4>2 DEF Fresh
    <3>2. CASE v # w
      BY <2>2, <3>2 DEF Ahead, Moves, Fresh
    <3> QED
      BY <3>1, <3>2
  <2> QED
    BY <1>3, <2>1, <2>2 DEF Fresh
<1>4. ProtocolInv'
  BY <1>1, <1>3, EchoProtocol DEF AnswersInv
<1> QED
  BY <1>1, <1>2, <1>4 DEF AnswersInv

LEMMA CheckSlotAnswers ==
  ASSUME SummaryInv, AnswersInv, NEW w \in Workers, CheckSlot(w)
  PROVE  AnswersInv'
<1> USE DEF SummaryInv
<1>1. PICK r \in Jobs : Moves(w, r) /\ r.pc = IF cancelled THEN "exit" ELSE "acquire"
  BY GoStep DEF CheckSlot, WorkerPcs
<1> QED
  BY <1>1, QuietAnswers DEF CheckSlot, WaitPcs, IdlePcs, Echoed

LEMMA AcquireSlotAnswers ==
  ASSUME SummaryInv, AnswersInv, NEW w \in Workers, AcquireSlot(w)
  PROVE  AnswersInv'
<1> USE DEF SummaryInv
<1>1. PICK r \in Jobs : Moves(w, r) /\ r.pc \in {"exit", "pop"}
  <2>1. CASE Go(w, "exit")
    BY <2>1, GoStep DEF WorkerPcs
  <2>2. CASE Go(w, IF cancelled THEN "exit" ELSE "pop")
    BY <2>2, GoStep DEF WorkerPcs
  <2> QED
    BY <2>1, <2>2 DEF AcquireSlot
<1> QED
  BY <1>1, QuietAnswers DEF AcquireSlot, WaitPcs, IdlePcs, Echoed

LEMMA BeginAnswers ==
  ASSUME SummaryInv, AnswersInv, NEW w \in Workers, Begin(w)
  PROVE  AnswersInv'
<1> USE DEF SummaryInv
<1> DEFINE s == [summary EXCEPT !.queued = @ - 1, !.active = @ + 1]
<1>1. PICK r \in Jobs : /\ Moves(w, r) /\ r.pc \in {"account", "transfer"}
                        /\ r.file = worker[w].file
  <2>1. CASE cancelled
    BY <2>1, FinishStep DEF Begin, Results
  <2>2. CASE ~cancelled
    BY <2>2, GoStep DEF Begin, WorkerPcs
  <2> QED
    BY <2>1, <2>2
<1>2. s.state = summary.state /\ s.conflict = summary.conflict
  BY DEF TypeOK, Summaries
<1>3. summary' = s /\ Send(s)
  BY DEF Begin, Update
<1> HIDE DEF s
<1>4. Echoed
  BY <1>2, <1>3, SendEchoes
<1>5. Ahead(w, worker[w].file) /\ Busy(w)
  BY DEF Ahead, Begin, Busy
<1> QED
  BY <1>1, <1>2, <1>3, <1>4, <1>5, QuietAnswers DEF Begin, WaitPcs

LEMMA TransferEndsAnswers ==
  ASSUME SummaryInv, AnswersInv, NEW w \in Workers, TransferEnds(w)
  PROVE  AnswersInv'
<1> USE DEF SummaryInv
<1>1. PICK r \in Jobs : /\ Moves(w, r) /\ r.pc \in {"account", "conflict"} /\ r.file = worker[w].file
                        /\ r.pc = "conflict" => ~worker[w].over
  <2>1. CASE Transferred(w)
    BY <2>1, FinishStep DEF Transferred, Results
  <2>2. CASE Conflicted(w)
    <3>1. CASE cancelled
      BY <2>2, <3>1, FinishStep DEF Conflicted, Results
    <3>2. CASE ~cancelled
      BY <2>2, <3>2, GoStep DEF Conflicted, WorkerPcs
    <3> QED
      BY <3>1, <3>2
  <2>3. CASE TransferFailed(w)
    BY <2>3, FinishStep DEF TransferFailed, Results
  <2>4. CASE TransferCancelled(w)
    BY <2>4, FinishStep DEF TransferCancelled, Results
  <2> QED
    BY <2>1, <2>2, <2>3, <2>4 DEF TransferEnds
<1>2. Busy(w) /\ (r.pc = "conflict" => Ahead(w, worker[w].file))
  BY <1>1 DEF TransferEnds, Ahead, Busy
<1> QED
  BY <1>1, <1>2, QuietAnswers DEF TransferEnds, WaitPcs, Echoed

LEMMA AccountAnswers ==
  ASSUME SummaryInv, AnswersInv, NEW w \in Workers, Account(w)
  PROVE  AnswersInv'
<1> USE DEF SummaryInv
<1> DEFINE a == [summary EXCEPT !.active = @ - 1]
           s == Outcome(worker[w].result, a)
<1>1. PICK r \in Jobs : Moves(w, r) /\ r.pc = "slot"
  BY GoStep DEF Account, WorkerPcs
<1>2. s.state = summary.state /\ s.conflict = summary.conflict
  <2>1. /\ a.state = summary.state /\ a.conflict = summary.conflict
        /\ DOMAIN a = {"state", "queued", "active", "downloaded", "skipped", "failed", "conflict"}
    BY DEF TypeOK, Summaries
  <2> HIDE DEF a
  <2>2. s \in {a, [a EXCEPT !.downloaded = @ + 1], [a EXCEPT !.skipped = @ + 1],
               [a EXCEPT !.failed = @ + 1]}
    BY DEF Outcome
  <2> QED
    BY <2>1, <2>2
<1>3. summary' = s /\ Send(s)
  BY DEF Account, Update, Outcome
<1> HIDE DEF s
<1>4. Echoed
  BY <1>2, <1>3, SendEchoes
<1> QED
  BY <1>1, <1>2, <1>3, <1>4, QuietAnswers DEF Account, WaitPcs, IdlePcs

LEMMA StopBatchAnswers ==
  ASSUME SummaryInv, AnswersInv, NEW w \in Workers, StopBatch(w)
  PROVE  AnswersInv'
<1> USE DEF SummaryInv
<1>1. PICK r \in Jobs : Moves(w, r) /\ r.pc = "account" /\ r.file = worker[w].file
  BY FinishStep DEF StopBatch, Results
<1> QED
  BY <1>1, QuietAnswers DEF StopBatch, WaitPcs, Echoed, Busy

LEMMA PopAnswers ==
  ASSUME SummaryInv, AnswersInv, NEW w \in Workers, Pop(w)
  PROVE  AnswersInv'
<1> USE DEF SummaryInv
<1>1. CASE queue = <<>>
  <2>1. PICK r \in Jobs : Moves(w, r) /\ r.pc = "exit"
    BY <1>1, GoStep DEF Pop, WorkerPcs
  <2> QED
    BY <1>1, <2>1, QuietAnswers DEF Pop, WaitPcs, IdlePcs, Echoed
<1>2. CASE queue # <<>>
  <2> DEFINE r == [pc |-> "begin", file |-> Head(queue), over |-> FALSE, result |-> "none"]
             n == Len(queue)
             f0 == Files - n + 1
  <2>1. /\ Head(queue) = queue[1] /\ n \in Nat /\ n >= 1 /\ Len(Tail(queue)) = n - 1
        /\ \A i \in 1..n - 1 : Tail(queue)[i] = queue[i + 1]
        /\ Head(queue) \in 1..Files
    <3>1. queue \in Seq(1..Files) /\ n \in Nat \ {0}
      BY <1>2, LenProperties, EmptySeq DEF TypeOK
    <3> DEFINE S == 1..Files
    <3>2. queue \in Seq(S) /\ queue # <<>> /\ n \in Nat
      BY <1>2, <3>1
    <3> HIDE DEF S, n
    <3>3. /\ Head(queue) \in S /\ Len(Tail(queue)) = Len(queue) - 1
          /\ \A i \in 1..Len(Tail(queue)) : Tail(queue)[i] = queue[i + 1]
      BY <3>2, HeadTailProperties
    <3>4. Head(queue) = queue[1]
      BY <3>2, HeadTailProperties
    <3> QED
      BY <3>1, <3>3, <3>4 DEF S, n
  <2>2. r \in Jobs
    BY <2>1, FilesAssumption DEF Jobs, WorkerPcs
  <2>3. Moves(w, r) /\ queue' = Tail(queue)
    BY <1>2, <2>2, JobMoves DEF Pop
  <2>4. QueueInv /\ ShownConflictWaits /\ TurnInv
    BY DEF AnswersInv, ConflictInv
  <2>5. Files \in Nat /\ n <= Files /\ Len(queue') = n - 1
    BY <2>1, <2>3, FilesAssumption DEF TypeOK
  <2>6. r.file = f0 /\ r.pc = "begin" /\ ~r.over /\ f0 \in 1..Files
    <3>1. queue[1] = 1 + (Files - n)
      BY <2>1, <2>4 DEF QueueInv
    <3> QED
      BY <2>1, <2>5, <3>1
  <2> HIDE DEF r, n, f0
  <2>7. Files - Len(queue') = f0 /\ f0 = Files - n + 1
    BY <2>1, <2>5 DEF f0
  <2>8. QueueInv'
    <3>1. ASSUME NEW i \in 1..Len(queue')
          PROVE  queue'[i] = i + (Files - Len(queue'))
      <4>1. i + 1 \in 1..n /\ i \in 1..n - 1
        BY <2>1, <2>5
      <4>2. queue'[i] = queue[i + 1] /\ queue[i + 1] = i + 1 + (Files - n)
        BY <2>1, <2>3, <2>4, <4>1 DEF QueueInv, n
      <4> QED
        BY <2>1, <2>5, <4>1, <4>2
    <3>2. \A v \in Workers \ {w} : Busy(v) => worker[v].file \in 1..Files - n
      BY <2>4 DEF QueueInv, n
    <3>3. \A v \in Workers \ {w} : Busy(v)' <=> Busy(v)
      BY <2>3 DEF Busy, Moves
    <3>4. \A v \in Workers \ {w} : worker'[v] = worker[v]
      BY <2>3 DEF Moves
    <3>5. worker'[w] = r
      BY <2>3 DEF Moves
    <3>6. ASSUME NEW v \in Workers, Busy(v)'
          PROVE  worker'[v].file \in 1..Files - Len(queue')
      <4>1. CASE v = w
        BY <2>6, <2>7, <3>5, <4>1
      <4>2. CASE v # w
        <5>1. worker'[v].file \in 1..Files - n
          BY <3>2, <3>3, <3>4, <3>6, <4>2
        <5> QED
          BY <2>1, <2>5, <2>7, <5>1
      <4> QED
        BY <4>1, <4>2
    <3>7. ASSUME NEW v \in Workers, Busy(v)', v # w
          PROVE  worker'[v].file # f0
      <4>1. worker'[v].file \in 1..Files - n
        BY <3>2, <3>3, <3>4, <3>7
      <4> QED
        BY <2>1, <2>5, <2>7, <4>1
    <3>8. ASSUME NEW u \in Workers, NEW v \in Workers, u # v, Busy(u)', Busy(v)'
          PROVE  worker'[u].file # worker'[v].file
      <4>1. CASE u = w
        BY <2>6, <3>5, <3>7, <3>8, <4>1
      <4>2. CASE v = w
        BY <2>6, <3>5, <3>7, <3>8, <4>2
      <4>3. CASE u # w /\ v # w
        BY <2>4, <3>3, <3>4, <3>8, <4>3 DEF QueueInv
      <4> QED
        BY <4>1, <4>2, <4>3
    <3>9. \A v \in Workers : worker'[v].pc = "begin" => ~worker'[v].over
      BY <2>4, <2>6, <3>4, <3>5 DEF QueueInv
    <3> QED
      BY <3>1, <3>6, <3>8, <3>9 DEF QueueInv
  <2>9. ShownConflictWaits'
    BY <2>2, <2>3, <2>4, <2>6, QuietConflict DEF Pop, WaitPcs
  <2>10. Live' => Live
    BY <2>3 DEF Live, NoPanic, Moves, Pop
  <2>11. TurnInv'
    BY <2>2, <2>3, <2>4, <2>6, <2>10, QuietTurn DEF Pop, WaitPcs
  <2>12. ASSUME NEW f \in 1..Files, Fresh(f)'
         PROVE  Fresh(f)
    <3>1. f \in Files - Len(queue') + 1..Files => Fresh(f)
      BY <2>1, <2>5, <2>7 DEF Fresh, n
    <3>2. f = f0 => Fresh(f)
      BY <2>1, <2>5, <2>6, <2>7 DEF Fresh, n
    <3>3. ASSUME NEW v \in Workers, Ahead(v, f)' PROVE Fresh(f)
      BY <2>3, <2>6, <3>2, <3>3 DEF Ahead, Moves, Fresh
    <3> QED
      BY <2>12, <3>1, <3>3 DEF Fresh
  <2>13. WindowInv' /\ ProtocolInv'
    BY <2>10, <2>12, EchoWindow, EchoProtocol DEF Pop, Echoed, AnswersInv
  <2> QED
    BY <2>8, <2>9, <2>11, <2>13 DEF AnswersInv, ConflictInv
<1> QED
  BY <1>1, <1>2

\* A step of a worker that waits, before and after it.
LEMMA WaiterShown ==
  ASSUME TypeOK, AnswersInv, NEW w \in Workers, NEW r \in Jobs, Moves(w, r),
         worker[w].pc \in WaitPcs, r.pc \in WaitPcs, r.file = worker[w].file,
         UNCHANGED <<lock, queue, session>>, cancelled => cancelled',
         summary'.conflict = summary.conflict
  PROVE  /\ ShownConflictWaits' /\ QueueInv' /\ (Live' => Live)
         /\ \A f \in 1..Files : Fresh(f)' => Fresh(f)
<1>1. ShownConflictWaits'
  BY QuietConflict DEF AnswersInv, ConflictInv, WaitPcs
<1>2. QueueInv'
  BY QuietQueue DEF AnswersInv, ConflictInv, WaitPcs, IdlePcs, Busy
<1>3. Live' => Live
  BY DEF Live, NoPanic, Moves, WaitPcs
<1>4. \A f \in 1..Files : Fresh(f)' => Fresh(f)
  BY DEF Fresh, Ahead, Moves, WaitPcs
<1> QED
  BY <1>1, <1>2, <1>3, <1>4

LEMMA CheckDecisionAnswers ==
  ASSUME SummaryInv, AnswersInv, NEW w \in Workers, CheckDecision(w)
  PROVE  AnswersInv'
<1> USE DEF SummaryInv
<1> DEFINE s == [summary EXCEPT !.state = "running"]
<1>1. s.state = "running" /\ s.conflict = summary.conflict
  BY DEF TypeOK, Summaries, States
<1>2. TurnInv /\ WindowInv /\ ProtocolInv
  BY DEF AnswersInv, ConflictInv
<1>3. CASE cancelled /\ Decide(w, "cancel") /\ UNCHANGED <<decision, summary>>
  <2>1. PICK r \in Jobs : Moves(w, r) /\ r.pc = "decided" /\ r.file = worker[w].file
    BY <1>3, DecideStep DEF Results, Decisions
  <2>2. ShownConflictWaits' /\ QueueInv'
    BY <1>3, <2>1, WaiterShown DEF CheckDecision, WaitPcs
  <2>3. ~Live'
    BY <1>3 DEF Live, CheckDecision
  <2>4. WindowInv'
    BY <1>2, EchoWindow DEF CheckDecision, Echoed
  <2> QED
    BY <2>2, <2>3, <2>4 DEF AnswersInv, ConflictInv, TurnInv, ProtocolInv
<1>4. CASE ~cancelled /\ decision # NoDecision /\ TakeDecision(w)
  <2>1. PICK r \in Jobs : Moves(w, r) /\ r.pc = "decided" /\ r.file = worker[w].file
    BY <1>4, DecideStep DEF Results, TakeDecision, TypeOK, NoDecision
  <2>2. summary' = s /\ decision' = NoDecision
    BY <1>4 DEF TakeDecision
  <2> HIDE DEF s
  <2>3. ShownConflictWaits' /\ QueueInv' /\ (Live' => Live) /\ \A f \in 1..Files : Fresh(f)' => Fresh(f)
    BY <1>1, <2>1, <2>2, WaiterShown DEF CheckDecision, WaitPcs
  <2>4. TurnInv'
    BY <1>1, <2>2 DEF TurnInv
  <2>5. WindowInv'
    BY <1>2, EchoWindow DEF CheckDecision, Echoed
  <2>6. ASSUME Live'
        PROVE  AnswerInv'
    <3>1. Live /\ AnswerInv
      BY <1>2, <2>3, <2>6 DEF ProtocolInv
    <3>2. \A c : ~Undecided(c)
      BY <1>4 DEF Undecided
    <3>3. UNCHANGED <<channel, ui, call>> /\ summary'.state = "running"
          /\ summary'.conflict = summary.conflict
      BY <1>1, <2>2 DEF CheckDecision
    <3>4. FreshUnseen'
      BY <2>3, <3>1, <3>3 DEF AnswerInv, FreshUnseen
    <3>5. NamesFiles' /\ Questions' /\ EventsTrue' /\ EventsLast'
      BY <3>1, <3>2, <3>3 DEF AnswerInv, NamesFiles, Questions, EventsTrue, EventsLast
    <3>6. Answers'
      BY <1>4, <3>1, <3>3 DEF AnswerInv, Answers
    <3> QED
      BY <3>4, <3>5, <3>6 DEF AnswerInv
  <2> QED
    BY <2>3, <2>4, <2>5, <2>6 DEF AnswersInv, ConflictInv, ProtocolInv
<1>5. CASE ~cancelled /\ decision = NoDecision /\ Go(w, "sleep") /\ UNCHANGED <<decision, summary>>
  <2>1. PICK r \in Jobs : Moves(w, r) /\ r.pc = "sleep" /\ r.file = worker[w].file
    BY <1>5, GoStep DEF WorkerPcs
  <2>2. ShownConflictWaits' /\ QueueInv' /\ (Live' => Live) /\ \A f \in 1..Files : Fresh(f)' => Fresh(f)
    BY <1>5, <2>1, WaiterShown DEF CheckDecision, WaitPcs
  <2>3. TurnInv'
    BY <1>2, <1>5, <2>1, <2>2 DEF TurnInv, Moves, CheckDecision
  <2>4. WindowInv' /\ ProtocolInv'
    BY <1>2, <1>5, <2>2, EchoWindow, EchoProtocol DEF CheckDecision, Echoed
  <2> QED
    BY <2>2, <2>3, <2>4 DEF AnswersInv, ConflictInv
<1> QED
  BY <1>3, <1>4, <1>5 DEF CheckDecision

LEMMA WakeAnswers ==
  ASSUME SummaryInv, AnswersInv, NEW w \in Workers, Wake(w)
  PROVE  AnswersInv'
<1> USE DEF SummaryInv
<1>1. PICK r \in Jobs : /\ Moves(w, r) /\ r.pc \in {"decided", "wait"} /\ r.file = worker[w].file
                        /\ r.pc = "decided" => ~session
  <2>1. CASE ~session /\ Decide(w, "cancel")
    BY <2>1, DecideStep DEF Results, Decisions
  <2>2. CASE Go(w, "wait")
    BY <2>2, GoStep DEF WorkerPcs
  <2> QED
    BY <2>1, <2>2 DEF Wake
<1>2. ShownConflictWaits' /\ QueueInv' /\ (Live' => Live) /\ \A f \in 1..Files : Fresh(f)' => Fresh(f)
  BY <1>1, WaiterShown DEF Wake, WaitPcs
<1>3. TurnInv /\ WindowInv /\ ProtocolInv
  BY DEF AnswersInv, ConflictInv
<1>4. TurnInv'
  <2>1. Live' => session
    BY DEF Live, Wake
  <2> QED
    BY <1>1, <1>2, <1>3, <2>1 DEF TurnInv, Moves, Wake
<1>5. WindowInv' /\ ProtocolInv'
  BY <1>2, <1>3, EchoWindow, EchoProtocol DEF Wake, Echoed
<1> QED
  BY <1>2, <1>4, <1>5 DEF AnswersInv, ConflictInv

\* The channel after a summary that may say something else.
LEMMA SentIs ==
  ASSUME TypeOK, NEW s \in Summaries, Send(s)
  PROVE  /\ Len(channel) \in Nat /\ Len(channel') \in {Len(channel), Len(channel) + 1}
         /\ \A i \in 1..Len(channel) : channel'[i] = channel[i]
         /\ Len(channel') = Len(channel) + 1 => ui.attached /\ channel'[Len(channel) + 1] = Event(s)
         /\ channel' # channel => ui.attached
<1>1. channel \in Seq(Events) /\ Event(s) \in Events
  BY DEF Event, Events, Summaries, TypeOK
<1>2. Len(channel) \in Nat
  BY <1>1, LenProperties
<1>3. CASE channel' = channel
  BY <1>2, <1>3
<1>4. CASE ui.attached /\ channel' = Append(channel, Event(s))
  BY <1>1, <1>2, <1>4, AppendProperties
<1> QED
  BY <1>3, <1>4 DEF Send

\* Nobody waits, so there is no decision either, and no call on its way.
LEMMA NobodyWaits ==
  ASSUME TypeOK, AnswersInv, Live, summary.state = "running" \/ \A w \in Workers : ~Waits(w)
  PROVE  summary.state # "waiting" /\ decision = NoDecision /\ call.at # "sent"
<1>1. TurnInv /\ AnswerInv
  BY DEF AnswersInv, ConflictInv, ProtocolInv
<1>2. summary.state # "waiting"
  BY <1>1 DEF TurnInv, Waits
<1>3. decision = NoDecision
  BY <1>1, <1>2 DEF TurnInv
<1> QED
  BY <1>1, <1>2, <1>3 DEF AnswerInv, Answers

\* A conflict is withdrawn, after its decision or because the batch ends.
LEMMA WithdrawnProtocol ==
  ASSUME TypeOK, AnswersInv, NEW s \in Summaries, summary' = s, Send(s), UNCHANGED <<decision, ui, call>>,
         s.conflict = NoFile, s.state # "waiting", Live' => Live,
         Live => summary.state # "waiting" /\ decision = NoDecision /\ call.at # "sent",
         \A f \in 1..Files : Fresh(f)' => Fresh(f)
  PROVE  WindowInv' /\ ProtocolInv'
<1>1. WindowInv'
  BY SentIs DEF AnswersInv, WindowInv
<1> SUFFICES ASSUME Live'
             PROVE  AnswerInv'
  BY <1>1 DEF ProtocolInv
<1> DEFINE n == Len(channel)
           e == Event(s)
<1>2. AnswerInv /\ summary.state # "waiting" /\ decision = NoDecision /\ call.at # "sent"
  BY DEF AnswersInv, ProtocolInv
<1>3. e.state = s.state /\ e.conflict = NoFile /\ e.state # "waiting"
  BY DEF Event
<1>4. /\ n \in Nat /\ Len(channel') \in {n, n + 1} /\ \A i \in 1..n : channel'[i] = channel[i]
      /\ Len(channel') = n + 1 => channel'[n + 1] = e
  BY SentIs
<1> HIDE DEF n, e
<1>5. \A i \in 1..Len(channel') : (i \in 1..n /\ channel'[i] = channel[i]) \/ channel'[i] = e
  BY <1>4
<1>6. \A c : ~Undecided(c) /\ ~Undecided(c)'
  BY <1>2 DEF Undecided
<1>7. FreshUnseen'
  <2>1. ASSUME NEW f \in 1..Files, Fresh(f)
        PROVE  /\ f # ui.latest /\ f # ui.handled /\ f # ui.key
               /\ \A i \in 1..n : channel[i].conflict # f
    BY <1>2, <2>1 DEF AnswerInv, FreshUnseen, n
  <2>2. \A f \in 1..Files : f # NoFile
    BY FilesAssumption DEF NoFile
  <2> QED
    BY <1>3, <1>5, <2>1, <2>2 DEF FreshUnseen
<1>8. NamesFiles'
  <2>1. \A i \in 1..n : channel[i].state = "waiting" => channel[i].conflict \in 1..Files
    BY <1>2 DEF AnswerInv, NamesFiles, n
  <2> QED
    BY <1>3, <1>5, <2>1 DEF NamesFiles
<1>9. Questions'
  BY <1>2, <1>6 DEF AnswerInv, Questions
<1>10. EventsTrue'
  <2> SUFFICES ASSUME NEW i \in 1..Len(channel'), channel'[i].state = "waiting"
               PROVE  ui.handled = channel'[i].conflict /\ \A j \in 1..i : channel'[j] = channel'[i]
    BY DEF EventsTrue
  <2>1. i \in 1..n /\ channel'[i] = channel[i]
    BY <1>3, <1>5
  <2>2. ui.handled = channel[i].conflict /\ \A j \in 1..i : channel[j] = channel[i]
    BY <1>2, <1>6, <2>1 DEF AnswerInv, EventsTrue, n
  <2> QED
    BY <1>4, <2>1, <2>2
<1>11. EventsLast' /\ Answers'
  BY <1>2 DEF AnswerInv, EventsLast, Answers
<1> QED
  BY <1>7, <1>8, <1>9, <1>10, <1>11 DEF AnswerInv

LEMMA WithdrawAnswers ==
  ASSUME SummaryInv, AnswersInv, NEW w \in Workers, Withdraw(w)
  PROVE  AnswersInv'
<1> USE DEF SummaryInv
<1> DEFINE s == [summary EXCEPT !.conflict = NoFile]
<1>1. PICK r \in Jobs : /\ Moves(w, r) /\ r.pc \in {"transfer", "account", "stop"} /\ r.file = worker[w].file
                        /\ r.over <=> worker[w].result = "overwrite"
                        /\ r.pc = "transfer" <=> worker[w].result = "overwrite"
  BY WithdrawMoves
<1>2. s \in Summaries /\ s.state = summary.state /\ s.conflict = NoFile
  <2>1. summary \in Summaries /\ NoFile \in 0..Files
    BY FilesAssumption DEF TypeOK, NoFile
  <2> QED
    BY <2>1 DEF Summaries
<1>3. summary' = s /\ Send(s)
  BY DEF Withdraw, Update
<1> HIDE DEF s
<1>4. ShownConflictWaits /\ QueueInv /\ TurnInv
  BY DEF AnswersInv, ConflictInv
<1>5. \A v \in Workers \ {w} : ~Waits(v)
  <2>1. lock = {w}
    BY <1>4 DEF ShownConflictWaits, Waits, Withdraw
  <2> QED
    BY <1>4, <2>1 DEF ShownConflictWaits
<1>6. \A v \in Workers : ~Waits(v)'
  BY <1>1, <1>5 DEF Waits, Moves
<1>7. ShownConflictWaits'
  BY <1>2, <1>3, <1>6 DEF ShownConflictWaits
<1>8. QueueInv'
  BY <1>1, <1>4, QuietQueue DEF Withdraw, IdlePcs, Busy
<1>9. Live' => Live
  BY <1>1 DEF Live, NoPanic, Moves, Withdraw
<1>10. Live => summary.state = "running"
  BY <1>4 DEF TurnInv, Withdraw
<1>11. Live => summary.state # "waiting" /\ decision = NoDecision /\ call.at # "sent"
  BY <1>10, NobodyWaits
<1>12. TurnInv'
  BY <1>2, <1>3, <1>6, <1>9, <1>11 DEF TurnInv, Waits, Withdraw
<1>13. \A f \in 1..Files : Fresh(f)' => Fresh(f)
  BY <1>1 DEF Fresh, Ahead, Moves, Withdraw
<1>14. WindowInv' /\ ProtocolInv'
  <2>1. CASE s.state # "waiting"
    BY <1>2, <1>3, <1>9, <1>11, <1>13, <2>1, WithdrawnProtocol DEF Withdraw
  <2>2. CASE s.state = "waiting"
    <3>1. ~Live'
      BY <1>2, <1>9, <1>10, <2>2
    <3>2. WindowInv'
      BY <1>2, <1>3, SentIs DEF AnswersInv, WindowInv, Withdraw
    <3> QED
      BY <3>1, <3>2 DEF ProtocolInv
  <2> QED
    BY <2>1, <2>2
<1> QED
  BY <1>7, <1>8, <1>12, <1>14 DEF AnswersInv, ConflictInv

LEMMA EndAnswers ==
  ASSUME SummaryInv, AnswersInv, End
  PROVE  AnswersInv'
<1> USE DEF SummaryInv
<1> DEFINE st == IF cancelled /\ ~failedWorker THEN "cancelled"
                 ELSE IF failedWorker \/ summary.failed = Files THEN "failed" ELSE "completed"
           s == [summary EXCEPT !.queued = 0, !.active = 0, !.conflict = NoFile, !.state = st]
<1>1. st \in {"cancelled", "failed", "completed"} /\ 0 \in 0..Files /\ NoFile = 0
  BY FilesAssumption DEF NoFile
<1> HIDE DEF st
<1>2. s \in Summaries /\ s.state = st /\ s.conflict = NoFile
  BY <1>1 DEF TypeOK, Summaries, States
<1>3. summary' = s /\ Send(s)
  BY DEF End, Update, st
<1> HIDE DEF s
<1>4. \A v \in Workers : ~Waits(v)
  BY DEF End, Waits
<1>5. ShownConflictWaits'
  BY <1>2, <1>3, <1>4 DEF ShownConflictWaits, Waits, End
<1>6. QueueInv'
  BY DEF AnswersInv, ConflictInv, QueueInv, End, Busy
<1>7. (Live' => Live) /\ \A f \in 1..Files : Fresh(f)' => Fresh(f)
  BY DEF Live, NoPanic, End, Fresh, Ahead
<1>8. Live => summary.state # "waiting" /\ decision = NoDecision /\ call.at # "sent"
  BY <1>4, NobodyWaits
<1>9. TurnInv'
  BY <1>1, <1>2, <1>3, <1>4, <1>7, <1>8 DEF TurnInv, Waits, End
<1>10. WindowInv' /\ ProtocolInv'
  BY <1>1, <1>2, <1>3, <1>7, <1>8, WithdrawnProtocol DEF End
<1> QED
  BY <1>5, <1>6, <1>9, <1>10 DEF AnswersInv, ConflictInv

LEMMA PanicAnswers ==
  ASSUME SummaryInv, AnswersInv, NEW w \in Workers, Panic(w)
  PROVE  AnswersInv'
<1> USE DEF SummaryInv
<1>1. PICK r \in Jobs : Moves(w, r) /\ r.pc = "panicked" /\ r.file = worker[w].file
  BY GoStep DEF Panic, WorkerPcs
<1>2. ~NoPanic' /\ ~Live'
  BY <1>1 DEF Live, NoPanic, Moves
<1>3. ShownConflictWaits'
  <2>1. \A v \in Workers : Waits(v)' => v # w /\ Waits(v) /\ worker'[v].file = worker[v].file
    BY <1>1 DEF Waits, Moves
  <2>2. \A v \in Workers : Waits(v) => lock = {v} /\ summary.conflict = worker[v].file
    BY DEF AnswersInv, ConflictInv, ShownConflictWaits
  <2>3. lock' = lock \ {w} /\ summary' = summary
    BY DEF Panic
  <2> QED
    BY <1>2, <2>1, <2>2, <2>3 DEF ShownConflictWaits, NoPanic
<1>4. QueueInv'
  BY <1>1, QuietQueue DEF AnswersInv, ConflictInv, Panic, IdlePcs, Busy
<1>5. WindowInv'
  BY EchoWindow DEF AnswersInv, Panic, Echoed
<1> QED
  BY <1>2, <1>3, <1>4, <1>5 DEF AnswersInv, ConflictInv, TurnInv, ProtocolInv

LEMMA JoinAnswers ==
  ASSUME SummaryInv, AnswersInv, NEW w \in Workers, Join(w)
  PROVE  AnswersInv'
<1> USE DEF SummaryInv
<1> DEFINE s == [summary EXCEPT !.failed = @ + 1]
<1>1. s.state = summary.state /\ s.conflict = summary.conflict
  BY DEF TypeOK, Summaries
<1>2. summary' = s /\ Send(s)
  BY DEF Join, Update
<1> HIDE DEF s
<1>3. ~Live'
  BY DEF Live, Join
<1>4. ShownConflictWaits'
  BY <1>1, <1>2 DEF AnswersInv, ConflictInv, ShownConflictWaits, Waits, Join
<1>5. QueueInv'
  BY DEF AnswersInv, ConflictInv, QueueInv, Join, Busy
<1>6. WindowInv'
  BY <1>1, <1>2, SendEchoes, EchoWindow DEF AnswersInv, Join
<1> QED
  BY <1>3, <1>4, <1>5, <1>6 DEF AnswersInv, ConflictInv, TurnInv, ProtocolInv

LEMMA ShowConflictAnswers ==
  ASSUME SummaryInv, AnswersInv, NEW w \in Workers, ShowConflict(w)
  PROVE  AnswersInv'
<1> USE DEF SummaryInv
<1>1. CASE cancelled
  <2>1. Go(w, "stop") /\ UNCHANGED <<lock, summary, channel>>
    BY <1>1 DEF ShowConflict, Go
  <2>2. PICK r \in Jobs : Moves(w, r) /\ r.pc = "stop" /\ r.file = worker[w].file
    BY <2>1, GoStep DEF WorkerPcs
  <2> QED
    BY <2>1, <2>2, QuietAnswers DEF ShowConflict, WaitPcs, Echoed, Busy
<1>2. CASE ~cancelled
  <2> DEFINE f0 == worker[w].file
             s  == [summary EXCEPT !.state = "waiting", !.conflict = f0]
             e  == Event(s)
             n  == Len(channel)
  <2>1. f0 \in 1..Files /\ f0 \in 0..Files /\ f0 # NoFile
    BY FileInHand, FilesAssumption DEF ShowConflict, Busy, NoFile
  <2>2. s \in Summaries /\ s.state = "waiting" /\ s.conflict = f0
    <3>1. "waiting" \in States
      BY DEF States
    <3> QED
      BY <2>1, <3>1, ShownAs
  <2>3. lock' = {w} /\ summary' = s /\ Send(s) /\ Go(w, "wait")
    BY <1>2 DEF ShowConflict, Update
  <2>4. PICK r \in Jobs : Moves(w, r) /\ r.pc = "wait" /\ r.file = f0
    BY <2>3, GoStep DEF WorkerPcs
  <2> HIDE DEF s
  <2>5. e.state = "waiting" /\ e.conflict = f0 /\ Event(summary)' = e
    BY <2>2, <2>3 DEF Event
  <2>6. ShownConflictWaits /\ QueueInv /\ TurnInv /\ WindowInv /\ ProtocolInv
    BY DEF AnswersInv, ConflictInv
  <2>7. \A v \in Workers : ~Waits(v)
    BY <2>6 DEF ShownConflictWaits, ShowConflict
  <2>8. ShownConflictWaits'
    <3>1. \A v \in Workers : Waits(v)' <=> v = w
      BY <2>4, <2>7 DEF Waits, Moves
    <3> QED
      BY <2>2, <2>3, <2>4, <3>1 DEF ShownConflictWaits, Moves
  <2>9. QueueInv'
    BY <2>4, <2>6, QuietQueue DEF ShowConflict, IdlePcs, Busy
  <2>10. (Live' => Live) /\ (Live => summary.state # "waiting" /\ decision = NoDecision /\ call.at # "sent")
    BY <2>4, <2>7, NobodyWaits DEF Live, NoPanic, Moves, ShowConflict
  <2>11. TurnInv'
    <3>1. \A v \in Workers : worker'[v].pc # "decided"
      BY <2>4, <2>7 DEF Waits, Moves
    <3>2. worker'[w].pc = "wait" /\ summary'.state = "waiting"
      BY <2>2, <2>3, <2>4 DEF Moves
    <3> QED
      BY <3>1, <3>2 DEF TurnInv
  <2>12. /\ n \in Nat /\ Len(channel') \in {n, n + 1} /\ \A i \in 1..n : channel'[i] = channel[i]
         /\ Len(channel') = n + 1 => channel'[n + 1] = e
         /\ channel' # channel => ui.attached
    BY <2>2, <2>3, SentIs
  <2> HIDE DEF n, e
  <2>13. \A i \in 1..Len(channel') : (i \in 1..n /\ channel'[i] = channel[i])
                                    \/ (i = Len(channel') /\ channel'[i] = e)
    BY <2>12
  <2>14. WindowInv'
    BY <2>6, <2>12 DEF WindowInv, ShowConflict
  <2>15. ASSUME Live'
         PROVE  AnswerInv'
    <3>1. AnswerInv /\ summary.state # "waiting" /\ decision = NoDecision /\ call.at # "sent"
      BY <2>6, <2>10, <2>15 DEF ProtocolInv
    <3>2. UNCHANGED <<queue, decision, ui, call>> /\ summary'.state = "waiting" /\ summary'.conflict = f0
      BY <2>2, <2>3 DEF ShowConflict
    <3>3. ASSUME NEW f \in 1..Files, Fresh(f)
          PROVE  /\ f # summary.conflict /\ f # ui.latest /\ f # ui.handled /\ f # ui.key
                 /\ \A i \in 1..n : channel[i].conflict # f
      BY <3>1, <3>3 DEF AnswerInv, FreshUnseen, n
    <3>4. Fresh(f0)
      BY DEF Fresh, Ahead, ShowConflict
    <3>5. ASSUME NEW f \in 1..Files, Fresh(f)'
          PROVE  Fresh(f) /\ f # f0
      <4>1. CASE f \in Files - Len(queue') + 1..Files
        <5>1. f0 \in 1..Files - Len(queue)
          BY <2>6 DEF QueueInv, ShowConflict, Busy
        <5>2. Len(queue) \in Nat /\ Files \in Nat
          BY FilesAssumption, LenProperties DEF TypeOK
        <5>3. f # f0
          BY <3>2, <4>1, <5>1, <5>2
        <5> QED
          BY <3>2, <4>1, <5>3 DEF Fresh
      <4>2. ASSUME NEW v \in Workers, Ahead(v, f)' PROVE Fresh(f) /\ f # f0
        <5>1. v # w /\ worker'[v] = worker[v]
          BY <2>4, <4>2 DEF Ahead, Moves
        <5>2. Ahead(v, f)
          BY <4>2, <5>1 DEF Ahead
        <5>3. f # f0
          BY <2>6, <5>1, <5>2 DEF QueueInv, Ahead, Busy, ShowConflict
        <5> QED
          BY <5>2, <5>3 DEF Fresh
      <4> QED
        BY <3>5, <4>1, <4>2 DEF Fresh
    <3>6. /\ f0 # ui.latest /\ f0 # ui.handled /\ f0 # ui.key
          /\ \A i \in 1..n : channel[i].conflict # f0
      BY <2>1, <3>3, <3>4
    <3>7. FreshUnseen'
      BY <2>5, <2>13, <3>2, <3>3, <3>5 DEF FreshUnseen
    <3>8. NamesFiles'
      <4>1. \A i \in 1..n : channel[i].state = "waiting" => channel[i].conflict \in 1..Files
        BY <3>1 DEF AnswerInv, NamesFiles, n
      <4> QED
        BY <2>1, <2>5, <2>13, <3>2, <4>1 DEF NamesFiles
    <3>9. \A c : ~Undecided(c)
      BY <3>1 DEF Undecided
    <3>10. \A c : Undecided(c)' <=> c = f0
      BY <3>1, <3>2 DEF Undecided
    <3>11. Questions'
      BY <3>1, <3>2, <3>9 DEF AnswerInv, Questions
    <3>12. EventsTrue'
      <4> SUFFICES ASSUME NEW i \in 1..Len(channel'), channel'[i].state = "waiting"
                   PROVE  \/ channel'[i].conflict = f0
                          \/ ui.handled = channel'[i].conflict /\ \A j \in 1..i : channel'[j] = channel'[i]
        BY <3>2, <3>10 DEF EventsTrue
      <4>1. CASE i \in 1..n /\ channel'[i] = channel[i]
        <5>1. ui.handled = channel[i].conflict /\ \A j \in 1..i : channel[j] = channel[i]
          BY <3>1, <3>9, <4>1 DEF AnswerInv, EventsTrue, n
        <5> QED
          BY <2>12, <4>1, <5>1
      <4>2. CASE channel'[i] = e
        BY <2>5, <4>2
      <4> QED
        BY <2>13, <4>1, <4>2
    <3>13. EventsLast'
      <4>1. \A i \in 1..Len(channel') : channel'[i] = e => i = Len(channel')
        BY <2>5, <2>13, <3>6
      <4>2. Len(channel') \in Nat
        BY <2>12
      <4>3. \A i, j \in 1..Len(channel') : i <= j /\ channel'[i] = e => channel'[j] = e
        BY <4>1, <4>2
      <4> QED
        BY <2>5, <3>2, <3>6, <4>3 DEF EventsLast
    <3>14. Answers'
      BY <3>1, <3>2, <3>6 DEF AnswerInv, Answers
    <3> QED
      BY <3>7, <3>8, <3>11, <3>12, <3>13, <3>14 DEF AnswerInv
  <2> QED
    BY <2>8, <2>9, <2>11, <2>14, <2>15 DEF AnswersInv, ConflictInv, ProtocolInv
<1> QED
  BY <1>1, <1>2

\* The steps of the program that change nothing the answers are about.
LEMMA AsideAnswers ==
  ASSUME SummaryInv, AnswersInv, Cancel \/ LoseSession \/ OthersTake \/ OthersGive
  PROVE  AnswersInv'
<1> USE DEF SummaryInv
<1>1. /\ UNCHANGED <<worker, lock, queue, summary, decision, ui, channel, call>>
      /\ (session' => session) /\ (cancelled => cancelled')
  <2>1. CASE Cancel
    BY <2>1 DEF Cancel
  <2>2. CASE LoseSession
    BY <2>2 DEF LoseSession, TypeOK
  <2>3. CASE OthersTake
    BY <2>3 DEF OthersTake
  <2>4. CASE OthersGive
    BY <2>4 DEF OthersGive
  <2> QED
    BY <2>1, <2>2, <2>3, <2>4
<1>2. ConflictInv' /\ (Live' => Live)
  BY <1>1, QuietProgram DEF AnswersInv
<1>3. WindowInv'
  BY <1>1, EchoWindow DEF AnswersInv, Echoed
<1>4. \A f \in 1..Files : Fresh(f)' => Fresh(f)
  BY <1>1 DEF Fresh, Ahead
<1>5. ProtocolInv'
  BY <1>1, <1>2, <1>4, EchoProtocol DEF AnswersInv, Echoed
<1> QED
  BY <1>2, <1>3, <1>5 DEF AnswersInv

LEMMA ServeCallAnswers ==
  ASSUME SummaryInv, AnswersInv, ServeCall
  PROVE  AnswersInv'
<1> USE DEF SummaryInv
<1>1. ShownConflictWaits /\ QueueInv /\ TurnInv /\ WindowInv /\ ProtocolInv
  BY DEF AnswersInv, ConflictInv
<1>2. UNCHANGED <<queue, worker, lock, summary, cancelled, session, ui, channel>>
  BY DEF ServeCall
<1>3. /\ call'.at \in {"accepted", "refused"} /\ call'.decision = call.decision
      /\ Accepts => call'.at = "accepted"
  BY DEF ServeCall, TypeOK, Calls
<1>4. decision' = IF Accepts THEN call.decision ELSE decision
  BY DEF ServeCall
<1>5. ShownConflictWaits' /\ QueueInv' /\ Live' = Live
  BY <1>1, <1>2 DEF ShownConflictWaits, Waits, QueueInv, Busy, Live, NoPanic
<1>6. TurnInv'
  BY <1>1, <1>2, <1>4, <1>5 DEF TurnInv, Accepts
<1>7. WindowInv'
  BY <1>1, <1>2, <1>3 DEF WindowInv, ServeCall
<1>8. ASSUME Live'
      PROVE  AnswerInv'
  <2>1. AnswerInv
    BY <1>1, <1>5, <1>8 DEF ProtocolInv
  <2>2. summary.state = "waiting" /\ decision = NoDecision /\ call.decision # NoDecision
        /\ ~ui.asking /\ (ui.open => ui.key = summary.conflict)
    BY <1>1, <2>1 DEF AnswerInv, Answers, WindowInv, ServeCall
  <2>3. call'.at = "accepted" /\ decision' = call.decision /\ decision' # NoDecision
    BY <1>3, <1>4, <2>2 DEF Accepts
  <2>4. ui.open => ui.handled = summary.conflict /\ ui.latest = summary.conflict
    BY <2>1, <2>2 DEF AnswerInv, Answers
  <2>5. FreshUnseen' /\ NamesFiles' /\ EventsLast'
    BY <1>2, <2>1 DEF AnswerInv, FreshUnseen, Fresh, Ahead, NamesFiles, EventsLast, Event
  <2>6. Questions'
    <3>1. ~(ui.latest # NoFile /\ ui.handled # ui.latest)
      BY <1>1, <2>4 DEF WindowInv
    <3> QED
      BY <1>2, <2>2, <3>1 DEF Questions
  <2>7. EventsTrue'
    <3> SUFFICES ASSUME NEW i \in 1..Len(channel), channel[i].state = "waiting"
                 PROVE  ui.handled = channel[i].conflict /\ \A j \in 1..i : channel[j] = channel[i]
      BY <1>2 DEF EventsTrue
    <3>1. CASE ui.handled = channel[i].conflict /\ \A j \in 1..i : channel[j] = channel[i]
      BY <3>1
    <3>2. CASE Undecided(channel[i].conflict)
      <4>1. channel # <<>> /\ Len(channel) \in Nat
        BY LenProperties DEF TypeOK
      <4>2. ui.handled = summary.conflict /\ ui.latest = summary.conflict
        BY <1>1, <2>4, <4>1 DEF WindowInv
      <4>3. \A j \in 1..Len(channel) : channel[j] = Event(summary)
        BY <2>1, <2>2, <4>2 DEF AnswerInv, EventsLast
      <4>4. Event(summary).conflict = summary.conflict
        BY EventIs
      <4> QED
        BY <4>1, <4>2, <4>3, <4>4
    <3> QED
      BY <2>1, <3>1, <3>2 DEF AnswerInv, EventsTrue
  <2>8. Answers'
    BY <1>2, <2>3, <2>4 DEF Answers
  <2> QED
    BY <2>5, <2>6, <2>7, <2>8 DEF AnswerInv
<1> QED
  BY <1>5, <1>6, <1>7, <1>8 DEF AnswersInv, ConflictInv, ProtocolInv

\* What no step of the window changes.
LEMMA WindowFrame ==
  ASSUME SummaryInv, AnswersInv,
         UNCHANGED <<queue, worker, lock, summary, decision, cancelled, session>>
  PROVE  /\ ConflictInv' /\ (Live' <=> Live) /\ WindowInv /\ (Live => AnswerInv)
         /\ \A f \in 1..Files : Fresh(f)' <=> Fresh(f)
         /\ \A c : Undecided(c)' <=> Undecided(c)
         /\ Event(summary)' = Event(summary)
<1>1. ConflictInv'
  BY QuietProgram DEF AnswersInv, SummaryInv
<1>2. (Live' <=> Live) /\ \A c : Undecided(c)' <=> Undecided(c)
  BY DEF Live, NoPanic, Undecided
<1>3. \A f \in 1..Files : Fresh(f)' <=> Fresh(f)
  BY DEF Fresh, Ahead
<1> QED
  BY <1>1, <1>2, <1>3 DEF AnswersInv, ProtocolInv, Event

LEMMA LoseWindowAnswers ==
  ASSUME SummaryInv, AnswersInv, LoseWindow
  PROVE  AnswersInv'
<1>1. UNCHANGED <<queue, worker, lock, summary, decision, cancelled, session, call>> /\ channel' = <<>>
  BY DEF LoseWindow
<1>2. /\ ui' \in Uis /\ ui'.open = FALSE /\ ui'.attached = FALSE /\ ui'.latest = NoFile
      /\ ui'.handled = NoFile /\ ui'.key = NoFile /\ ui'.asking = FALSE /\ ui'.ended = FALSE
  BY ClosedIs DEF LoseWindow, SummaryInv
<1>3. /\ ConflictInv' /\ (Live' <=> Live) /\ WindowInv /\ (Live => AnswerInv)
      /\ \A f \in 1..Files : Fresh(f)' <=> Fresh(f)
  BY <1>1, WindowFrame
<1>4. WindowInv'
  BY <1>1, <1>2, <1>3 DEF WindowInv
<1>5. ASSUME Live'
      PROVE  AnswerInv'
  <2>1. AnswerInv
    BY <1>3, <1>5
  <2>2. \A f \in 1..Files : f # NoFile
    BY FilesAssumption DEF NoFile
  <2>3. Len(channel') = 0
    BY <1>1
  <2>4. FreshUnseen' /\ NamesFiles'
    BY <1>1, <1>2, <1>3, <2>1, <2>2, <2>3 DEF AnswerInv, FreshUnseen, NamesFiles
  <2>5. Questions' /\ EventsTrue' /\ EventsLast'
    BY <1>2, <2>3 DEF Questions, EventsTrue, EventsLast
  <2>6. Answers'
    BY <1>1, <1>2, <2>1 DEF AnswerInv, Answers
  <2> QED
    BY <2>4, <2>5, <2>6 DEF AnswerInv
<1> QED
  BY <1>3, <1>4, <1>5 DEF AnswersInv, ProtocolInv

LEMMA AttachAnswers ==
  ASSUME SummaryInv, AnswersInv, Attach
  PROVE  AnswersInv'
<1> DEFINE e == Event(summary)
<1>1. UNCHANGED <<queue, worker, lock, summary, decision, cancelled, session, call>> /\ channel' = <<e>>
  BY DEF Attach
<1>2. /\ ui'.open = ui.open /\ ui'.attached = TRUE /\ ui'.latest = ui.latest /\ ui'.handled = ui.handled
      /\ ui'.key = ui.key /\ ui'.asking = ui.asking /\ ui'.ended = ui.ended
  BY DEF Attach, SummaryInv, TypeOK, Uis
<1>3. e.state = summary.state /\ e.conflict = summary.conflict
  BY EventIs DEF SummaryInv
<1> HIDE DEF e
<1>4. /\ ConflictInv' /\ (Live' <=> Live) /\ WindowInv /\ (Live => AnswerInv)
      /\ \A f \in 1..Files : Fresh(f)' <=> Fresh(f)
      /\ \A c : Undecided(c)' <=> Undecided(c)
      /\ Event(summary)' = e
  BY <1>1, WindowFrame DEF e
<1>5. Len(channel') = 1 /\ channel'[1] = e
  BY <1>1
<1>6. WindowInv'
  BY <1>1, <1>2, <1>4 DEF WindowInv, Attach
<1>7. ASSUME Live'
      PROVE  AnswerInv'
  <2>1. AnswerInv
    BY <1>4, <1>7
  <2>2. FreshUnseen' /\ NamesFiles'
    BY <1>1, <1>2, <1>3, <1>4, <1>5, <2>1 DEF AnswerInv, FreshUnseen, NamesFiles
  <2>3. Questions'
    BY <1>2, <1>4, <2>1 DEF AnswerInv, Questions
  <2>4. EventsTrue'
    <3>1. CASE decision = NoDecision
      BY <1>1, <1>3, <1>5, <3>1 DEF EventsTrue, Undecided
    <3>2. CASE decision # NoDecision
      <4>1. summary.state = "waiting" => ui.handled = summary.conflict
        BY <2>1, <3>2 DEF AnswerInv, Answers, Attach
      <4> QED
        BY <1>2, <1>3, <1>5, <4>1 DEF EventsTrue
    <3> QED
      BY <3>1, <3>2
  <2>5. EventsLast'
    BY <1>4, <1>5 DEF EventsLast
  <2>6. Answers'
    BY <1>1, <1>2, <2>1 DEF AnswerInv, Answers
  <2> QED
    BY <2>2, <2>3, <2>4, <2>5, <2>6 DEF AnswerInv
<1> QED
  BY <1>4, <1>6, <1>7 DEF AnswersInv, ProtocolInv

LEMMA OpenWindowAnswers ==
  ASSUME SummaryInv, AnswersInv, OpenWindow
  PROVE  AnswersInv'
<1> DEFINE e == Event(summary)
           v == Noted(Opened, e)
           asks == e.state = "waiting"
<1>1. UNCHANGED <<queue, worker, lock, summary, decision, cancelled, session, call, channel>>
      /\ ui' = Apply(Opened, e) /\ ~ui.open /\ call = NoCall /\ decision = NoDecision
  BY DEF OpenWindow, Opened
<1>2. /\ ConflictInv' /\ (Live' <=> Live) /\ WindowInv /\ (Live => AnswerInv)
      /\ \A f \in 1..Files : Fresh(f)' <=> Fresh(f)
      /\ \A c : Undecided(c)' <=> Undecided(c)
  BY <1>1, WindowFrame
<1>3. e \in Events /\ e.state = summary.state /\ e.conflict = summary.conflict
  BY EventIs DEF SummaryInv
<1>4. /\ Opened \in Uis /\ Opened.open = TRUE /\ Opened.attached = FALSE /\ Opened.latest = NoFile
      /\ Opened.handled = NoFile /\ Opened.key = NoFile /\ ~Opened.asking /\ ~Opened.ended
  <2>1. ui.opened < MaxWindows
    BY DEF OpenWindow
  <2>2. /\ ui.latest = NoFile /\ ui.handled = NoFile /\ ui.key = NoFile
        /\ ~ui.attached /\ ~ui.ended /\ ~ui.asking
    BY <1>1, <1>2 DEF WindowInv
  <2>3. ui.attached \in BOOLEAN
    BY DEF SummaryInv, TypeOK, Uis
  <2> QED
    BY <2>1, <2>2, <2>3, OpenedIs DEF SummaryInv
<1> HIDE DEF e
<1>5. /\ v \in Uis /\ v.open = TRUE /\ v.attached = FALSE /\ v.key = NoFile /\ ~v.asking
      /\ v.latest = Latest(e) /\ v.handled = NoFile
      /\ v.ended <=> e.state \in {"completed", "cancelled", "failed"}
  BY <1>3, <1>4, NotedIs
<1>6. ui' = Settle(v)
  BY <1>1, <1>3, <1>4, ApplyIs
<1> HIDE DEF v
<1>7. /\ ui'.open = TRUE /\ ui'.attached = FALSE /\ ui'.latest = Latest(e)
      /\ asks => ui'.key = Latest(e) /\ ui'.handled = Latest(e) /\ ui'.asking = TRUE /\ Latest(e) # NoFile
      /\ ~asks => ui'.key = NoFile /\ ui'.handled = NoFile /\ ~ui'.asking /\ Latest(e) = NoFile
  <2>1. (asks <=> Latest(e) # NoFile) /\ (asks => ~v.ended)
    <3>1. e.state \in States /\ e.conflict \in 0..Files /\ Files + 1 # 0
      BY <1>3, FilesAssumption DEF Events
    <3>2. asks => Latest(e) # NoFile /\ ~v.ended
      BY <1>5, <3>1 DEF Latest, NoFile, Unnamed
    <3>3. ~asks => Latest(e) = NoFile
      BY DEF Latest
    <3> QED
      BY <3>2, <3>3
  <2>2. ui'.open = TRUE /\ ui'.attached = FALSE /\ ui'.latest = Latest(e)
    BY <1>5, <1>6, SettleIs
  <2>3. asks => ~(v.latest = NoFile \/ v.key # NoFile \/ v.ended \/ v.handled = v.latest)
    BY <1>5, <2>1
  <2>4. ~asks => v.latest = NoFile
    BY <1>5, <2>1
  <2> HIDE DEF asks
  <2>5. asks => ui'.key = Latest(e) /\ ui'.handled = Latest(e) /\ ui'.asking = TRUE
    BY <1>5, <1>6, <2>3, SettleIs
  <2>6. ~asks => ui' = v
    BY <1>5, <1>6, <2>4, SettleIs
  <2> QED
    BY <1>5, <2>1, <2>2, <2>5, <2>6
<1>8. channel = <<>>
  BY <1>1, <1>2 DEF WindowInv
<1>9. WindowInv'
  BY <1>1, <1>7, <1>8 DEF WindowInv, NoCall
<1>10. ASSUME Live'
       PROVE  AnswerInv'
  <2>1. AnswerInv
    BY <1>2, <1>10
  <2>2. asks => Latest(e) = summary.conflict /\ summary.conflict \in 1..Files /\ summary.state = "waiting"
    BY <1>3, <2>1, FilesAssumption DEF AnswerInv, NamesFiles, Latest, NoFile
  <2>3. ~asks => summary.state # "waiting"
    BY <1>3
  <2>4. Len(channel') = 0
    BY <1>1, <1>8
  <2>5. FreshUnseen'
    <3>1. \A f \in 1..Files : Fresh(f) => f # summary.conflict /\ f # NoFile
      BY <2>1, FilesAssumption DEF AnswerInv, FreshUnseen, NoFile
    <3> QED
      BY <1>1, <1>2, <1>7, <2>2, <2>4, <3>1 DEF FreshUnseen
  <2>6. NamesFiles' /\ EventsTrue' /\ EventsLast'
    BY <1>1, <2>1, <2>4 DEF AnswerInv, NamesFiles, EventsTrue, EventsLast
  <2>7. Questions'
    BY <1>1, <1>7, <2>2 DEF Questions, Undecided
  <2>8. Answers'
    BY <1>1, <1>7, <2>2, <2>3 DEF Answers, NoCall
  <2> QED
    BY <2>5, <2>6, <2>7, <2>8 DEF AnswerInv
<1> QED
  BY <1>2, <1>9, <1>10 DEF AnswersInv, ProtocolInv

\* The dialog after it is released: free, or at the next conflict.
LEMMA ReleasedIs ==
  ASSUME NEW u \in Uis
  PROVE  LET v == Release(u)
             asks == /\ u.latest # NoFile /\ u.latest # u.key /\ ~u.ended /\ u.handled # u.latest
         IN /\ v \in Uis /\ v.open = u.open /\ v.attached = u.attached /\ v.latest = u.latest
            /\ v.ended = u.ended
            /\ asks => v.key = u.latest /\ v.handled = u.latest /\ v.asking = TRUE
            /\ ~asks => v.key = NoFile /\ v.handled = u.handled /\ v.asking = FALSE
            /\ v.asking => v.key # NoFile
<1> DEFINE v == Release(u)
           t == Freed(u)
           near == u.latest # NoFile /\ u.latest # u.key
           asks == near /\ ~u.ended /\ u.handled # u.latest
<1>1. /\ t \in Uis /\ t.open = u.open /\ t.attached = u.attached /\ t.key = NoFile
      /\ t.asking = FALSE /\ t.latest = u.latest /\ t.handled = u.handled /\ t.ended = u.ended
  BY FreedIs
<1>2. v = IF near THEN Settle(t) ELSE t
  BY ReleaseIs
<1> HIDE DEF v, t
<1>3. near => (asks <=> ~(t.latest = NoFile \/ t.key # NoFile \/ t.ended \/ t.handled = t.latest))
  BY <1>1
<1>4. /\ Settle(t) \in Uis /\ Settle(t).open = t.open /\ Settle(t).attached = t.attached
      /\ Settle(t).latest = t.latest /\ Settle(t).ended = t.ended
  BY <1>1, SettleIs
<1>5. CASE asks
  <2>1. Settle(t).key = t.latest /\ Settle(t).handled = t.latest /\ Settle(t).asking = TRUE
    BY <1>1, <1>3, <1>5, SettleIs
  <2>2. v = Settle(t)
    BY <1>2, <1>5
  <2> QED
    BY <1>1, <1>4, <1>5, <2>1, <2>2 DEF v
<1>6. CASE ~asks
  <2>1. near => Settle(t) = t
    BY <1>1, <1>3, <1>6, SettleIs
  <2>2. v = t
    BY <1>2, <2>1
  <2> QED
    BY <1>1, <1>6, <2>2 DEF v
<1> QED
  BY <1>5, <1>6

LEMMA AnswerAnswers ==
  ASSUME SummaryInv, AnswersInv, Answer
  PROVE  AnswersInv'
<1>1. UNCHANGED <<queue, worker, lock, summary, decision, cancelled, session, channel>> /\ ui.asking
  BY DEF Answer
<1>2. /\ ConflictInv' /\ (Live' <=> Live) /\ WindowInv /\ (Live => AnswerInv)
      /\ \A f \in 1..Files : Fresh(f)' <=> Fresh(f)
      /\ \A c : Undecided(c)' <=> Undecided(c)
      /\ Event(summary)' = Event(summary)
  BY <1>1, WindowFrame
<1>3. ui \in Uis /\ ui.open /\ ui.key # NoFile /\ call = NoCall
  BY <1>1, <1>2 DEF WindowInv, SummaryInv, TypeOK
<1>4. Live => Undecided(ui.key) /\ ui.handled = ui.key /\ ui.latest = ui.key
  BY <1>1, <1>2, <1>3 DEF AnswerInv, Questions, Answers, Undecided
<1>5. ASSUME NEW d \in {"overwrite", "skip"}, ui.latest = ui.key,
             call' = [at |-> "sent", decision |-> d], ui' = [ui EXCEPT !.asking = FALSE]
      PROVE  WindowInv' /\ ProtocolInv'
  <2>1. /\ ui'.open = ui.open /\ ui'.attached = ui.attached /\ ui'.latest = ui.latest
        /\ ui'.handled = ui.handled /\ ui'.key = ui.key /\ ui'.asking = FALSE /\ ui'.ended = ui.ended
    BY <1>3, <1>5 DEF Uis
  <2>2. call'.at = "sent" /\ call'.decision = d /\ d # NoDecision
    BY <1>5 DEF NoDecision
  <2>3. WindowInv'
    BY <1>1, <1>2, <1>3, <2>1, <2>2 DEF WindowInv
  <2>4. ASSUME Live'
        PROVE  AnswerInv'
    <3>1. AnswerInv /\ Undecided(ui.key)
      BY <1>2, <1>4, <2>4
    <3>2. FreshUnseen' /\ NamesFiles' /\ Questions' /\ EventsTrue'
      BY <1>1, <1>2, <2>1, <3>1 DEF AnswerInv, FreshUnseen, NamesFiles, Questions, EventsTrue
    <3>3. EventsLast'
      BY <1>1, <1>2, <2>1, <3>1 DEF AnswerInv, EventsLast
    <3>4. Answers'
      BY <1>1, <2>1, <2>2, <3>1 DEF AnswerInv, Answers, Undecided
    <3> QED
      BY <3>2, <3>3, <3>4 DEF AnswerInv
  <2> QED
    BY <2>3, <2>4 DEF ProtocolInv
<1>6. ASSUME ui' = Release(ui), call' = call
      PROVE  WindowInv' /\ ProtocolInv'
  <2>1. /\ ui'.open = ui.open /\ ui'.attached = ui.attached
        /\ ui'.asking => ui'.key # NoFile
    BY <1>3, <1>6, ReleasedIs
  <2>2. WindowInv'
    BY <1>1, <1>2, <1>3, <1>6, <2>1 DEF WindowInv, NoCall
  <2>3. ASSUME Live'
        PROVE  AnswerInv'
    <3>1. AnswerInv /\ ui.latest = ui.key
      BY <1>2, <1>4, <2>3
    <3>2. /\ ui'.latest = ui.latest /\ ui'.handled = ui.handled /\ ui'.key = NoFile /\ ui'.asking = FALSE
      BY <1>3, <1>6, <3>1, ReleasedIs
    <3>3. FreshUnseen'
      <4>1. \A f \in 1..Files : f # NoFile
        BY FilesAssumption DEF NoFile
      <4> QED
        BY <1>1, <1>2, <3>1, <3>2, <4>1 DEF AnswerInv, FreshUnseen
    <3>4. NamesFiles' /\ Questions' /\ EventsTrue' /\ EventsLast'
      BY <1>1, <1>2, <3>1, <3>2 DEF AnswerInv, NamesFiles, Questions, EventsTrue, EventsLast
    <3>5. Answers'
      <4>1. summary.state = "waiting" => summary.conflict # NoFile
        BY <3>1, FilesAssumption DEF AnswerInv, NamesFiles, NoFile
      <4> QED
        BY <1>1, <1>3, <1>6, <2>1, <3>1, <3>2, <4>1 DEF AnswerInv, Answers, NoCall
    <3> QED
      BY <3>3, <3>4, <3>5 DEF AnswerInv
  <2> QED
    BY <2>2, <2>3 DEF ProtocolInv
<1>7. WindowInv' /\ ProtocolInv'
  BY <1>5, <1>6 DEF Answer
<1> QED
  BY <1>2, <1>7 DEF AnswersInv

LEMMA ReturnAnswers ==
  ASSUME SummaryInv, AnswersInv, Return
  PROVE  AnswersInv'
<1> DEFINE again == call.at = "refused" /\ ~ui.ended /\ ui.latest = ui.key
           u == IF again THEN [ui EXCEPT !.handled = NoFile] ELSE ui
<1>1. UNCHANGED <<queue, worker, lock, summary, decision, cancelled, session, channel>>
      /\ call' = NoCall /\ call.at \in {"accepted", "refused"}
  BY DEF Return
<1>2. /\ ConflictInv' /\ (Live' <=> Live) /\ WindowInv /\ (Live => AnswerInv)
      /\ \A f \in 1..Files : Fresh(f)' <=> Fresh(f)
      /\ \A c : Undecided(c)' <=> Undecided(c)
      /\ Event(summary)' = Event(summary)
  BY <1>1, WindowFrame
<1>3. ui \in Uis /\ call'.at = "none"
  BY <1>1 DEF SummaryInv, TypeOK, NoCall
<1>4. CASE ~ui.open
  <2>1. ui' = ui
    BY <1>4 DEF Return
  <2>2. WindowInv'
    BY <1>1, <1>2, <1>3, <2>1 DEF WindowInv
  <2>3. Live => AnswerInv'
    BY <1>1, <1>2, <1>3, <1>4, <2>1
       DEF AnswerInv, FreshUnseen, NamesFiles, Questions, EventsTrue, EventsLast, Answers
  <2> QED
    BY <1>2, <2>2, <2>3 DEF AnswersInv, ProtocolInv
<1>5. CASE ui.open
  <2>1. ui' = Release(u)
    BY <1>5 DEF Return
  <2>2. /\ u \in Uis /\ u.open = ui.open /\ u.attached = ui.attached /\ u.latest = ui.latest
        /\ u.key = ui.key /\ u.ended = ui.ended
    <3>1. NoFile \in Keys
      BY FilesAssumption DEF Keys, NoFile
    <3> QED
      BY <1>3, <3>1 DEF Uis
  <2>3. ~again => u = ui
    OBVIOUS
  <2> HIDE DEF u, again
  <2>4. /\ ui'.open = ui.open /\ ui'.attached = ui.attached /\ ui'.latest = ui.latest
        /\ ui'.asking => ui'.key # NoFile
    <3>1. /\ Release(u).open = u.open /\ Release(u).attached = u.attached
          /\ Release(u).latest = u.latest /\ (Release(u).asking => Release(u).key # NoFile)
      BY <2>2, ReleasedIs
    <3> QED
      BY <2>1, <2>2, <3>1
  <2>5. WindowInv'
    BY <1>1, <1>2, <1>3, <1>5, <2>4 DEF WindowInv
  <2>6. ASSUME Live'
        PROVE  AnswerInv'
    <3> DEFINE asks == /\ ui.latest # NoFile /\ ui.latest # ui.key /\ ~ui.ended
                       /\ ui.handled # ui.latest
               k == summary.conflict
    <3>1. AnswerInv
      BY <1>2, <2>6
    <3>2. u = ui
      BY <1>1, <2>3, <3>1 DEF AnswerInv, Answers, again
    <3>3. /\ asks => ui'.key = ui.latest /\ ui'.handled = ui.latest
          /\ ~asks => ui'.key = NoFile /\ ui'.handled = ui.handled /\ ui'.asking = FALSE
      BY <1>3, <2>1, <3>2, ReleasedIs
    <3>4. asks => Undecided(ui.latest)
      BY <3>1 DEF AnswerInv, Questions
    <3>5. asks => ui.latest = k /\ summary.state = "waiting" /\ decision = NoDecision
      BY <3>4 DEF Undecided
    <3> HIDE DEF asks
    <3>6. FreshUnseen'
      <4>1. \A f \in 1..Files : f # NoFile
        BY FilesAssumption DEF NoFile
      <4>2. \A f \in 1..Files : Fresh(f) => f # ui'.handled /\ f # ui'.key
        BY <3>1, <3>3, <4>1 DEF AnswerInv, FreshUnseen
      <4> QED
        BY <1>1, <1>2, <2>4, <3>1, <4>2 DEF AnswerInv, FreshUnseen
    <3>7. NamesFiles'
      BY <1>1, <3>1 DEF AnswerInv, NamesFiles
    <3>8. Questions'
      <4>1. ui'.latest # NoFile /\ ui'.handled # ui'.latest => Undecided(ui'.latest)
        BY <2>4, <3>1, <3>3 DEF AnswerInv, Questions
      <4>2. ui'.asking => Undecided(ui'.key)
        BY <3>3, <3>4
      <4> QED
        BY <1>2, <4>1, <4>2 DEF Questions
    <3>9. EventsTrue'
      <4>1. CASE asks
        <5>1. \A j \in 1..Len(channel) : channel[j] = Event(summary)
          BY <3>1, <3>5, <4>1 DEF AnswerInv, EventsLast
        <5>2. Event(summary).conflict = ui.latest
          BY <3>5, <4>1, EventIs DEF SummaryInv
        <5> QED
          BY <1>1, <1>2, <3>4, <4>1, <5>1, <5>2 DEF EventsTrue
      <4>2. CASE ~asks
        BY <1>1, <1>2, <3>1, <3>3, <4>2 DEF AnswerInv, EventsTrue
      <4> QED
        BY <4>1, <4>2
    <3>10. EventsLast'
      BY <1>1, <1>2, <2>4, <3>1 DEF AnswerInv, EventsLast
    <3>11. Answers'
      <4>1. summary.state = "waiting" => summary.conflict # NoFile
        BY <3>1, FilesAssumption DEF AnswerInv, NamesFiles, NoFile
      <4>2. CASE asks
        BY <1>1, <1>3, <2>4, <3>3, <3>5, <4>2 DEF Answers
      <4>3. CASE ~asks
        BY <1>1, <1>3, <2>4, <3>1, <3>3, <4>1, <4>3 DEF AnswerInv, Answers
      <4> QED
        BY <4>2, <4>3
    <3> QED
      BY <3>6, <3>7, <3>8, <3>9, <3>10, <3>11 DEF AnswerInv
  <2> QED
    BY <1>2, <2>5, <2>6 DEF AnswersInv, ProtocolInv
<1> QED
  BY <1>4, <1>5 DEF SummaryInv, TypeOK, Uis

\* What a window that is not at its end makes of a summary.
LEMMA AppliedIs ==
  ASSUME NEW u \in Uis, NEW e \in Events, ~u.ended
  PROVE  LET v == Apply(u, e)
             waits == e.state = "waiting"
             asks == waits /\ u.key = NoFile /\ u.handled # Latest(e)
         IN /\ v \in Uis /\ v.open = u.open /\ v.attached = u.attached /\ v.latest = Latest(e)
            /\ asks => v.key = Latest(e) /\ v.handled = Latest(e) /\ v.asking = TRUE
            /\ ~asks => /\ v.key = u.key /\ v.asking = u.asking
                        /\ v.handled = IF waits THEN u.handled ELSE NoFile
            /\ waits <=> Latest(e) # NoFile
<1> DEFINE v == Apply(u, e)
           t == Noted(u, e)
           waits == e.state = "waiting"
           asks == waits /\ u.key = NoFile /\ u.handled # Latest(e)
           near == ~(t.latest = NoFile \/ t.key # NoFile \/ t.ended \/ t.handled = t.latest)
<1>1. /\ t \in Uis /\ t.open = u.open /\ t.attached = u.attached /\ t.key = u.key
      /\ t.asking = u.asking /\ t.latest = Latest(e)
      /\ t.handled = IF waits THEN u.handled ELSE NoFile
      /\ t.ended <=> e.state \in {"completed", "cancelled", "failed"}
  BY NotedIs
<1>2. v = Settle(t)
  BY ApplyIs
<1>3. waits <=> Latest(e) # NoFile
  BY FilesAssumption DEF Latest, NoFile, Unnamed, Events
<1> HIDE DEF v, t
<1>4. near <=> asks
  BY <1>1, <1>3
<1>5. /\ v \in Uis /\ v.open = t.open /\ v.attached = t.attached /\ v.latest = t.latest
  BY <1>1, <1>2, SettleIs
<1>6. asks => v.key = t.latest /\ v.handled = t.latest /\ v.asking = TRUE
  BY <1>1, <1>2, <1>4, SettleIs
<1>7. ~asks => v = t
  BY <1>1, <1>2, <1>4, SettleIs
<1> QED
  BY <1>1, <1>3, <1>5, <1>6, <1>7 DEF v

LEMMA ReceiveAnswers ==
  ASSUME SummaryInv, AnswersInv, Receive
  PROVE  AnswersInv'
<1> DEFINE e == Head(channel)
           n == Len(channel)
           c == e.conflict
           waits == e.state = "waiting"
           k == summary.conflict
<1>1. /\ UNCHANGED <<queue, worker, lock, summary, decision, cancelled, session, call>>
      /\ channel # <<>> /\ channel' = Tail(channel) /\ ui' = Apply(ui, e)
  BY DEF Receive
<1>2. /\ ConflictInv' /\ (Live' <=> Live) /\ WindowInv /\ (Live => AnswerInv)
      /\ \A f \in 1..Files : Fresh(f)' <=> Fresh(f)
      /\ \A d : Undecided(d)' <=> Undecided(d)
      /\ Event(summary)' = Event(summary)
  BY <1>1, WindowFrame
<1>3. /\ ui \in Uis /\ e \in Events /\ n \in Nat /\ n >= 1 /\ Len(channel') = n - 1 /\ e = channel[1]
      /\ \A i \in 1..n - 1 : channel'[i] = channel[i + 1]
  BY <1>1, ChannelHead DEF SummaryInv, TypeOK
<1>4. ui.attached /\ ui.open
  BY <1>1, <1>2 DEF WindowInv
<1>5. Event(summary).state = summary.state /\ Event(summary).conflict = k
  BY EventIs DEF SummaryInv
<1> HIDE DEF e, n
<1>6. 1 \in 1..n /\ \A i \in 1..Len(channel') : i + 1 \in 1..n /\ channel'[i] = channel[i + 1]
  BY <1>3
\* What is left in the channel, whatever the window makes of its first event.
<1>7. ASSUME AnswerInv, NEW i \in 1..Len(channel'), channel'[i].state = "waiting"
      PROVE  \/ Undecided(channel'[i].conflict)
             \/ ui.handled = channel'[i].conflict /\ e = channel'[i] /\ \A j \in 1..i : channel'[j] = channel'[i]
  <2>1. i + 1 \in 1..n /\ channel'[i] = channel[i + 1]
    BY <1>6
  <2>2. \/ Undecided(channel[i + 1].conflict)
        \/ ui.handled = channel[i + 1].conflict /\ \A j \in 1..i + 1 : channel[j] = channel[i + 1]
    BY <1>7, <2>1 DEF AnswerInv, EventsTrue, n
  <2>3. ASSUME \A j \in 1..i + 1 : channel[j] = channel[i + 1]
        PROVE  e = channel'[i] /\ \A j \in 1..i : channel'[j] = channel'[i]
    <3>1. i \in Nat /\ 1 \in 1..i + 1 /\ \A j \in 1..i : j + 1 \in 1..i + 1 /\ j \in 1..Len(channel')
      BY <1>3, <2>1
    <3> QED
      BY <1>3, <1>6, <2>1, <2>3, <3>1
  <2> QED
    BY <2>1, <2>2, <2>3
<1>8. ASSUME AnswerInv, summary.state = "waiting", e = Event(summary)
      PROVE  \A j \in 1..n : channel[j] = Event(summary)
  <2>1. channel[1] = Event(summary) /\ \A j \in 1..n : 1 <= j
    BY <1>3, <1>8
  <2> QED
    BY <1>6, <1>8, <2>1 DEF AnswerInv, EventsLast, n
<1>9. ASSUME AnswerInv
      PROVE  NamesFiles' /\ (waits => c \in 1..Files)
             /\ \A f \in 1..Files : Fresh(f) => c # f /\ \A i \in 1..Len(channel') : channel'[i].conflict # f
  <2>1. \A i \in 1..n : channel[i].state = "waiting" => channel[i].conflict \in 1..Files
    BY <1>9 DEF AnswerInv, NamesFiles, n
  <2>2. \A f \in 1..Files : Fresh(f) => \A i \in 1..n : channel[i].conflict # f
    BY <1>9 DEF AnswerInv, FreshUnseen, n
  <2>3. NamesFiles'
    BY <1>1, <1>6, <1>9, <2>1 DEF AnswerInv, NamesFiles
  <2> QED
    BY <1>3, <1>6, <2>1, <2>2, <2>3
<1>10. ASSUME AnswerInv, summary.state = "waiting"
       PROVE  \A i, j \in 1..Len(channel') : i <= j /\ channel'[i] = Event(summary) => channel'[j] = Event(summary)
  <2> SUFFICES ASSUME NEW i \in 1..Len(channel'), NEW j \in 1..Len(channel'), i <= j,
                      channel'[i] = Event(summary)
               PROVE  channel'[j] = Event(summary)
    OBVIOUS
  <2>1. /\ i + 1 \in 1..n /\ j + 1 \in 1..n /\ i + 1 <= j + 1
        /\ channel'[i] = channel[i + 1] /\ channel'[j] = channel[j + 1]
    BY <1>3, <1>6
  <2> QED
    BY <1>10, <2>1 DEF AnswerInv, EventsLast, n
<1>11. CASE ui.ended
  <2>1. ui' = ui
    BY <1>1, <1>3, <1>11, ApplyIs
  <2>2. WindowInv'
    BY <1>1, <1>2, <1>4, <2>1 DEF WindowInv
  <2>3. ASSUME Live'
        PROVE  AnswerInv'
    <3>1. AnswerInv
      BY <1>2, <2>3
    <3>2. FreshUnseen' /\ NamesFiles' /\ Questions' /\ Answers'
      BY <1>1, <1>2, <1>9, <2>1, <3>1 DEF AnswerInv, FreshUnseen, Questions, Answers
    <3>3. EventsTrue'
      BY <1>2, <1>7, <2>1, <3>1 DEF EventsTrue
    <3>4. EventsLast'
      <4>1. summary.state = "waiting" /\ ui.latest = k => \A j \in 1..n : channel[j] = Event(summary)
        BY <3>1 DEF AnswerInv, EventsLast, n
      <4> QED
        BY <1>1, <1>2, <1>6, <1>10, <2>1, <3>1, <4>1 DEF EventsLast
    <3> QED
      BY <3>2, <3>3, <3>4 DEF AnswerInv
  <2> QED
    BY <1>2, <2>2, <2>3 DEF AnswersInv, ProtocolInv
<1>12. CASE ~ui.ended
  <2> DEFINE asks == waits /\ ui.key = NoFile /\ ui.handled # Latest(e)
  <2>1. /\ ui' \in Uis /\ ui'.open = ui.open /\ ui'.attached = ui.attached /\ ui'.latest = Latest(e)
        /\ asks => ui'.key = Latest(e) /\ ui'.handled = Latest(e) /\ ui'.asking = TRUE
        /\ ~asks => /\ ui'.key = ui.key /\ ui'.asking = ui.asking
                    /\ ui'.handled = IF waits THEN ui.handled ELSE NoFile
        /\ waits <=> Latest(e) # NoFile
    BY <1>1, <1>3, <1>12, AppliedIs
  <2> HIDE DEF asks
  <2>2. asks => waits /\ ui.key = NoFile /\ ui.handled # Latest(e)
    BY DEF asks
  <2>3. WindowInv'
    <3>1. call.at # "none" => ~asks /\ ~ui.asking /\ ui.key # NoFile
      BY <1>2, <1>4, <2>2 DEF WindowInv
    <3>2. ui'.asking => ui'.key # NoFile
      BY <1>2, <2>1, <2>2 DEF WindowInv
    <3> QED
      BY <1>1, <1>2, <1>4, <2>1, <3>1, <3>2 DEF WindowInv
  <2>4. ASSUME Live'
        PROVE  AnswerInv'
    <3>1. AnswerInv
      BY <1>2, <2>4
    <3>2. waits => Latest(e) = c /\ c \in 1..Files
      BY <1>9, <3>1, FilesAssumption DEF Latest, NoFile
    <3>3. waits => Undecided(c) \/ ui.handled = c
      <4>1. \A i \in 1..n : channel[i].state = "waiting" =>
              Undecided(channel[i].conflict) \/ ui.handled = channel[i].conflict
        BY <3>1 DEF AnswerInv, EventsTrue, n
      <4> QED
        BY <1>3, <1>6, <4>1
    <3>4. asks => Undecided(c)
      BY <2>2, <3>2, <3>3
    <3>5. summary.state = "waiting" /\ waits /\ c = k => e = Event(summary)
      <4>1. Event(summary) \in Events
        BY EventIs DEF SummaryInv
      <4> QED
        BY <1>3, <1>5, <4>1 DEF Events
    <3>6. k = NoFile \/ summary.state # "waiting" \/ k \in 1..Files
      BY <3>1 DEF AnswerInv, NamesFiles
    <3>7. FreshUnseen'
      <4>1. \A f \in 1..Files : f # NoFile
        BY FilesAssumption DEF NoFile
      <4>2. \A f \in 1..Files : Fresh(f) => f # ui'.latest /\ f # ui'.handled /\ f # ui'.key
        BY <1>9, <2>1, <2>2, <3>1, <3>2, <4>1 DEF AnswerInv, FreshUnseen
      <4> QED
        BY <1>1, <1>2, <1>9, <3>1, <4>2 DEF AnswerInv, FreshUnseen
    <3>8. NamesFiles'
      BY <1>9, <3>1
    <3>9. Questions'
      <4>1. ui'.latest # NoFile /\ ui'.handled # ui'.latest => Undecided(ui'.latest)
        BY <2>1, <3>2, <3>3
      <4>2. ui'.asking => Undecided(ui'.key)
        BY <2>1, <2>2, <3>1, <3>2, <3>4 DEF AnswerInv, Questions
      <4> QED
        BY <1>2, <4>1, <4>2 DEF Questions
    <3>10. EventsTrue'
      <4> SUFFICES ASSUME NEW i \in 1..Len(channel'), channel'[i].state = "waiting"
                   PROVE  \/ Undecided(channel'[i].conflict)
                          \/ ui'.handled = channel'[i].conflict /\ \A j \in 1..i : channel'[j] = channel'[i]
        BY <1>2 DEF EventsTrue
      <4>1. CASE Undecided(channel'[i].conflict)
        BY <4>1
      <4>2. CASE ui.handled = channel'[i].conflict /\ e = channel'[i] /\ \A j \in 1..i : channel'[j] = channel'[i]
        <5>1. waits /\ ui.handled = c /\ ~asks
          BY <2>2, <3>2, <4>2
        <5> QED
          BY <2>1, <4>2, <5>1
      <4> QED
        BY <1>7, <3>1, <4>1, <4>2
    <3>11. EventsLast'
      <4>1. summary.state = "waiting" /\ ui'.latest = k => \A j \in 1..n : channel[j] = Event(summary)
        <5> SUFFICES ASSUME summary.state = "waiting", ui'.latest = k
                     PROVE  \A j \in 1..n : channel[j] = Event(summary)
          OBVIOUS
        <5>1. k \in 1..Files
          BY <3>1 DEF AnswerInv, NamesFiles
        <5>2. waits
          BY <2>1, <5>1, FilesAssumption DEF NoFile
        <5> QED
          BY <1>8, <2>1, <3>1, <3>2, <3>5, <5>2
      <4> QED
        BY <1>1, <1>2, <1>6, <1>10, <3>1, <4>1 DEF EventsLast
    <3>12. Answers'
      <4>1. call.at = "sent" => /\ summary.state = "waiting" /\ decision = NoDecision
                                /\ ui'.key = k
        <5>1. call.at = "sent" => ~asks
          BY <1>2, <1>4, <2>2 DEF WindowInv
        <5> QED
          BY <1>4, <2>1, <3>1, <5>1 DEF AnswerInv, Answers
      <4>2. ASSUME summary.state = "waiting", ui'.key = k \/ decision # NoDecision
            PROVE  ui'.handled = k /\ ui'.latest = k
        <5>1. CASE asks
          <6>1. c = k
            BY <3>4, <5>1 DEF Undecided
          <6> QED
            BY <2>1, <2>2, <3>2, <5>1, <6>1
        <5>2. CASE ~asks
          <6>1. ui.handled = k /\ ui.latest = k
            BY <1>4, <2>1, <3>1, <4>2, <5>2 DEF AnswerInv, Answers
          <6>2. e = Event(summary)
            BY <1>3, <1>6, <3>1, <4>2, <6>1 DEF AnswerInv, EventsLast, n
          <6>3. waits /\ c = k
            BY <1>5, <4>2, <6>2
          <6> QED
            BY <2>1, <3>2, <5>2, <6>1, <6>3
        <5> QED
          BY <5>1, <5>2
      <4> QED
        BY <1>1, <3>1, <4>1, <4>2 DEF AnswerInv, Answers
    <3> QED
      BY <3>7, <3>8, <3>9, <3>10, <3>11, <3>12 DEF AnswerInv
  <2> QED
    BY <1>2, <2>3, <2>4 DEF AnswersInv, ProtocolInv
<1> QED
  BY <1>3, <1>11, <1>12 DEF Uis

-----------------------------------------------------------------------------
(* The files that may be overwritten.                                        *)

\* A worker that will overwrite its file.
Agreed(w) ==
  \/ worker[w].pc = "transfer" /\ worker[w].over
  \/ worker[w].pc = "decided" /\ worker[w].result = "overwrite"

\* Whoever says "overwrite" says it of a file that the user agreed to overwrite.
ApprovedInv == NoPanic =>
  /\ Live /\ ((call.at = "sent" /\ call.decision = "overwrite") \/ decision = "overwrite")
       => summary.conflict \in approved
  /\ session => \A w \in Workers : Agreed(w) => worker[w].file \in approved
  /\ OverwriteApproved

LEMMA QuietApproved ==
  ASSUME TypeOK, ApprovedInv, NEW w \in Workers, NEW r \in Jobs, Moves(w, r),
         worker[w].pc # "panicked", r.file = worker[w].file \/ r.pc \in {"begin", "exit"},
         r.pc = "transfer" /\ r.over => Agreed(w),
         r.pc = "decided" /\ r.result = "overwrite" => Agreed(w),
         session' => session, cancelled => cancelled',
         UNCHANGED <<decision, call, approved>>, summary'.conflict = summary.conflict,
         \A f \in overwritten' : f \in overwritten \/ (session /\ Agreed(w) /\ f = worker[w].file)
  PROVE  ApprovedInv'
<1>1. (NoPanic' => NoPanic) /\ (Live' => Live)
  BY DEF NoPanic, Moves, Live
<1>2. \A v \in Workers : Agreed(v)' => Agreed(v) /\ worker'[v].file = worker[v].file
  BY DEF Agreed, Moves
<1> QED
  BY <1>1, <1>2 DEF ApprovedInv, OverwriteApproved

\* A step that leaves the workers, and the decision with its call.
LEMMA AsideApproved ==
  ASSUME ApprovedInv, UNCHANGED <<worker, decision, overwritten>>, session' => session,
         cancelled => cancelled', approved \subseteq approved',
         Live' => summary'.conflict = summary.conflict,
         Live' /\ call'.at = "sent" /\ call'.decision = "overwrite" =>
           (call.at = "sent" /\ call.decision = "overwrite") \/ summary.conflict \in approved'
  PROVE  ApprovedInv'
<1>1. (NoPanic' => NoPanic) /\ (Live' => Live)
  BY DEF NoPanic, Live
<1>2. \A v \in Workers : Agreed(v)' => Agreed(v) /\ worker'[v].file = worker[v].file
  BY DEF Agreed
<1> QED
  BY <1>1, <1>2 DEF ApprovedInv, OverwriteApproved

LEMMA WorkerApproved ==
  ASSUME SummaryInv, AnswersInv, ApprovedInv, NEW w \in Workers,
         CheckSlot(w) \/ AcquireSlot(w) \/ Pop(w) \/ Begin(w) \/ Account(w) \/ StopBatch(w) \/ Wake(w)
  PROVE  ApprovedInv'
<1> USE DEF SummaryInv
<1>1. CASE CheckSlot(w)
  <2>1. PICK r \in Jobs : Moves(w, r) /\ r.pc \in {"exit", "acquire"} /\ r.file = worker[w].file
    BY <1>1, GoStep DEF CheckSlot, WorkerPcs
  <2> QED
    BY <1>1, <2>1, QuietApproved DEF CheckSlot
<1>2. CASE AcquireSlot(w)
  <2>1. PICK r \in Jobs : Moves(w, r) /\ r.pc \in {"exit", "pop"} /\ r.file = worker[w].file
    <3>1. CASE Go(w, "exit")
      BY <3>1, GoStep DEF WorkerPcs
    <3>2. CASE Go(w, IF cancelled THEN "exit" ELSE "pop")
      BY <3>2, GoStep DEF WorkerPcs
    <3> QED
      BY <1>2, <3>1, <3>2 DEF AcquireSlot
  <2> QED
    BY <1>2, <2>1, QuietApproved DEF AcquireSlot
<1>3. CASE Pop(w)
  <2>1. PICK r \in Jobs : Moves(w, r) /\ r.pc \in {"exit", "begin"}
    <3>1. CASE queue = <<>>
      BY <1>3, <3>1, GoStep DEF Pop, WorkerPcs
    <3>2. CASE queue # <<>>
      <4> DEFINE r == [pc |-> "begin", file |-> Head(queue), over |-> FALSE, result |-> "none"]
      <4>1. Head(queue) \in 1..Files
        BY <3>2, HeadTailProperties DEF TypeOK
      <4>2. r \in Jobs
        BY <4>1, FilesAssumption DEF Jobs, WorkerPcs
      <4> QED
        BY <1>3, <3>2, <4>2, JobMoves DEF Pop
    <3> QED
      BY <3>1, <3>2
  <2> QED
    BY <1>3, <2>1, QuietApproved DEF Pop
<1>4. CASE Begin(w)
  <2>1. PICK r \in Jobs : /\ Moves(w, r) /\ r.pc \in {"account", "transfer"}
                          /\ r.file = worker[w].file /\ r.over = worker[w].over
    <3>1. CASE cancelled
      BY <1>4, <3>1, FinishStep DEF Begin, Results
    <3>2. CASE ~cancelled
      BY <1>4, <3>2, GoStep DEF Begin, WorkerPcs
    <3> QED
      BY <3>1, <3>2
  <2>2. ~worker[w].over
    BY <1>4 DEF AnswersInv, ConflictInv, QueueInv, Begin
  <2>3. summary'.conflict = summary.conflict
    BY <1>4 DEF Begin, Update, TypeOK, Summaries
  <2> QED
    BY <1>4, <2>1, <2>2, <2>3, QuietApproved DEF Begin
<1>5. CASE Account(w)
  <2>1. PICK r \in Jobs : Moves(w, r) /\ r.pc = "slot" /\ r.file = worker[w].file
    BY <1>5, GoStep DEF Account, WorkerPcs
  <2> DEFINE a == [summary EXCEPT !.active = @ - 1]
  <2>2. summary'.conflict = summary.conflict
    <3>1. /\ a.conflict = summary.conflict
          /\ DOMAIN a = {"state", "queued", "active", "downloaded", "skipped", "failed", "conflict"}
      BY DEF TypeOK, Summaries
    <3> HIDE DEF a
    <3>2. summary' \in {a, [a EXCEPT !.downloaded = @ + 1], [a EXCEPT !.skipped = @ + 1],
                        [a EXCEPT !.failed = @ + 1]}
      BY <1>5 DEF Account, Update, a
    <3> QED
      BY <3>1, <3>2
  <2> QED
    BY <1>5, <2>1, <2>2, QuietApproved DEF Account
<1>6. CASE StopBatch(w)
  <2>1. PICK r \in Jobs : Moves(w, r) /\ r.pc = "account" /\ r.file = worker[w].file
    BY <1>6, FinishStep DEF StopBatch, Results
  <2> QED
    BY <1>6, <2>1, QuietApproved DEF StopBatch
<1>7. CASE Wake(w)
  <2>1. PICK r \in Jobs : /\ Moves(w, r) /\ r.pc \in {"decided", "wait"} /\ r.file = worker[w].file
                          /\ r.pc = "decided" => r.result = "cancel"
    <3>1. CASE Decide(w, "cancel")
      BY <3>1, DecideStep DEF Results, Decisions
    <3>2. CASE Go(w, "wait")
      BY <3>2, GoStep DEF WorkerPcs
    <3> QED
      BY <1>7, <3>1, <3>2 DEF Wake
  <2> QED
    BY <1>7, <2>1, QuietApproved DEF Wake
<1> QED
  BY <1>1, <1>2, <1>3, <1>4, <1>5, <1>6, <1>7

LEMMA TransferEndsApproved ==
  ASSUME SummaryInv, AnswersInv, ApprovedInv, NEW w \in Workers, TransferEnds(w)
  PROVE  ApprovedInv'
<1> USE DEF SummaryInv
<1>1. PICK r \in Jobs : Moves(w, r) /\ r.pc \in {"account", "conflict"} /\ r.file = worker[w].file
  <2>1. CASE Transferred(w)
    BY <2>1, FinishStep DEF Transferred, Results
  <2>2. CASE Conflicted(w)
    <3>1. CASE cancelled
      BY <2>2, <3>1, FinishStep DEF Conflicted, Results
    <3>2. CASE ~cancelled
      BY <2>2, <3>2, GoStep DEF Conflicted, WorkerPcs
    <3> QED
      BY <3>1, <3>2
  <2>3. CASE TransferFailed(w)
    BY <2>3, FinishStep DEF TransferFailed, Results
  <2>4. CASE TransferCancelled(w)
    BY <2>4, FinishStep DEF TransferCancelled, Results
  <2> QED
    BY <2>1, <2>2, <2>3, <2>4 DEF TransferEnds
<1>2. \A f \in overwritten' : f \in overwritten \/ (session /\ Agreed(w) /\ f = worker[w].file)
  BY DEF TransferEnds, Transferred, Conflicted, TransferFailed, TransferCancelled, Agreed
<1> QED
  BY <1>1, <1>2, QuietApproved DEF TransferEnds

LEMMA ShowConflictApproved ==
  ASSUME SummaryInv, AnswersInv, ApprovedInv, NEW w \in Workers, ShowConflict(w)
  PROVE  ApprovedInv'
<1> USE DEF SummaryInv
<1>1. PICK r \in Jobs : Moves(w, r) /\ r.pc \in {"stop", "wait"} /\ r.file = worker[w].file
  <2>1. CASE cancelled
    <3>1. Go(w, "stop")
      BY <2>1 DEF ShowConflict, Go
    <3> QED
      BY <3>1, GoStep DEF WorkerPcs
  <2>2. CASE ~cancelled
    BY <2>2, GoStep DEF ShowConflict, WorkerPcs
  <2> QED
    BY <2>1, <2>2
<1>2. CASE cancelled
  <2>1. summary' = summary
    BY <1>2 DEF ShowConflict
  <2> QED
    BY <1>1, <2>1, QuietApproved DEF ShowConflict
<1>3. CASE ~cancelled
  <2>1. (NoPanic' => NoPanic) /\ (Live' => Live)
    BY <1>1 DEF NoPanic, Live, Moves, ShowConflict
  <2>2. \A v \in Workers : Agreed(v)' => Agreed(v) /\ worker'[v].file = worker[v].file
    BY <1>1 DEF Agreed, Moves
  <2>3. \A v \in Workers : ~Waits(v)
    BY DEF AnswersInv, ConflictInv, ShownConflictWaits, ShowConflict
  <2>4. Live => decision = NoDecision /\ call.at # "sent"
    BY <2>3, NobodyWaits
  <2>5. UNCHANGED <<decision, call, approved, overwritten, session>> /\ "overwrite" # NoDecision
    BY DEF ShowConflict, NoDecision
  <2> QED
    BY <2>1, <2>2, <2>4, <2>5 DEF ApprovedInv, OverwriteApproved
<1> QED
  BY <1>2, <1>3

LEMMA CheckDecisionApproved ==
  ASSUME SummaryInv, AnswersInv, ApprovedInv, NEW w \in Workers, CheckDecision(w)
  PROVE  ApprovedInv'
<1> USE DEF SummaryInv
<1>1. CASE cancelled /\ Decide(w, "cancel") /\ UNCHANGED <<decision, summary>>
  <2>1. PICK r \in Jobs : /\ Moves(w, r) /\ r.pc = "decided" /\ r.file = worker[w].file
                          /\ r.result = "cancel"
    BY <1>1, DecideStep DEF Results, Decisions
  <2> QED
    BY <1>1, <2>1, QuietApproved DEF CheckDecision
<1>2. CASE decision = NoDecision /\ Go(w, "sleep") /\ UNCHANGED <<decision, summary>>
  <2>1. PICK r \in Jobs : Moves(w, r) /\ r.pc = "sleep" /\ r.file = worker[w].file
    BY <1>2, GoStep DEF WorkerPcs
  <2> QED
    BY <1>2, <2>1, QuietApproved DEF CheckDecision
<1>3. CASE ~cancelled /\ decision # NoDecision /\ TakeDecision(w)
  <2>1. PICK r \in Jobs : /\ Moves(w, r) /\ r.pc = "decided" /\ r.file = worker[w].file
                          /\ r.result = decision
    BY <1>3, DecideStep DEF Results, TakeDecision, TypeOK, NoDecision
  <2>2. (NoPanic' => NoPanic) /\ (Live' => Live)
    BY <2>1 DEF NoPanic, Live, Moves, CheckDecision
  <2>3. \A v \in Workers \ {w} : (Agreed(v)' <=> Agreed(v)) /\ worker'[v].file = worker[v].file
    BY <2>1 DEF Agreed, Moves
  <2>4. (Agreed(w)' => decision = "overwrite") /\ worker'[w].file = worker[w].file
    BY <2>1 DEF Agreed, Moves
  <2>5. summary.conflict = worker[w].file
    BY DEF AnswersInv, ConflictInv, ShownConflictWaits, Waits, CheckDecision
  <2>6. session /\ NoPanic => Live
    BY <1>3 DEF Live
  <2>7. Live => call.at # "sent"
    BY <1>3 DEF AnswersInv, ProtocolInv, AnswerInv, Answers
  <2>8. UNCHANGED <<call, approved, overwritten, session>> /\ decision' = NoDecision
        /\ "overwrite" # NoDecision
    BY <1>3 DEF CheckDecision, TakeDecision, NoDecision
  <2> QED
    BY <2>2, <2>3, <2>4, <2>5, <2>6, <2>7, <2>8 DEF ApprovedInv, OverwriteApproved
<1> QED
  BY <1>1, <1>2, <1>3 DEF CheckDecision

LEMMA WithdrawApproved ==
  ASSUME SummaryInv, AnswersInv, ApprovedInv, NEW w \in Workers, Withdraw(w)
  PROVE  ApprovedInv'
<1> USE DEF SummaryInv
<1>1. PICK r \in Jobs : /\ Moves(w, r) /\ r.pc \in {"transfer", "account", "stop"} /\ r.file = worker[w].file
                        /\ r.over <=> worker[w].result = "overwrite"
                        /\ r.pc = "transfer" <=> worker[w].result = "overwrite"
  BY WithdrawMoves
<1>2. (NoPanic' => NoPanic) /\ (Live' => Live)
  BY <1>1 DEF NoPanic, Live, Moves, Withdraw
<1>3. \A v \in Workers : Agreed(v)' => Agreed(v) /\ worker'[v].file = worker[v].file
  BY <1>1 DEF Agreed, Moves, Withdraw
<1>4. Live => decision = NoDecision /\ call.at # "sent"
  <2>1. Live => summary.state = "running"
    BY DEF AnswersInv, ConflictInv, TurnInv, Withdraw
  <2> QED
    BY <2>1, NobodyWaits
<1>5. UNCHANGED <<decision, call, approved, overwritten, session>> /\ "overwrite" # NoDecision
  BY DEF Withdraw, NoDecision
<1> QED
  BY <1>2, <1>3, <1>4, <1>5 DEF ApprovedInv, OverwriteApproved

LEMMA AroundApproved ==
  ASSUME SummaryInv, AnswersInv, ApprovedInv,
         End \/ Cancel \/ LoseSession \/ ServeCall \/ OthersTake \/ OthersGive \/ WindowStep
         \/ OpenWindow \/ Answer \/ LoseWindow
  PROVE  ApprovedInv'
<1> USE DEF SummaryInv
<1>1. CASE End
  <2>1. \A v \in Workers : ~Waits(v)
    BY <1>1 DEF End, Waits
  <2>2. Live => decision = NoDecision /\ call.at # "sent"
    BY <2>1, NobodyWaits
  <2>3. UNCHANGED <<worker, decision, call, approved, overwritten, session, cancelled>>
        /\ "overwrite" # NoDecision
    BY <1>1 DEF End, NoDecision
  <2>4. (NoPanic' <=> NoPanic) /\ (Live' <=> Live) /\ \A v \in Workers : Agreed(v)' <=> Agreed(v)
    BY <2>3 DEF NoPanic, Live, Agreed
  <2> QED
    BY <2>2, <2>3, <2>4 DEF ApprovedInv, OverwriteApproved
<1>2. CASE Cancel
  BY <1>2, AsideApproved DEF Cancel
<1>3. CASE LoseSession
  BY <1>3, AsideApproved DEF LoseSession, TypeOK
<1>4. CASE OthersTake \/ OthersGive
  BY <1>4, AsideApproved DEF OthersTake, OthersGive
<1>5. CASE Attach
  BY <1>5, AsideApproved DEF Attach
<1>6. CASE Receive
  BY <1>6, AsideApproved DEF Receive
<1>7. CASE Return
  <2>1. call'.at # "sent"
    BY <1>7 DEF Return, NoCall
  <2> QED
    BY <1>7, <2>1, AsideApproved DEF Return
<1>8. CASE OpenWindow
  BY <1>8, AsideApproved DEF OpenWindow
<1>9. CASE LoseWindow
  BY <1>9, AsideApproved DEF LoseWindow
<1>10. CASE Answer
  <2>1. Live => Undecided(ui.key)
    BY <1>10 DEF AnswersInv, ProtocolInv, AnswerInv, Questions, Answer
  <2>2. UNCHANGED <<worker, summary, decision, overwritten, session, cancelled>>
        /\ approved \subseteq approved'
    BY <1>10 DEF Answer
  <2>3. call' = call \/ (call'.decision = "overwrite" => ui.key \in approved')
    BY <1>10 DEF Answer
  <2>4. Live' => Live
    BY <2>2 DEF Live, NoPanic
  <2> QED
    BY <2>1, <2>2, <2>3, <2>4, AsideApproved DEF Undecided
<1>11. CASE ServeCall
  <2>1. UNCHANGED <<worker, summary, overwritten, approved, session, cancelled>>
    BY <1>11 DEF ServeCall
  <2>2. /\ decision' = decision \/ decision' = call.decision
        /\ call.at = "sent" /\ call'.at # "sent"
    BY <1>11 DEF ServeCall, TypeOK, Calls
  <2>3. (NoPanic' <=> NoPanic) /\ (Live' <=> Live) /\ \A v \in Workers : Agreed(v)' <=> Agreed(v)
    BY <2>1 DEF NoPanic, Live, Agreed
  <2> QED
    BY <2>1, <2>2, <2>3 DEF ApprovedInv, OverwriteApproved
<1> QED
  BY <1>1, <1>2, <1>3, <1>4, <1>5, <1>6, <1>7, <1>8, <1>9, <1>10, <1>11 DEF WindowStep

-----------------------------------------------------------------------------
(* The theorems.                                                             *)

BatchInv == SummaryInv /\ AnswersInv /\ ApprovedInv

\* The invariants hold when the batch begins, whatever was downloaded before.
LEMMA BegunInv ==
  ASSUME NEW done \in 0..Files, Begun(done)
  PROVE  BatchInv
<1> DEFINE n == Files - done
<1>1. n \in 0..Files /\ n \in Nat /\ Files \in Nat /\ Files # 0 /\ done \in Nat /\ done + n = Files
  BY FilesAssumption
<1>2. /\ queue = [i \in 1..n |-> i + done] /\ lock = {} /\ channel = <<>> /\ ui = ClosedUi
      /\ call = NoCall /\ decision = NoDecision /\ approved = {} /\ overwritten = {}
      /\ others \in 0..MaxOthers
      /\ cancelled = FALSE /\ token = FALSE /\ session = TRUE /\ failedWorker = FALSE /\ notified = FALSE
  BY DEF Begun
<1>3. /\ summary.state = "running" /\ summary.queued = n /\ summary.active = 0
      /\ summary.downloaded = done /\ summary.skipped = 0 /\ summary.failed = 0
      /\ summary.conflict = NoFile /\ summary \in Summaries
  BY <1>1 DEF Begun, Summaries, States, NoFile
<1>4. \A w \in Workers : worker[w].pc = "slot"
  BY DEF Begun
<1>5. worker \in [Workers -> Jobs]
  <2>1. [pc |-> "slot", file |-> NoFile, over |-> FALSE, result |-> "none"] \in Jobs
    BY <1>1 DEF Jobs, WorkerPcs, NoFile
  <2> QED
    BY <2>1 DEF Begun
<1> HIDE DEF n
<1>6. queue \in Seq(1..Files) /\ Len(queue) = n /\ \A i \in 1..n : queue[i] = i + done
  <2>1. \A i \in 1..n : i + done \in 1..Files
    BY <1>1
  <2>2. queue \in [1..n -> 1..Files]
    BY <1>2, <2>1
  <2>3. Len(queue) = n /\ \A i \in 1..n : queue[i] = i + done
    BY <1>1, <1>2
  <2> QED
    <3> DEFINE S == 1..Files
    <3>1. queue \in [1..n -> S]
      BY <2>2
    <3> HIDE DEF S
    <3>2. queue \in Seq(S)
      BY <1>1, <3>1, SeqDef
    <3> QED
      BY <2>3, <3>2 DEF S
<1>7. \A P : "slot" \notin P => Count(P) = 0
  BY <1>4, CountNone
<1>8. FreeSlots \in 0..Slots
  <2>1. {w \in Workers : Holds(w)} = {}
    BY <1>4 DEF Holds
  <2>2. FreeSlots = Slots - others - 0
    BY <2>1, FS_EmptySet DEF FreeSlots
  <2> QED
    BY <1>2, <2>2, FilesAssumption
<1>9. ui \in Uis /\ ClosedUi \in Uis
  BY <1>1, <1>2, BoundsAssumption DEF ClosedUi, Uis, Keys, NoFile
<1>10. TypeOK
  <2>1. channel \in Seq(Events) /\ call \in Calls /\ summary \in Summaries
    BY <1>2, <1>3, EmptySeq DEF NoCall, Calls
  <2>2. /\ notified \in BOOLEAN /\ cancelled \in BOOLEAN /\ token \in BOOLEAN
        /\ session \in BOOLEAN /\ failedWorker \in BOOLEAN
        /\ decision \in Decisions \cup {NoDecision} /\ lock \subseteq Workers
        /\ approved \subseteq Keys /\ overwritten \subseteq 1..Files
    BY <1>2
  <2>3. Len(queue) <= Files
    BY <1>1, <1>6
  <2> QED
    BY <1>2, <1>5, <1>6, <1>8, <1>9, <2>1, <2>2, <2>3 DEF TypeOK
<1>11. Accounted = done
  BY <1>1, <1>3 DEF Accounted
<1>12. CountInv
  <2>1. Count({"begin"}) = 0 /\ Count(HandPcs) = 0 /\ Count({"panicked"}) = 0 /\ Joined = 0
    BY <1>2, <1>7 DEF HandPcs, Joined
  <2>2. ~Terminal
    BY <1>3 DEF Terminal
  <2>3. Running
    BY <1>1, <1>2, <1>3, <1>6, <1>11, <2>1 DEF Running
  <2>4. Work /\ Left /\ CompletedMeansAll
    BY <1>1, <1>3, <1>4, <1>11, <2>2 DEF Work, Busy, Left, CompletedMeansAll
  <2> QED
    BY <1>2, <2>1, <2>3, <2>4 DEF CountInv
<1>13. ConflictInv
  <2>1. ASSUME NEW i \in 1..Len(queue)
        PROVE  queue[i] = i + (Files - Len(queue))
    <3>1. queue[i] = i + done /\ Files - Len(queue) = done
      BY <1>1, <1>6
    <3> QED
      BY <3>1
  <2>2. QueueInv
    BY <1>4, <2>1 DEF QueueInv, Busy
  <2>3. ShownConflictWaits /\ TurnInv
    BY <1>2, <1>3, <1>4 DEF ShownConflictWaits, Waits, TurnInv
  <2> QED
    BY <2>2, <2>3 DEF ConflictInv
<1>14. /\ ui.open = FALSE /\ ui.attached = FALSE /\ ui.latest = NoFile /\ ui.handled = NoFile
       /\ ui.key = NoFile /\ ui.asking = FALSE /\ ui.ended = FALSE /\ call.at = "none"
  BY <1>2 DEF ClosedUi, NoCall
<1>15. WindowInv
  BY <1>2, <1>14 DEF WindowInv
<1>16. AnswerInv
  <2>1. Len(channel) = 0 /\ \A f \in 1..Files : f # NoFile
    BY <1>1, <1>2 DEF NoFile
  <2>2. FreshUnseen /\ NamesFiles
    BY <1>3, <1>14, <2>1 DEF FreshUnseen, NamesFiles
  <2>3. Questions /\ EventsTrue /\ EventsLast /\ Answers
    BY <1>3, <1>14, <2>1 DEF Questions, EventsTrue, EventsLast, Answers
  <2> QED
    BY <2>2, <2>3 DEF AnswerInv
<1>17. ApprovedInv
  BY <1>2, <1>4, <1>14 DEF ApprovedInv, Agreed, OverwriteApproved, NoDecision
<1> QED
  BY <1>10, <1>12, <1>13, <1>15, <1>16, <1>17 DEF BatchInv, SummaryInv, AnswersInv, ProtocolInv

LEMMA BatchStep ==
  ASSUME BatchInv, [Next]_vars
  PROVE  BatchInv'
<1> SummaryInv /\ AnswersInv /\ ApprovedInv
  BY DEF BatchInv
<1>1. ASSUME NEW w \in Workers, WorkerStep(w)
      PROVE  BatchInv'
  <2>1. CASE CheckSlot(w)
    BY <2>1, CheckSlotSummary, CheckSlotAnswers, WorkerApproved DEF BatchInv
  <2>2. CASE AcquireSlot(w)
    BY <2>2, AcquireSlotSummary, AcquireSlotAnswers, WorkerApproved DEF BatchInv
  <2>3. CASE Pop(w)
    BY <2>3, PopSummary, PopAnswers, WorkerApproved DEF BatchInv
  <2>4. CASE Begin(w)
    BY <2>4, BeginSummary, BeginAnswers, WorkerApproved DEF BatchInv
  <2>5. CASE TransferEnds(w)
    BY <2>5, TransferEndsSummary, TransferEndsAnswers, TransferEndsApproved DEF BatchInv
  <2>6. CASE Account(w)
    BY <2>6, AccountSummary, AccountAnswers, WorkerApproved DEF BatchInv
  <2>7. CASE ShowConflict(w)
    BY <2>7, ShowConflictSummary, ShowConflictAnswers, ShowConflictApproved DEF BatchInv
  <2>8. CASE CheckDecision(w)
    BY <2>8, CheckDecisionSummary, CheckDecisionAnswers, CheckDecisionApproved DEF BatchInv
  <2>9. CASE Wake(w)
    BY <2>9, WakeSummary, WakeAnswers, WorkerApproved DEF BatchInv
  <2>10. CASE Withdraw(w)
    BY <2>10, WithdrawSummary, WithdrawAnswers, WithdrawApproved DEF BatchInv
  <2>11. CASE StopBatch(w)
    BY <2>11, StopBatchSummary, StopBatchAnswers, WorkerApproved DEF BatchInv
  <2>12. CASE Join(w)
    <3>1. ~NoPanic'
      BY <2>12 DEF Join, NoPanic
    <3> QED
      BY <2>12, <3>1, JoinSummary, JoinAnswers DEF BatchInv, ApprovedInv
  <2> QED
    BY <1>1, <2>1, <2>2, <2>3, <2>4, <2>5, <2>6, <2>7, <2>8, <2>9, <2>10, <2>11, <2>12 DEF WorkerStep
<1>2. ASSUME NEW w \in Workers, Panic(w)
      PROVE  BatchInv'
  <2>1. ~NoPanic'
    BY <1>2, GoStep DEF Panic, NoPanic, WorkerPcs, Moves, SummaryInv
  <2> QED
    BY <1>2, <2>1, PanicSummary, PanicAnswers DEF BatchInv, ApprovedInv
<1>3. CASE End
  BY <1>3, EndSummary, EndAnswers, AroundApproved DEF BatchInv
<1>4. CASE Cancel \/ LoseSession \/ OthersTake \/ OthersGive
  BY <1>4, AroundSummary, AsideAnswers, AroundApproved DEF BatchInv
<1>5. CASE WindowStep \/ OpenWindow \/ Answer \/ LoseWindow
  <2>1. SummaryInv' /\ ApprovedInv'
    BY <1>5, AroundSummary, AroundApproved
  <2>2. AnswersInv'
    BY <1>5, AttachAnswers, ReceiveAnswers, ServeCallAnswers, ReturnAnswers, OpenWindowAnswers,
       AnswerAnswers, LoseWindowAnswers DEF WindowStep
  <2> QED
    BY <2>1, <2>2 DEF BatchInv
<1>6. CASE UNCHANGED vars
  <2>1. SummaryInv'
    BY <1>6 DEF vars, SummaryInv, TypeOK, FreeSlots, Holds, CountInv, Running, Work, Busy, Left, Terminal,
                CompletedMeansAll, Accounted, Joined, Count, InPhase
  <2>2. AnswersInv'
    BY <1>6 DEF vars, AnswersInv, ConflictInv, ShownConflictWaits, Waits, QueueInv, Busy, TurnInv, Live,
                NoPanic, WindowInv, ProtocolInv, AnswerInv, FreshUnseen, Fresh, Ahead, NamesFiles,
                Questions, Undecided, EventsTrue, EventsLast, Event, Answers
  <2>3. ApprovedInv'
    BY <1>6 DEF vars, ApprovedInv, NoPanic, Live, Agreed, OverwriteApproved
  <2> QED
    BY <2>1, <2>2, <2>3 DEF BatchInv
<1> QED
  BY <1>1, <1>2, <1>3, <1>4, <1>5, <1>6 DEF Next

LEMMA CountsAgreeFollows ==
  ASSUME SummaryInv
  PROVE  CountsAgree
<1> SUFFICES ASSUME ~Terminal, ~failedWorker, \A w \in Workers : worker[w].pc # "panicked"
             PROVE  /\ summary.active = Cardinality(InHand)
                    /\ summary.queued = Len(queue) + Cardinality({w \in Workers : worker[w].pc = "begin"})
                    /\ ~cancelled => summary.queued + summary.active + summary.downloaded + summary.skipped
                                       + summary.failed = Files
  BY DEF CountsAgree
<1>1. Running
  BY DEF SummaryInv, CountInv
<1>2. Count({"panicked"}) = 0 /\ Count(HandPcs) \in Nat
  BY CountNone, CountType
<1>3. Count(HandPcs) = Cardinality(InHand)
  BY DEF Count, InPhase, HandPcs, InHand
<1>4. Count({"begin"}) = Cardinality({w \in Workers : worker[w].pc = "begin"})
  <2>1. InPhase({"begin"}) = {w \in Workers : worker[w].pc = "begin"}
    BY DEF InPhase
  <2> QED
    BY <2>1 DEF Count
<1>5. summary.active = Cardinality(InHand)
  BY <1>1, <1>2, <1>3 DEF Running
<1>6. ~cancelled => summary.queued + summary.active + summary.downloaded + summary.skipped
                      + summary.failed = Files
  <2>1. summary \in Summaries
    BY DEF SummaryInv, TypeOK
  <2> QED
    BY <1>1, <2>1, FilesAssumption DEF Running, Accounted, Summaries
<1> QED
  BY <1>1, <1>4, <1>5, <1>6 DEF Running

LEMMA BatchInvariant == Spec => []BatchInv
<1>1. Init => BatchInv
  <2>1. 0 \in 0..Files
    BY FilesAssumption
  <2> QED
    BY <2>1, BegunInv DEF Init
<1>2. BatchInv /\ [Next]_vars => BatchInv'
  BY BatchStep
<1> QED
  BY <1>1, <1>2, PTL DEF Spec

\* The summary of a batch is true at every moment, for any number of workers, files
\* and slots, whatever is cancelled, lost or panics: the counters that update keeps
\* add up, a completed batch has dealt with every file, and the conflict that is
\* shown is that of the one worker that waits.
THEOREM SummaryIsTrue == Spec => []SummaryTrue
<1>1. BatchInv => SummaryTrue
  BY CountsAgreeFollows
     DEF BatchInv, SummaryInv, CountInv, AnswersInv, ConflictInv, SummaryTrue
<1> QED
  BY <1>1, BatchInvariant, PTL

\* While no worker has panicked, a file is overwritten only if the user agreed to
\* overwrite that very file, although the call resolve_conflict names the job and not
\* the file, whenever windows close and open and answers arrive.
THEOREM OnlyApprovedOverwritten ==
  Spec => []((\A w \in Workers : worker[w].pc # "panicked") => OverwriteApproved)
<1>1. BatchInv => ((\A w \in Workers : worker[w].pc # "panicked") => OverwriteApproved)
  BY DEF BatchInv, ApprovedInv, NoPanic
<1> QED
  BY <1>1, BatchInvariant, PTL
=============================================================================
