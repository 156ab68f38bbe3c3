---------------------------- MODULE GuiLifecycle ----------------------------
(***************************************************************************)
(* Life of the FsTTY process and of its main window:                       *)
(*   - a second start or the tray activates the window: one activation at  *)
(*     a time waits for the set-up, for the end of a lightweight           *)
(*     transaction and for the destruction of the old window, then finds   *)
(*     or creates the window on a worker and shows it on the main thread;  *)
(*   - committing lightweight mode destroys the window;                    *)
(*   - closing the window, the tray's quit or the loss of the last window  *)
(*     asks the event loop to exit, which shuts the services down first.   *)
(* What happens to terminals meanwhile is in LightweightMode.              *)
(***************************************************************************)
EXTENDS Naturals

CONSTANTS MaxWindows,           \* bound: windows created
          FinishWhileEntering   \* environment: the page calls finish for its restore
                                \* while lightweight mode is entered again

ASSUME WindowsAssumption == MaxWindows \in Nat
ASSUME FinishAssumption  == FinishWhileEntering \in BOOLEAN

VARIABLES phase,      \* GuiPhase
          activating, \* the activation slot
          task,       \* the activation that holds it
          window,     \* the main window: generation, state
          destroying, \* window_destroying
          txn,        \* the lightweight transaction and its commit
          active,     \* the mode saved in the configuration
          tray,       \* there is a tray icon
          restore,    \* what the page of the last window has to finish
          finish,     \* its finish_lightweight_restore call
          exitEvent,  \* an exit with a code waits in the event loop
          ended       \* the event loop has returned

vars == <<phase, activating, task, window, destroying, txn, active, tray, restore, finish, exitEvent, ended>>

Exiting == phase \in {"exitRequested", "shuttingDown", "shutdownComplete"}

\* `prepared' is the window the activation will show, `guard' its read lock on
\* gui_activity.
NoTask == [pc |-> "none", guard |-> FALSE, prepared |-> 0, created |-> FALSE]

\* `before' is the mode to go back to when the window cannot be destroyed.
NoTxn == [pc |-> "none", before |-> FALSE]

-----------------------------------------------------------------------------
(* Set-up and exit.                                                         *)

\* setup() creates the window unless the program starts in lightweight mode;
\* without a tray it falls back to normal mode.
SetUp ==
  /\ ~ended /\ phase = "starting"
  /\ tray' \in BOOLEAN
  /\ active' = (active /\ tray')
  /\ window' = IF active' THEN window ELSE [gen |-> window.gen + 1, state |-> "shown"]
  /\ phase' = "ready"
  /\ UNCHANGED <<activating, task, destroying, txn, restore, finish, exitEvent, ended>>

\* The close button of the window, or quit in the tray menu.
RequestExit ==
  /\ ~ended /\ phase # "starting"
  /\ phase' = IF Exiting THEN phase ELSE "exitRequested"
  /\ exitEvent' = TRUE
  /\ UNCHANGED <<activating, task, window, destroying, txn, active, tray, restore, finish, ended>>

\* RunEvent::ExitRequested, with the code of app.exit or without one.
HandleExitAlways(code) ==
  IF phase = "shutdownComplete" THEN ended' = TRUE /\ UNCHANGED phase
  ELSE phase' = "shuttingDown" /\ UNCHANGED ended

HandleExit(code) ==
  IF ~Exiting /\ ~code /\ active THEN UNCHANGED <<phase, ended>>
  ELSE IF phase = "shutdownComplete" THEN ended' = TRUE /\ UNCHANGED phase
  ELSE phase' = "shuttingDown" /\ UNCHANGED ended

ExitEvent ==
  /\ ~ended /\ exitEvent
  /\ exitEvent' = FALSE
  /\ HandleExit(TRUE)
  /\ UNCHANGED <<activating, task, window, destroying, txn, active, tray, restore, finish>>

ShutdownUnmarked ==
  /\ ~ended /\ phase = "shuttingDown"
  /\ exitEvent' = TRUE
  /\ UNCHANGED <<phase, activating, task, window, destroying, txn, active, tray, restore, finish, ended>>

\* Terminals, metrics, transfer jobs and the history are shut down, then the
\* program asks to exit again.
ShutdownDone ==
  /\ ~ended /\ phase = "shuttingDown"
  /\ phase' = "shutdownComplete"
  /\ exitEvent' = TRUE
  /\ UNCHANGED <<activating, task, window, destroying, txn, active, tray, restore, finish, ended>>

\* The event loop removes a destroyed window; it was the last one.
DestroyedKeepsFlag ==
  /\ ~ended /\ window.state = "doomed"
  /\ window' = [window EXCEPT !.state = "none"]
  /\ HandleExit(FALSE)
  /\ UNCHANGED <<activating, task, destroying, txn, active, tray, restore, finish, exitEvent>>

Destroyed ==
  /\ ~ended /\ window.state = "doomed"
  /\ window' = [window EXCEPT !.state = "none"]
  /\ destroying' = FALSE
  /\ HandleExit(FALSE)
  /\ UNCHANGED <<activating, task, txn, active, tray, restore, finish, exitEvent>>

-----------------------------------------------------------------------------
(* Activation.  Dropping the activation frees the slot and its read lock.   *)

\* try_activate, first part: the slot is taken with a compare-and-exchange.
Request ==
  /\ ~ended /\ ~Exiting /\ ~activating
  /\ activating' = TRUE
  /\ task' = [NoTask EXCEPT !.pc = "recheck"]
  /\ UNCHANGED <<phase, window, destroying, txn, active, tray, restore, finish, exitEvent, ended>>

ReleaseKeepsSlot == task' = NoTask /\ UNCHANGED activating
Release          == task' = NoTask /\ activating' = FALSE

Advance(pc) == task' = [task EXCEPT !.pc = pc] /\ UNCHANGED activating

\* An exit may have been requested between the check and the exchange.
Recheck ==
  /\ ~ended /\ task.pc = "recheck"
  /\ IF Exiting THEN Release ELSE Advance("setup")
  /\ UNCHANGED <<phase, window, destroying, txn, active, tray, restore, finish, exitEvent, ended>>

AwaitSetUp ==
  /\ ~ended /\ task.pc = "setup" /\ phase # "starting"
  /\ IF phase = "ready" THEN Advance("guard") ELSE Release
  /\ UNCHANGED <<phase, window, destroying, txn, active, tray, restore, finish, exitEvent, ended>>

\* window_activation_guard: a read lock, held until the window is shown.
AwaitGuard ==
  /\ ~ended /\ task.pc = "guard"
  /\ \/ Exiting /\ Release
     \/ /\ ~Exiting /\ txn = NoTxn
        /\ task' = [task EXCEPT !.pc = "destruction", !.guard = TRUE]
        /\ UNCHANGED activating
  /\ UNCHANGED <<phase, window, destroying, txn, active, tray, restore, finish, exitEvent, ended>>

WindowAssumedGone == TRUE
WindowGone        == ~destroying

\* The wait for the old window's destruction, for at most 30 s.
AwaitDestruction ==
  /\ ~ended /\ task.pc = "destruction"
  /\ \/ (Exiting \/ ~WindowGone) /\ Release
     \/ ~Exiting /\ WindowGone /\ Advance("prepare")
  /\ UNCHANGED <<phase, window, destroying, txn, active, tray, restore, finish, exitEvent, ended>>

\* prepare_main_window, on a worker thread.
Prepare ==
  /\ ~ended /\ task.pc = "prepare"
  /\ \/ Exiting /\ Release /\ UNCHANGED <<window, restore>>
     \/ /\ ~Exiting /\ window.state # "none"
        /\ task' = [task EXCEPT !.pc = "present", !.prepared = window.gen]
        /\ UNCHANGED <<activating, window, restore>>
     \/ /\ ~Exiting /\ window.state = "none" /\ window.gen < MaxWindows
        /\ window' = [gen |-> window.gen + 1, state |-> "hidden"]
        /\ task' = [task EXCEPT !.pc = "present", !.prepared = window.gen + 1, !.created = TRUE]
        /\ restore' = "unread"
        /\ UNCHANGED activating
     \/ ~Exiting /\ window.state = "none" /\ Release /\ UNCHANGED <<window, restore>>
  /\ UNCHANGED <<phase, destroying, txn, active, tray, finish, exitEvent, ended>>

\* present_main_window, on the main thread.  A new window is destroyed again when
\* the program is exiting (this may fail); otherwise it is shown.
PresentAnyway ==
  /\ ~ended /\ task.pc = "present" /\ Release
  /\ window' = [window EXCEPT !.state = "shown"]
  /\ UNCHANGED <<phase, destroying, txn, active, tray, restore, finish, exitEvent, ended>>

Present ==
  /\ ~ended /\ task.pc = "present" /\ Release
  /\ \/ Exiting /\ task.created /\ window' = [window EXCEPT !.state = "doomed"]
     \/ ~Exiting /\ window' = [window EXCEPT !.state = "shown"]
     \/ UNCHANGED window
  /\ UNCHANGED <<phase, destroying, txn, active, tray, restore, finish, exitEvent, ended>>

-----------------------------------------------------------------------------
(* Lightweight mode: the transaction excludes activations; its commit saves  *)
(* the mode, announces the destruction and submits it.                      *)

\* The button of the page.  Without a tray nothing could bring a window back, so
\* the command refuses.
Begin ==
  /\ ~ended /\ window.state = "shown" /\ restore # "unread"
  /\ tray /\ txn = NoTxn /\ ~task.guard
  /\ txn' = [NoTxn EXCEPT !.pc = "begun"]
  /\ UNCHANGED <<phase, activating, task, window, destroying, active, tray, restore, finish, exitEvent, ended>>

\* The transaction is aborted, times out, or its commit fails before the window
\* is touched.
Abort ==
  /\ ~ended /\ txn.pc = "begun"
  /\ txn' = NoTxn
  /\ UNCHANGED <<phase, activating, task, window, destroying, active, tray, restore, finish, exitEvent, ended>>

\* Between begin and commit the page waits for several answers: a finish it called
\* earlier has had its turn by then.
SaveMode ==
  /\ ~ended /\ txn.pc = "begun" /\ finish # "sent"
  /\ active' = TRUE
  /\ txn' = [pc |-> "saved", before |-> active]
  /\ UNCHANGED <<phase, activating, task, window, destroying, tray, restore, finish, exitEvent, ended>>

AnnounceDestruction ==
  /\ ~ended /\ txn.pc = "saved"
  /\ destroying' = TRUE
  /\ txn' = [txn EXCEPT !.pc = "announced"]
  /\ UNCHANGED <<phase, activating, task, window, active, tray, restore, finish, exitEvent, ended>>

SubmitDestruction ==
  /\ ~ended /\ txn.pc = "announced"
  /\ window' = [window EXCEPT !.state = "doomed"]
  /\ txn' = [txn EXCEPT !.pc = "committed"]
  /\ UNCHANGED <<phase, activating, task, destroying, active, tray, restore, finish, exitEvent, ended>>

DestructionFails ==
  /\ ~ended /\ txn.pc = "announced"
  /\ destroying' = FALSE
  /\ active' = txn.before
  /\ txn' = NoTxn
  /\ UNCHANGED <<phase, activating, task, window, tray, restore, finish, exitEvent, ended>>

Committed ==
  /\ ~ended /\ txn.pc = "committed"
  /\ txn' = NoTxn
  /\ UNCHANGED <<phase, activating, task, window, destroying, active, tray, restore, finish, exitEvent, ended>>

-----------------------------------------------------------------------------
(* The page (main.tsx, useLightweightRestore.ts, Workspace.tsx).            *)

\* What the page has to finish: it does not know yet ("unread"), nothing, a
\* restore ("due"), one it has called finish for ("asked"), one that failed, for
\* which it shows the retry button.
Restores == {"unread", "none", "due", "asked", "failed"}

\* start() asks for the mode once, before it draws anything; without an answer the
\* page is one of normal mode.
LoadPage ==
  /\ ~ended /\ window.state # "none" /\ restore = "unread"
  /\ restore' \in {"none", IF active THEN "due" ELSE "none"}
  /\ UNCHANGED <<phase, activating, task, window, destroying, txn, active, tray, finish, exitEvent, ended>>

Entering == txn # NoTxn

\* The sessions and terminals of a restored window have loaded, or the user retries
\* a restore that failed.  A call made while lightweight mode is entered may come
\* "late", behind the commit; a window that is being destroyed calls no more.
CallFinish ==
  /\ ~ended /\ window.state \in {"hidden", "shown"}
  /\ restore \in {"due", "failed"} /\ finish = "none"
  /\ Entering => FinishWhileEntering
  /\ restore' = "asked"
  /\ finish' = IF Entering THEN "late" ELSE "sent"
  /\ UNCHANGED <<phase, activating, task, window, destroying, txn, active, tray, exitEvent, ended>>

Told(answer) == restore' = IF restore = "asked" THEN answer ELSE restore

\* finish_restore waits for the runtime lock, which a commit holds to its end; it
\* is refused during a transaction, and otherwise leaves the mode, which may fail.
FinishRestore ==
  /\ ~ended /\ finish # "none" /\ txn.pc \in {"none", "begun"}
  /\ finish' = "none"
  /\ \/ txn.pc = "none" /\ active' = FALSE /\ Told("none")
     \/ UNCHANGED active /\ Told("failed")
  /\ UNCHANGED <<phase, activating, task, window, destroying, txn, tray, exitEvent, ended>>

-----------------------------------------------------------------------------
Init ==
  /\ phase = "starting" /\ activating = FALSE /\ task = NoTask
  /\ window = [gen |-> 0, state |-> "none"] /\ destroying = FALSE
  /\ txn = NoTxn /\ active \in BOOLEAN
  /\ tray = FALSE /\ restore = "unread" /\ finish = "none"
  /\ exitEvent = FALSE /\ ended = FALSE

TaskStep == Recheck \/ AwaitSetUp \/ AwaitGuard \/ AwaitDestruction \/ Prepare \/ Present

CommitStep == AnnounceDestruction \/ SubmitDestruction \/ DestructionFails \/ Committed

EventLoop == ExitEvent \/ Destroyed

Next ==
  \/ SetUp \/ EventLoop \/ ShutdownDone \/ TaskStep \/ CommitStep
  \/ RequestExit \/ Request
  \/ Begin \/ Abort \/ SaveMode
  \/ LoadPage \/ CallFinish \/ FinishRestore

Spec == Init /\ [][Next]_vars

\* The event loop and the runtime's tasks run, services shut down in bounded
\* time, every transaction ends (60 s) and the lock is granted in turn (Tokio
\* queues readers; begin only tries).  Nobody has to click anything.
FairSpec ==
  /\ Spec
  /\ WF_vars(SetUp) /\ WF_vars(ExitEvent) /\ WF_vars(Destroyed) /\ WF_vars(ShutdownDone)
  /\ WF_vars(CommitStep) /\ WF_vars(Abort \/ SaveMode)
  /\ WF_vars(Recheck \/ AwaitSetUp) /\ SF_vars(AwaitGuard) /\ WF_vars(AwaitDestruction)
  /\ WF_vars(Prepare) /\ WF_vars(Present)

-----------------------------------------------------------------------------
Phases == {"starting", "ready", "exitRequested", "shuttingDown", "shutdownComplete"}

ActivationPcs == {"none", "recheck", "setup", "guard", "destruction", "prepare", "present"}

Activations == [pc : ActivationPcs, guard : BOOLEAN, prepared : Nat, created : BOOLEAN]

\* Every variable keeps its type, and the slot is taken exactly while an
\* activation holds it.
TypeOK ==
  /\ phase \in Phases
  /\ destroying \in BOOLEAN /\ active \in BOOLEAN
  /\ exitEvent \in BOOLEAN /\ ended \in BOOLEAN
  /\ tray \in BOOLEAN /\ restore \in Restores /\ finish \in {"none", "sent", "late"}
  /\ task \in Activations
  /\ activating \in BOOLEAN /\ (activating <=> task.pc # "none")
  /\ window \in [gen : Nat, state : {"none", "hidden", "shown", "doomed"}]
  /\ txn \in [pc : {"none", "begun", "saved", "announced", "committed"}, before : BOOLEAN]

\* The window an activation is about to show is the present one and its
\* destruction has not been submitted.
FreshWindow ==
  task.pc = "present" =>
    task.prepared = window.gen /\ window.state \in {"hidden", "shown"}

\* The destruction of the window by lightweight mode never ends the process:
\* it shuts down only when an exit was asked for.
ExitOnlyOnRequest ==
  [][phase' # phase /\ phase' = "shuttingDown" => phase = "exitRequested"]_vars

\* A program that is exiting shows no window.
NoWindowOnExit ==
  [][Exiting /\ window'.state = "shown" => window.state = "shown"]_vars

\* A request to exit is always carried out, and only after the shutdown.
ExitEnds == Exiting ~> ended

\* An activation frees its slot in the end, so a later click works.
SlotFreed == activating ~> ~activating \/ ended

\* No activation waits for a destruction that is over or never started.
DestructionEnds == destroying ~> ~destroying \/ ended
=============================================================================
