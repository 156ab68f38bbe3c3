---------------------------- MODULE DesktopProofs ----------------------------
(***************************************************************************)
(* Proofs about what the desktop has to end: the windows (GuiLifecycle),   *)
(* the host of a shell (LocalHost), the profile files it runs on           *)
(* (ShellProfile) and the history of commands (CommandHistory), each in    *)
(* the instance MCDesktop that runs them.  Start-up of terminals and what  *)
(* must end are checked by its run only.                                  *)
(***************************************************************************)
EXTENDS MCDesktop, SequenceTheorems, FiniteSetTheorems, WellFoundedInduction, TLAPS

-----------------------------------------------------------------------------
(* The windows: an activation shows the present window only, and the        *)
(* destruction of the window never ends the process.                        *)

Guarded == {"destruction", "prepare", "present"}

\* An activation behind the guard excludes transactions, and so the window's
\* destruction; the window it has prepared is the present one.
TaskInv ==
  /\ task.guard => txn = NoTxn
  /\ task.guard <=> task.pc \in Guarded
  /\ task.pc \in {"prepare", "present"} => window.state # "doomed" \/ Exiting
  /\ task.pc = "present" => task.prepared = window.gen /\ window.state \in {"hidden", "shown"}

\* A transaction that has not destroyed its window still has it, and the mode is
\* saved and the destruction announced before it is submitted.
TxnInv ==
  /\ txn.pc \in {"begun", "saved", "announced"} => window.state = "shown"
  /\ txn.pc \in {"saved", "announced"} => active \/ FinishWhileEntering
  /\ txn.pc = "announced" => destroying
  /\ window.state = "doomed" /\ ~Exiting => destroying
  /\ window.state = "doomed" /\ ~Exiting => active \/ FinishWhileEntering

\* A call that ends the restore comes from a window that stays for its answer.
FinishInv ==
  finish # "none" =>
    \/ FinishWhileEntering
    \/ /\ finish = "sent"
       /\ window.state # "doomed" \/ Exiting
       /\ txn.pc \in {"none", "begun"}

PhaseInv ==
  /\ exitEvent => Exiting
  /\ phase = "starting" => window.state = "none" /\ txn = NoTxn
  /\ phase = "starting" => task.pc \in {"none", "recheck", "setup"}

Inv == TypeOK /\ TaskInv /\ TxnInv /\ FinishInv /\ PhaseInv

-----------------------------------------------------------------------------
\* What one step does to the activation.
LEMMA PcFacts ==
  {"recheck", "setup", "guard", "destruction", "prepare", "present"} \subseteq ActivationPcs
BY DEF ActivationPcs

LEMMA NoTaskFacts ==
  /\ NoTask \in Activations
  /\ NoTask.pc = "none" /\ NoTask.guard = FALSE
BY DEF NoTask, Activations, ActivationPcs

LEMMA SetPc ==
  ASSUME NEW t \in Activations, NEW pc \in ActivationPcs, NEW r, r = [t EXCEPT !.pc = pc]
  PROVE  r \in Activations /\ r.pc = pc /\ r.guard = t.guard
BY DEF Activations

LEMMA SetGuard ==
  ASSUME NEW t \in Activations, NEW pc \in ActivationPcs, NEW r, r = [t EXCEPT !.pc = pc, !.guard = TRUE]
  PROVE  r \in Activations /\ r.pc = pc /\ r.guard = TRUE
BY DEF Activations

\* An activation that ends disturbs nothing.
LEMMA ReleaseInv ==
  ASSUME Inv, Release, UNCHANGED <<phase, window, destroying, txn, active, tray, restore, finish, exitEvent, ended>>
  PROVE  Inv'
<1>1. TypeOK'
  BY NoTaskFacts DEF Inv, Release, TypeOK
<1>2. TaskInv'
  BY NoTaskFacts DEF Release, TaskInv, Guarded
<1> QED BY <1>1, <1>2, NoTaskFacts DEF Inv, Release, TxnInv, FinishInv, PhaseInv, Exiting

\* An activation that goes on before it has prepared a window.
LEMMA AdvanceInv ==
  ASSUME Inv, task.pc # "none", NEW pc \in {"setup", "guard", "prepare"}, Advance(pc),
         task.pc \in Guarded <=> pc \in Guarded,
         pc = "prepare" => window.state # "doomed" \/ Exiting,
         phase = "starting" => pc = "setup",
         UNCHANGED <<phase, window, destroying, txn, active, tray, restore, finish, exitEvent, ended>>
  PROVE  Inv'
<1>1. task' \in Activations /\ task'.pc = pc /\ task'.guard = task.guard
  BY SetPc, PcFacts DEF Inv, TypeOK, Advance
<1>2. TypeOK'
  BY <1>1 DEF Inv, Advance, TypeOK
<1>3. TaskInv'
  BY <1>1 DEF Inv, TaskInv, Guarded, Exiting
<1> QED BY <1>1, <1>2, <1>3 DEF Inv, Advance, TxnInv, FinishInv, PhaseInv, Exiting

-----------------------------------------------------------------------------
LEMMA InitInv == Init => Inv
<1> SUFFICES ASSUME Init PROVE Inv
  OBVIOUS
<1>1. TypeOK
  BY NoTaskFacts DEF Init, TypeOK, NoTxn, Phases, Restores
<1> QED BY <1>1, NoTaskFacts DEF Init, Inv, TaskInv, TxnInv, FinishInv, PhaseInv, NoTxn, Exiting, Guarded

LEMMA SetUpInv == Inv /\ SetUp => Inv'
<1> SUFFICES ASSUME Inv, SetUp PROVE Inv'
  OBVIOUS
<1> USE FinishAssumption DEF Inv, SetUp, NoTxn, Exiting
<1>1. TypeOK'
  BY DEF TypeOK, Phases
<1>2. TaskInv'
  BY DEF TypeOK, TaskInv, TxnInv, PhaseInv, Guarded
<1>3. TxnInv'
  BY DEF TypeOK, TaskInv, TxnInv, FinishInv, PhaseInv, Guarded
<1>4. FinishInv'
  BY DEF TypeOK, TaskInv, TxnInv, FinishInv, PhaseInv
<1>5. PhaseInv'
  BY DEF TypeOK, TaskInv, PhaseInv, Guarded
<1> QED BY <1>1, <1>2, <1>3, <1>4, <1>5 DEF Inv

LEMMA RequestExitInv == Inv /\ RequestExit => Inv'
<1> SUFFICES ASSUME Inv, RequestExit PROVE Inv'
  OBVIOUS
<1> USE DEF Inv, RequestExit, NoTxn, Exiting
<1>1. TypeOK'
  BY DEF TypeOK, Phases
<1>2. TaskInv'
  BY DEF TypeOK, TaskInv, TxnInv, PhaseInv, Guarded
<1>3. TxnInv'
  BY DEF TypeOK, TaskInv, TxnInv, FinishInv, PhaseInv, Guarded
<1>4. FinishInv'
  BY DEF TypeOK, TaskInv, TxnInv, FinishInv, PhaseInv
<1>5. PhaseInv'
  BY DEF TypeOK, TaskInv, PhaseInv, Guarded
<1> QED BY <1>1, <1>2, <1>3, <1>4, <1>5 DEF Inv

LEMMA ExitEventInv == Inv /\ ExitEvent => Inv'
<1> SUFFICES ASSUME Inv, ExitEvent PROVE Inv'
  OBVIOUS
<1> USE DEF Inv, ExitEvent, HandleExit, NoTxn, Exiting
<1>1. TypeOK'
  <2>1. phase' \in {phase, "shuttingDown"} /\ ended' \in {ended, TRUE} /\ exitEvent' = FALSE
    OBVIOUS
  <2>2. phase' \in Phases /\ ended' \in BOOLEAN
    BY <2>1 DEF TypeOK, Phases
  <2> QED BY <2>1, <2>2 DEF TypeOK
<1>2. TaskInv'
  BY DEF TypeOK, TaskInv, TxnInv, PhaseInv, Guarded
<1>3. TxnInv'
  BY DEF TypeOK, TaskInv, TxnInv, FinishInv, PhaseInv, Guarded
<1>4. FinishInv'
  BY DEF TypeOK, TaskInv, TxnInv, FinishInv, PhaseInv
<1>5. PhaseInv'
  BY DEF TypeOK, TaskInv, PhaseInv, Guarded
<1> QED BY <1>1, <1>2, <1>3, <1>4, <1>5 DEF Inv

LEMMA ShutdownDoneInv == Inv /\ ShutdownDone => Inv'
<1> SUFFICES ASSUME Inv, ShutdownDone PROVE Inv'
  OBVIOUS
<1> USE DEF Inv, ShutdownDone, NoTxn, Exiting
<1>1. TypeOK'
  BY DEF TypeOK, Phases
<1>2. TaskInv'
  BY DEF TypeOK, TaskInv, TxnInv, PhaseInv, Guarded
<1>3. TxnInv'
  BY DEF TypeOK, TaskInv, TxnInv, FinishInv, PhaseInv, Guarded
<1>4. FinishInv'
  BY DEF TypeOK, TaskInv, TxnInv, FinishInv, PhaseInv
<1>5. PhaseInv'
  BY DEF TypeOK, TaskInv, PhaseInv, Guarded
<1> QED BY <1>1, <1>2, <1>3, <1>4, <1>5 DEF Inv

LEMMA DestroyedInv == Inv /\ Destroyed => Inv'
<1> SUFFICES ASSUME Inv, Destroyed PROVE Inv'
  OBVIOUS
<1> USE DEF Inv, Destroyed, HandleExit, NoTxn, Exiting
<1>1. TypeOK'
  BY DEF TypeOK, Phases
<1>2. TaskInv'
  BY DEF TypeOK, TaskInv, TxnInv, PhaseInv, Guarded
<1>3. TxnInv'
  BY DEF TypeOK, TaskInv, TxnInv, FinishInv, PhaseInv, Guarded
<1>4. FinishInv'
  BY DEF TypeOK, TaskInv, TxnInv, FinishInv, PhaseInv
<1>5. PhaseInv'
  BY DEF TypeOK, TaskInv, PhaseInv, Guarded
<1> QED BY <1>1, <1>2, <1>3, <1>4, <1>5 DEF Inv

LEMMA RequestInv == Inv /\ Request => Inv'
<1> SUFFICES ASSUME Inv, Request PROVE Inv'
  OBVIOUS
<1>1. task' \in Activations /\ task'.pc = "recheck" /\ task'.guard = FALSE
  BY NoTaskFacts, SetPc, PcFacts DEF Request
<1>2. TypeOK'
  BY <1>1 DEF Inv, TypeOK, Request
<1>3. TaskInv'
  BY <1>1 DEF TaskInv, Guarded
<1> QED BY <1>1, <1>2, <1>3 DEF Inv, Request, TxnInv, FinishInv, PhaseInv, Exiting

LEMMA RecheckInv == Inv /\ Recheck => Inv'
<1> SUFFICES ASSUME Inv, Recheck PROVE Inv'
  OBVIOUS
<1>1. CASE Exiting
  BY <1>1, ReleaseInv DEF Recheck
<1>2. CASE ~Exiting
  BY <1>2, AdvanceInv DEF Recheck, Guarded
<1> QED BY <1>1, <1>2

LEMMA AwaitSetUpInv == Inv /\ AwaitSetUp => Inv'
<1> SUFFICES ASSUME Inv, AwaitSetUp PROVE Inv'
  OBVIOUS
<1>1. CASE phase = "ready"
  BY <1>1, AdvanceInv DEF AwaitSetUp, Guarded
<1>2. CASE phase # "ready"
  BY <1>2, ReleaseInv DEF AwaitSetUp
<1> QED BY <1>1, <1>2

LEMMA AwaitGuardInv == Inv /\ AwaitGuard => Inv'
<1> SUFFICES ASSUME Inv, AwaitGuard PROVE Inv'
  OBVIOUS
<1>1. CASE Exiting
  BY <1>1, ReleaseInv DEF AwaitGuard
<1>2. CASE ~Exiting
  <2>1. task' \in Activations /\ task'.pc = "destruction" /\ task'.guard = TRUE
    BY <1>2, SetGuard, PcFacts DEF Inv, TypeOK, AwaitGuard
  <2>2. txn = NoTxn /\ UNCHANGED activating
    BY <1>2 DEF AwaitGuard
  <2>3. TypeOK'
    BY <2>1, <2>2 DEF Inv, TypeOK, AwaitGuard
  <2>4. TaskInv'
    BY <2>1, <2>2 DEF TaskInv, Guarded, AwaitGuard, NoTxn
  <2>5. phase # "starting"
    BY DEF Inv, AwaitGuard, PhaseInv
  <2> QED BY <2>1, <2>3, <2>4, <2>5 DEF Inv, AwaitGuard, TxnInv, FinishInv, PhaseInv, Exiting
<1> QED BY <1>1, <1>2

LEMMA AwaitDestructionInv == Inv /\ AwaitDestruction => Inv'
<1> SUFFICES ASSUME Inv, AwaitDestruction PROVE Inv'
  OBVIOUS
<1>1. CASE Release
  BY <1>1, ReleaseInv DEF AwaitDestruction
<1>2. CASE ~Exiting /\ WindowGone /\ Advance("prepare")
  <2>1. window.state # "doomed" /\ phase # "starting"
    BY <1>2 DEF Inv, TxnInv, PhaseInv, WindowGone, AwaitDestruction
  <2> QED BY <1>2, <2>1, AdvanceInv DEF AwaitDestruction, Guarded
<1> QED BY <1>1, <1>2 DEF AwaitDestruction

LEMMA PrepareInv == Inv /\ Prepare => Inv'
<1> SUFFICES ASSUME Inv, Prepare PROVE Inv'
  OBVIOUS
<1>1. CASE Release /\ UNCHANGED <<window, restore>>
  BY <1>1, ReleaseInv DEF Prepare
<1>2. CASE ~Release \/ window' # window \/ restore' # restore
  <2> DEFINE w == window'
             Windows == [gen : Nat, state : {"none", "hidden", "shown", "doomed"}]
  <2>0. task.pc = "prepare" /\ ~Exiting /\ window \in Windows /\ window.state # "doomed"
    BY <1>2 DEF Prepare, Inv, TypeOK, TaskInv
  <2>1. /\ w \in Windows /\ w.gen \in Nat /\ w.state \in {"hidden", "shown"}
        /\ UNCHANGED activating
        /\ \/ task' = [task EXCEPT !.pc = "present", !.prepared = w.gen]
           \/ task' = [task EXCEPT !.pc = "present", !.prepared = w.gen, !.created = TRUE]
        /\ window.state = "shown" => window' = window
        /\ restore' \in {restore, "unread"}
    <3>1. CASE window.state # "none"
      <4>1. /\ UNCHANGED <<activating, window, restore>>
            /\ task' = [task EXCEPT !.pc = "present", !.prepared = window.gen]
        BY <1>2, <2>0, <3>1 DEF Prepare
      <4> QED BY <2>0, <3>1, <4>1
    <3>2. CASE window.state = "none"
      <4>1. /\ w = [gen |-> window.gen + 1, state |-> "hidden"] /\ UNCHANGED activating
            /\ restore' = "unread"
            /\ task' = [task EXCEPT !.pc = "present", !.prepared = window.gen + 1, !.created = TRUE]
        BY <1>2, <2>0, <3>2 DEF Prepare
      <4>2. w.gen = window.gen + 1 /\ w.state = "hidden"
        BY <4>1
      <4> QED BY <2>0, <3>2, <4>1, <4>2
    <3> QED BY <3>1, <3>2
  <2>2. task' \in Activations /\ task'.pc = "present" /\ task'.prepared = w.gen /\ task'.guard = task.guard
    <3>1. task \in Activations /\ "present" \in ActivationPcs
      BY PcFacts DEF Inv, TypeOK
    <3>2. CASE task' = [task EXCEPT !.pc = "present", !.prepared = w.gen]
      BY <2>1, <3>1, <3>2 DEF Activations
    <3>3. CASE task' = [task EXCEPT !.pc = "present", !.prepared = w.gen, !.created = TRUE]
      BY <2>1, <3>1, <3>3 DEF Activations
    <3> QED BY <2>1, <3>2, <3>3
  <2>3. TypeOK'
    BY <2>1, <2>2 DEF Inv, TypeOK, Prepare, Restores
  <2>4. task.guard /\ txn = NoTxn /\ phase # "starting"
    BY DEF Inv, TypeOK, TaskInv, PhaseInv, Guarded, Prepare
  <2>5. TaskInv'
    BY <2>1, <2>2, <2>4 DEF TaskInv, Guarded, Prepare, NoTxn
  <2>6. TxnInv' /\ PhaseInv'
    BY <2>1, <2>2, <2>4 DEF Inv, TxnInv, PhaseInv, Prepare, NoTxn, Exiting
  <2>7. FinishInv'
    BY <2>1, <2>4 DEF Inv, FinishInv, Prepare, Exiting
  <2> QED BY <2>3, <2>5, <2>6, <2>7 DEF Inv
<1> QED BY <1>1, <1>2

LEMMA PresentInv == Inv /\ Present => Inv'
<1> SUFFICES ASSUME Inv, Present PROVE Inv'
  OBVIOUS
<1> DEFINE Windows == [gen : Nat, state : {"none", "hidden", "shown", "doomed"}]
<1>1. task.guard /\ txn = NoTxn /\ phase # "starting" /\ window.state \in {"hidden", "shown"} /\ window \in Windows
  BY DEF Inv, TypeOK, TaskInv, PhaseInv, Guarded, Present
<1>2. task'.pc = "none" /\ task'.guard = FALSE /\ task' \in Activations /\ activating' = FALSE
  BY NoTaskFacts DEF Present, Release
<1>3. /\ window' \in Windows
      /\ window'.state = "doomed" => Exiting
      /\ window.state = "shown" => window'.state = "shown" \/ Exiting
  BY <1>1 DEF Present
<1>4. UNCHANGED <<phase, destroying, txn, active, tray, restore, finish, exitEvent, ended>>
  BY DEF Present
<1>5. TypeOK'
  BY <1>2, <1>3, <1>4 DEF Inv, TypeOK
<1>6. TaskInv' /\ PhaseInv'
  BY <1>1, <1>2, <1>4 DEF Inv, TaskInv, PhaseInv, Guarded, Exiting
<1>7. TxnInv' /\ FinishInv'
  BY <1>1, <1>3, <1>4 DEF Inv, TxnInv, FinishInv, NoTxn, Exiting
<1> QED BY <1>5, <1>6, <1>7 DEF Inv

LEMMA BeginInv == Inv /\ Begin => Inv'
<1> SUFFICES ASSUME Inv, Begin PROVE Inv'
  OBVIOUS
<1> USE DEF Inv, Begin, NoTxn, Exiting
<1>1. TypeOK'
  BY DEF TypeOK, Phases
<1>2. TaskInv'
  BY DEF TypeOK, TaskInv, TxnInv, PhaseInv, Guarded
<1>3. TxnInv'
  BY DEF TypeOK, TaskInv, TxnInv, FinishInv, PhaseInv, Guarded
<1>4. FinishInv'
  BY DEF TypeOK, TaskInv, TxnInv, FinishInv, PhaseInv
<1>5. PhaseInv'
  BY DEF TypeOK, TaskInv, PhaseInv, Guarded
<1> QED BY <1>1, <1>2, <1>3, <1>4, <1>5 DEF Inv

LEMMA AbortInv == Inv /\ Abort => Inv'
<1> SUFFICES ASSUME Inv, Abort PROVE Inv'
  OBVIOUS
<1> USE DEF Inv, Abort, NoTxn, Exiting
<1>1. TypeOK'
  BY DEF TypeOK, Phases
<1>2. TaskInv'
  BY DEF TypeOK, TaskInv, TxnInv, PhaseInv, Guarded
<1>3. TxnInv'
  BY DEF TypeOK, TaskInv, TxnInv, FinishInv, PhaseInv, Guarded
<1>4. FinishInv'
  BY DEF TypeOK, TaskInv, TxnInv, FinishInv, PhaseInv
<1>5. PhaseInv'
  BY DEF TypeOK, TaskInv, PhaseInv, Guarded
<1> QED BY <1>1, <1>2, <1>3, <1>4, <1>5 DEF Inv

LEMMA SaveModeInv == Inv /\ SaveMode => Inv'
<1> SUFFICES ASSUME Inv, SaveMode PROVE Inv'
  OBVIOUS
<1> USE DEF Inv, SaveMode, NoTxn, Exiting
<1>1. TypeOK'
  BY DEF TypeOK, Phases
<1>2. TaskInv'
  BY DEF TypeOK, TaskInv, TxnInv, PhaseInv, Guarded
<1>3. TxnInv'
  BY DEF TypeOK, TaskInv, TxnInv, FinishInv, PhaseInv, Guarded
<1>4. FinishInv'
  BY DEF TypeOK, TaskInv, TxnInv, FinishInv, PhaseInv
<1>5. PhaseInv'
  BY DEF TypeOK, TaskInv, PhaseInv, Guarded
<1> QED BY <1>1, <1>2, <1>3, <1>4, <1>5 DEF Inv

LEMMA CommitStepInv == Inv /\ CommitStep => Inv'
<1>1. Inv /\ AnnounceDestruction => Inv'
  BY DEF AnnounceDestruction, Inv, TypeOK, TaskInv, TxnInv, FinishInv, PhaseInv, NoTxn, Exiting, Guarded
<1>2. Inv /\ SubmitDestruction => Inv'
  BY DEF SubmitDestruction, Inv, TypeOK, TaskInv, TxnInv, FinishInv, PhaseInv, NoTxn, Exiting, Guarded
<1>3. Inv /\ DestructionFails => Inv'
  <2> SUFFICES ASSUME Inv, DestructionFails PROVE Inv'
    OBVIOUS
  <2>1. TypeOK'
    BY DEF Inv, TypeOK, DestructionFails, NoTxn
  <2>2. window.state = "shown" /\ phase # "starting"
    BY DEF Inv, TxnInv, PhaseInv, DestructionFails
  <2>3. txn'.pc = "none" /\ txn' = NoTxn /\ window' = window
    BY DEF DestructionFails, NoTxn
  <2>4. TxnInv'
    BY <2>2, <2>3 DEF TxnInv
  <2> QED BY <2>1, <2>2, <2>3, <2>4 DEF Inv, DestructionFails, TaskInv, FinishInv, PhaseInv, Exiting
<1>4. Inv /\ Committed => Inv'
  BY DEF Committed, Inv, TypeOK, TaskInv, TxnInv, FinishInv, PhaseInv, NoTxn, Exiting, Guarded
<1> QED BY <1>1, <1>2, <1>3, <1>4 DEF CommitStep

LEMMA LoadPageInv == Inv /\ LoadPage => Inv'
BY DEF LoadPage, Restores, Inv, TypeOK, TaskInv, TxnInv, FinishInv, PhaseInv, NoTxn, Exiting

LEMMA CallFinishInv == Inv /\ CallFinish => Inv'
<1> SUFFICES ASSUME Inv, CallFinish PROVE Inv'
  OBVIOUS
<1> USE FinishAssumption DEF Inv, CallFinish, Entering, Restores, NoTxn, Exiting
<1>1. TypeOK'
  BY DEF TypeOK, Phases
<1>2. TaskInv'
  BY DEF TypeOK, TaskInv, TxnInv, PhaseInv, Guarded
<1>3. TxnInv'
  BY DEF TypeOK, TaskInv, TxnInv, FinishInv, PhaseInv, Guarded
<1>4. FinishInv'
  BY DEF TypeOK, TaskInv, TxnInv, FinishInv, PhaseInv
<1>5. PhaseInv'
  BY DEF TypeOK, TaskInv, PhaseInv, Guarded
<1> QED BY <1>1, <1>2, <1>3, <1>4, <1>5 DEF Inv

LEMMA FinishRestoreInv == Inv /\ FinishRestore => Inv'
<1> SUFFICES ASSUME Inv, FinishRestore PROVE Inv'
  OBVIOUS
<1> USE DEF Inv, FinishRestore, Told, Restores, NoTxn, Exiting
<1>1. TypeOK'
  <2>1. restore' \in Restores /\ active' \in BOOLEAN /\ finish' = "none"
    BY DEF TypeOK
  <2> QED BY <2>1 DEF TypeOK
<1>2. TaskInv'
  BY DEF TypeOK, TaskInv, TxnInv, PhaseInv, Guarded
<1>3. TxnInv'
  BY DEF TypeOK, TaskInv, TxnInv, FinishInv, PhaseInv, Guarded
<1>4. FinishInv'
  BY DEF TypeOK, TaskInv, TxnInv, FinishInv, PhaseInv
<1>5. PhaseInv'
  BY DEF TypeOK, TaskInv, PhaseInv, Guarded
<1> QED BY <1>1, <1>2, <1>3, <1>4, <1>5 DEF Inv

LEMMA StutterInv == Inv /\ UNCHANGED vars => Inv'
BY DEF vars, Inv, TypeOK, TaskInv, TxnInv, FinishInv, PhaseInv, NoTxn, Exiting, Guarded

LEMMA NextInv == Inv /\ [Next]_vars => Inv'
BY SetUpInv, RequestExitInv, ExitEventInv, ShutdownDoneInv, DestroyedInv, RequestInv, RecheckInv,
   AwaitSetUpInv, AwaitGuardInv, AwaitDestructionInv, PrepareInv, PresentInv, BeginInv, AbortInv,
   SaveModeInv, CommitStepInv, LoadPageInv, CallFinishInv, FinishRestoreInv, StutterInv
   DEF Next, EventLoop, TaskStep

LEMMA InvAlways == Spec => []Inv
BY InitInv, NextInv, PTL DEF Spec

\* Every variable of the life cycle keeps its type, and the activation slot is
\* taken exactly while a task holds it.
THEOREM GuiTypeCorrect == Spec => []TypeOK
<1>1. Inv => TypeOK
  BY DEF Inv
<1> QED BY <1>1, InvAlways, PTL

\* The window an activation shows is the present one and is not being destroyed
\* (wait_for_window_destruction, prepare_main_window).
THEOREM ActivationShowsPresentWindow == Spec => []FreshWindow
<1>1. Inv => FreshWindow
  BY DEF Inv, TaskInv, FreshWindow
<1> QED BY <1>1, InvAlways, PTL

\* Unless a restore is finished while lightweight mode is entered, the loss of the
\* window never shuts the process down (keeps_lightweight_background).
THEOREM ShutdownOnlyOnRequest ==
  ASSUME FinishWhileEntering = FALSE
  PROVE  Spec => ExitOnlyOnRequest
<1> DEFINE Requested == phase' # phase /\ phase' = "shuttingDown" => phase = "exitRequested"
<1>1. Inv /\ ExitEvent => Requested
  BY DEF Inv, TypeOK, PhaseInv, ExitEvent, HandleExit, Exiting
<1>2. Inv /\ Destroyed => Requested
  BY DEF Inv, TypeOK, TxnInv, Destroyed, HandleExit, Exiting
<1>3. SetUp \/ ShutdownDone \/ RequestExit => Requested
  BY DEF SetUp, ShutdownDone, RequestExit
<1>4. TaskStep \/ CommitStep \/ Request => UNCHANGED phase
  BY DEF TaskStep, Recheck, AwaitSetUp, AwaitGuard, AwaitDestruction, Prepare, Present, CommitStep,
     AnnounceDestruction, SubmitDestruction, DestructionFails, Committed, Request
<1>5. Begin \/ Abort \/ SaveMode \/ LoadPage \/ CallFinish \/ FinishRestore => UNCHANGED phase
  BY DEF Begin, Abort, SaveMode, LoadPage, CallFinish, FinishRestore
<1>6. Inv /\ [Next]_vars => [Requested]_vars
  BY <1>1, <1>2, <1>3, <1>4, <1>5 DEF Next, EventLoop
<1> QED BY <1>6, InvAlways, PTL DEF Spec, ExitOnlyOnRequest

\* A program that is exiting shows no window it did not already show
\* (present_main_window).
THEOREM ExitShowsNoWindow == Spec => NoWindowOnExit
<1> DEFINE Hidden == Exiting /\ window'.state = "shown" => window.state = "shown"
<1>1. TypeOK /\ TaskStep => Hidden
  BY DEF TypeOK, TaskStep, Recheck, AwaitSetUp, AwaitGuard, AwaitDestruction, Prepare, Present
<1>2. TypeOK /\ (CommitStep \/ SetUp \/ EventLoop) => Hidden
  BY DEF TypeOK, CommitStep, AnnounceDestruction, SubmitDestruction, DestructionFails, Committed, SetUp,
     Exiting, EventLoop, ExitEvent, Destroyed
<1>3. ShutdownDone \/ RequestExit \/ Request => Hidden
  BY DEF ShutdownDone, RequestExit, Request
<1>4. Begin \/ Abort \/ SaveMode \/ LoadPage \/ CallFinish \/ FinishRestore => Hidden
  BY DEF Begin, Abort, SaveMode, LoadPage, CallFinish, FinishRestore
<1>5. TypeOK /\ [Next]_vars => [Hidden]_vars
  BY <1>1, <1>2, <1>3, <1>4 DEF Next
<1> QED BY <1>5, GuiTypeCorrect, PTL DEF Spec, NoWindowOnExit

-----------------------------------------------------------------------------
(* The host of a shell: its exit is told after all of its output.  A place  *)
(* is the number of a piece of output: the console, the hand of the reader  *)
(* and the queue hold consecutive places, the ones after those shown.       *)

Response == [kind : {"command", "data"}, place : Nat]

ShellType ==
  /\ shell \in {"runs", "exited"} /\ printed \in Seq(Shell!Kinds) /\ pty \in Seq(Nat)
  /\ console \in BOOLEAN /\ folded \in BOOLEAN /\ hand \in Seq(Response) /\ reader \in BOOLEAN
  /\ queue \in Seq(Response) /\ main \in {"loop", "close", "join", "report", "end"}
  /\ told \in {"no", "exited", "stopped", "failed"} /\ shown \in Seq(Nat)

\* The place whose data comes after a response.
After(r) == IF r.kind = "data" THEN r.place + 1 ELSE r.place

\* The first place whose data is neither shown nor in the queue.
NotYet == Len(printed) - Len(pty) + (IF hand = <<>> THEN 1 ELSE 0)

\* The console has what the reader has not read.
InConsole ==
  /\ Len(pty) <= Len(printed) 
  /\ \A n \in 1..Len(pty) : pty[n] = Len(printed) - Len(pty) + n

\* What was read last is in hand: its data, and before it its command.
InHand ==
  hand # <<>> =>
    /\ Len(hand) <= 2 /\ Len(pty) < Len(printed)
    /\ \A n \in 1..Len(hand) : hand[n].place = Len(printed) - Len(pty)
    /\ \A n \in 1..Len(hand) : hand[n].kind = (IF n = Len(hand) THEN "data" ELSE "command")

\* The queue goes on where what is shown ends, place by place, up to what is in hand.
InQueue ==
  /\ \A n \in 1..Len(shown) : shown[n] = n
  /\ queue = <<>> => NotYet = Len(shown) + 1
  /\ queue # <<>> => queue[1].place = Len(shown) + 1 /\ After(queue[Len(queue)]) = NotYet
  /\ \A n \in 1..Len(queue) - 1 : queue[n + 1].place = After(queue[n])

\* The threads of the host end one after the other, each with nothing left to do.
InOrder ==
  /\ ~console => main \notin {"loop", "close"}
  /\ ~reader => ~console /\ hand = <<>> /\ pty = <<>>
  /\ main \in {"report", "end"} => ~reader
  /\ told = "exited" => main = "end" /\ queue = <<>>

ShellInv == ShellType /\ InConsole /\ InHand /\ InQueue /\ InOrder

LEMMA Lengths ==
  ASSUME ShellType
  PROVE  /\ Len(printed) \in Nat /\ Len(pty) \in Nat /\ Len(hand) \in Nat /\ Len(queue) \in Nat /\ Len(shown) \in Nat
         /\ Len(hand) = 0 <=> hand = <<>>
         /\ Len(queue) = 0 <=> queue = <<>>
         /\ Len(pty) = 0 <=> pty = <<>>
         /\ \A n \in 1..Len(hand) : hand[n] \in Response
         /\ \A n \in 1..Len(queue) : queue[n] \in Response
BY EmptySeq, LenProperties, ElementOfSeq DEF ShellType

LEMMA Pair == ASSUME NEW a, NEW b PROVE <<a>> \o <<b>> = <<a, b>>
<1>1. <<a>> \in Seq({a, b}) /\ <<b>> \in Seq({a, b}) /\ <<a, b>> \in Seq({a, b})
  OBVIOUS
<1>2. Len(<<a>>) = 1 /\ Len(<<b>>) = 1 /\ Len(<<a, b>>) = 2
  OBVIOUS
<1>3. Len(<<a>> \o <<b>>) = 2 /\ \A i \in 1..2 : (<<a>> \o <<b>>)[i] = <<a, b>>[i]
  BY <1>1, <1>2, ConcatProperties
<1>. QED BY <1>1, <1>2, <1>3, ConcatProperties, SeqEqual

LEMMA ShellInit == Shell!Init => ShellInv
<1>. SUFFICES ASSUME Shell!Init PROVE ShellInv
  OBVIOUS
<1>. USE DEF Shell!Init
<1>1. ShellType
  BY EmptySeq DEF ShellType
<1>2. Len(printed) = 0 /\ Len(pty) = 0 /\ Len(hand) = 0 /\ Len(queue) = 0 /\ Len(shown) = 0
  OBVIOUS
<1>3. InConsole /\ InHand /\ InQueue
  <2>. HIDE DEF Shell!Init
  <2>1. hand = <<>> /\ queue = <<>>
    BY DEF Shell!Init
  <2>. QED BY <1>2, <2>1 DEF InConsole, InHand, InQueue, NotYet
<1>4. InOrder
  BY DEF InOrder
<1>. QED BY <1>1, <1>3, <1>4 DEF ShellInv

LEMMA PrintsInv == ASSUME ShellInv, NEW k \in Shell!Kinds, Shell!Prints(k) PROVE ShellInv'
<1>1. /\ ShellType' /\ ShellType
      /\ Len(printed') = Len(printed) + 1 /\ Len(pty') = Len(pty) + 1
      /\ \A n \in 1..Len(pty) : pty'[n] = pty[n]
      /\ pty'[Len(pty) + 1] = Len(printed) + 1
      /\ UNCHANGED <<hand, queue, shown>>
  BY AppendProperties, LenProperties
     DEF ShellInv, ShellType, Shell!Prints, Shell!hostVars, Shell!taskVars
<1>. USE DEF ShellInv
<1>2. InConsole'
  <2>. SUFFICES ASSUME NEW n \in 1..Len(pty') PROVE pty'[n] = Len(printed') - Len(pty') + n
    BY <1>1, Lengths DEF InConsole
  <2>1. CASE n = Len(pty')
    BY <1>1, <2>1, Lengths
  <2>2. CASE n \in 1..Len(pty)
    BY <1>1, <2>2, Lengths DEF InConsole
  <2>. QED BY <1>1, <2>1, <2>2, Lengths
<1>3. InHand'
  BY <1>1, Lengths DEF InHand
<1>4. NotYet' = NotYet
  BY <1>1, Lengths DEF NotYet
<1>5. InQueue'
  BY <1>1, <1>4 DEF InQueue
<1>6. InOrder'
  BY DEF InOrder, ShellType, Shell!Prints, Shell!HostRuns, Shell!taskVars
<1>. QED BY <1>1, <1>2, <1>3, <1>5, <1>6

LEMMA ReadInv == ASSUME ShellInv, Shell!Read PROVE ShellInv'
<1>. DEFINE p == Head(pty)
            data == [kind |-> "data", place |-> p]
            told1 == [kind |-> "command", place |-> p]
<1>. USE DEF ShellInv
<1>0. ShellType /\ pty # <<>> /\ hand = <<>> /\ UNCHANGED <<printed, queue, shown, reader, console, main, told, shell>>
  BY DEF Shell!Read, Shell!shellVars, Shell!taskVars
<1>1. p \in Nat /\ p = pty[1] /\ data \in Response /\ told1 \in Response
  BY <1>0, HeadTailProperties DEF ShellType, Response
<1>2. /\ pty' \in Seq(Nat) /\ Len(pty') = Len(pty) - 1
      /\ \A n \in 1..Len(pty') : pty'[n] = pty[n + 1]
  BY <1>0, HeadTailProperties DEF ShellType, Shell!Read
<1>3. hand' = <<data>> \/ hand' = <<told1, data>>
  <2>1. hand' = <<>> \o <<data>> \/ hand' = <<told1>> \o <<data>>
    BY DEF Shell!Read
  <2>2. <<>> \o <<data>> = <<data>>
    BY <1>1, ConcatEmptySeq
  <2>3. <<told1>> \o <<data>> = <<told1, data>>
    BY Pair
  <2>. QED BY <2>1, <2>2, <2>3
<1>4. folded' \in BOOLEAN
  BY DEF Shell!Read, ShellType
<1>5. /\ hand' \in Seq(Response) /\ hand' # <<>> /\ Len(hand') \in 1..2
      /\ \A n \in 1..Len(hand') : hand'[n].place = p
      /\ \A n \in 1..Len(hand') : hand'[n].kind = (IF n = Len(hand') THEN "data" ELSE "command")
  <2>1. CASE hand' = <<data>>
    BY <1>1, <2>1
  <2>2. CASE hand' = <<told1, data>>
    BY <1>1, <2>2
  <2>. QED BY <1>3, <2>1, <2>2
<1>6. ShellType'
  BY <1>0, <1>2, <1>4, <1>5 DEF ShellType
<1>7. p = Len(printed) - Len(pty) + 1
  BY <1>0, <1>1, Lengths DEF InConsole
<1>8. InConsole'
  BY <1>0, <1>2, <1>7, Lengths DEF InConsole
<1>9. InHand'
  <2>1. Len(pty') < Len(printed') /\ p = Len(printed') - Len(pty')
    BY <1>0, <1>2, <1>7, Lengths DEF InConsole
  <2>. QED BY <1>5, <2>1 DEF InHand
<1>10. NotYet' = NotYet
  BY <1>0, <1>2, <1>5, Lengths DEF NotYet
<1>11. InQueue'
  BY <1>0, <1>10 DEF InQueue
<1>12. InOrder'
  BY <1>0 DEF InOrder, ShellType, Shell!Read, Shell!HostRuns
<1>. QED BY <1>6, <1>8, <1>9, <1>11, <1>12

LEMMA SendInv == ASSUME ShellInv, Shell!Send PROVE ShellInv'
<1>. USE DEF ShellInv
<1>0. ShellType /\ hand # <<>> /\ UNCHANGED <<printed, pty, shown, reader, console, main, told, shell, folded>>
  BY DEF Shell!Send, Shell!shellVars, Shell!taskVars
<1>1. /\ hand[1] \in Response /\ hand' \in Seq(Response) /\ Len(hand') = Len(hand) - 1
      /\ \A n \in 1..Len(hand') : hand'[n] = hand[n + 1]
      /\ queue' = Append(queue, hand[1])
  BY <1>0, HeadTailProperties DEF ShellType, Shell!Send
<1>2. /\ queue' \in Seq(Response) /\ queue' # <<>> /\ Len(queue') = Len(queue) + 1
      /\ \A n \in 1..Len(queue) : queue'[n] = queue[n]
      /\ queue'[Len(queue) + 1] = hand[1]
  <2>1. queue \in Seq(Response)
    BY <1>0 DEF ShellType
  <2>. HIDE DEF ShellInv
  <2>. QED BY <1>1, <2>1, AppendProperties
<1>3. ShellType'
  BY <1>0, <1>1, <1>2 DEF ShellType
<1>4. InConsole'
  BY <1>0 DEF InConsole
<1>5. Len(hand') = 0 <=> hand' = <<>>
  BY <1>1, EmptySeq
<1>6. InHand'
  BY <1>0, <1>1, <1>5, Lengths DEF InHand
<1>7. hand[1].place = Len(printed) - Len(pty) /\ hand[1].kind = (IF Len(hand) = 1 THEN "data" ELSE "command")
  <2>1. 1 \in 1..Len(hand)
    BY <1>0, Lengths
  <2>. QED BY <1>0, <2>1 DEF InHand
<1>8. NotYet = hand[1].place /\ After(hand[1]) = NotYet'
  BY <1>0, <1>1, <1>5, <1>7, Lengths DEF NotYet, After
<1>9. InQueue'
  <2>1. queue'[1].place = Len(shown) + 1
    BY <1>0, <1>2, <1>8, Lengths DEF InQueue
  <2>2. ASSUME NEW n \in 1..Len(queue') - 1 PROVE queue'[n + 1].place = After(queue'[n])
    <3>1. CASE n = Len(queue)
      BY <1>2, <1>8, <3>1, Lengths DEF InQueue
    <3>2. CASE n \in 1..Len(queue) - 1
      <4>1. queue[n + 1].place = After(queue[n])
        BY <3>2 DEF InQueue
      <4>2. n \in 1..Len(queue) /\ n + 1 \in 1..Len(queue)
        BY <3>2, Lengths
      <4>. HIDE DEF ShellInv
      <4>. QED BY <1>2, <4>1, <4>2 DEF After
    <3>. QED BY <1>2, <3>1, <3>2, Lengths
  <2>. QED BY <1>0, <1>2, <1>8, <2>1, <2>2 DEF InQueue
<1>10. InOrder'
  BY <1>0, <1>1, <1>2 DEF InOrder, ShellType, Shell!Send, Shell!HostRuns
<1>. QED BY <1>3, <1>4, <1>6, <1>9, <1>10

LEMMA ReceiveInv == ASSUME ShellInv, Shell!Receive PROVE ShellInv'
<1>. USE DEF ShellInv
<1>0. ShellType /\ queue # <<>> /\ UNCHANGED <<printed, pty, hand, reader, console, main, told, shell, folded>>
  BY DEF Shell!Receive, Shell!shellVars
<1>1. /\ queue[1] \in Response /\ queue' \in Seq(Response) /\ Len(queue') = Len(queue) - 1
      /\ \A n \in 1..Len(queue') : queue'[n] = queue[n + 1]
      /\ Head(queue) = queue[1]
  BY <1>0, HeadTailProperties DEF ShellType, Shell!Receive
<1>2. Len(queue') = 0 <=> queue' = <<>>
  BY <1>1, EmptySeq
<1>3. queue[1].place \in Nat
  BY <1>1 DEF Response
<1>4. /\ shown' \in Seq(Nat) /\ \A n \in 1..Len(shown) : shown'[n] = shown[n]
      /\ Len(shown') + 1 = After(queue[1])
      /\ \A n \in 1..Len(shown') : shown'[n] = n
  <2>0. \A n \in 1..Len(shown) : shown[n] = n
    BY DEF InQueue
  <2>1. queue[1].place = Len(shown) + 1
    BY <1>0 DEF InQueue
  <2>2. CASE queue[1].kind = "data"
    <3>1. shown' = Append(shown, queue[1].place)
      BY <1>1, <2>2 DEF Shell!Receive
    <3>2. /\ shown' \in Seq(Nat) /\ Len(shown') = Len(shown) + 1
          /\ \A n \in 1..Len(shown) : shown'[n] = shown[n]
          /\ shown'[Len(shown) + 1] = Len(shown) + 1
      BY <1>0, <1>3, <2>1, <3>1, AppendProperties DEF ShellType
    <3>3. After(queue[1]) = Len(shown) + 2
      BY <1>0, <2>1, <2>2, Lengths DEF After
    <3>4. \A n \in 1..Len(shown') : shown'[n] = n
      BY <2>0, <3>2, Lengths, <1>0
    <3>. HIDE DEF ShellInv
    <3>. QED BY <1>0, <3>2, <3>3, <3>4, Lengths
  <2>3. CASE queue[1].kind # "data"
    <3>1. shown' = shown
      BY <1>1, <2>3 DEF Shell!Receive
    <3>. QED BY <1>0, <2>0, <2>1, <2>3, <3>1, Lengths DEF After, ShellType
  <2>. QED BY <2>2, <2>3
<1>5. ShellType'
  BY <1>0, <1>1, <1>4 DEF ShellType
<1>6. InConsole' /\ InHand' /\ NotYet' = NotYet
  BY <1>0 DEF InConsole, InHand, NotYet
<1>7. InQueue'
  <2>1. ASSUME queue' = <<>> PROVE NotYet' = Len(shown') + 1
    <3>1. Len(queue) = 1
      BY <1>0, <1>1, <1>2, <2>1, Lengths
    <3>2. After(queue[Len(queue)]) = NotYet
      BY <1>0 DEF InQueue
    <3>. QED BY <1>4, <1>6, <3>1, <3>2
  <2>2. ASSUME queue' # <<>> PROVE queue'[1].place = Len(shown') + 1 /\ After(queue'[Len(queue')]) = NotYet'
    <3>1. Len(queue) > 1 /\ queue'[1] = queue[2] /\ queue'[Len(queue')] = queue[Len(queue)]
      BY <1>0, <1>1, <1>2, <2>2, Lengths
    <3>. QED BY <1>0, <1>4, <1>6, <3>1, Lengths DEF InQueue
  <2>3. ASSUME NEW n \in 1..Len(queue') - 1 PROVE queue'[n + 1].place = After(queue'[n])
    <3>1. n \in 1..Len(queue') /\ n + 1 \in 1..Len(queue') /\ n + 1 \in 1..Len(queue) - 1
      BY <1>0, <1>1, <2>3, Lengths
    <3>2. queue[n + 1 + 1].place = After(queue[n + 1])
      BY <3>1 DEF InQueue
    <3>. QED BY <1>1, <3>1, <3>2
  <2>. QED BY <1>4, <2>1, <2>2, <2>3 DEF InQueue
<1>8. InOrder'
  BY <1>0, <1>1 DEF InOrder, ShellType, Shell!Receive, Shell!HostRuns
<1>. QED BY <1>5, <1>6, <1>7, <1>8

\* What leaves the flow of the output alone.
Calm == UNCHANGED <<printed, pty, folded, hand, queue, shown>>

LEMMA ShellNextInv == ShellInv /\ Shell!Next => ShellInv'
<1>. SUFFICES ASSUME ShellInv, Shell!Next PROVE ShellInv'
  OBVIOUS
<1>1. ASSUME Calm, ShellType', InOrder' PROVE ShellInv'
  BY <1>1 DEF ShellInv, Calm, InConsole, InHand, InQueue, NotYet
<1>. USE DEF Shell!HostRuns, Shell!shellVars, Shell!hostVars, Shell!taskVars, Shell!recordVars, Shell!Step
<1>2. CASE Shell!ShellExits \/ Shell!Seen \/ Shell!Close \/ Shell!Join \/ Shell!ReadEnd
  BY <1>1, <1>2 DEF ShellInv, ShellType, InOrder, Calm, Shell!ShellExits, Shell!Seen, Shell!Close, Shell!Join, Shell!ReadEnd
<1>3. CASE Shell!Report \/ Shell!Stopped
  BY <1>1, <1>3 DEF ShellInv, ShellType, InOrder, Calm, Shell!Report, Shell!Stopped
<1>4. CASE Shell!Queued \/ Shell!Take \/ Shell!Written \/ Shell!Uncount \/ Shell!Quit \/ Shell!Drained
  BY <1>1, <1>4 DEF ShellInv, ShellType, InOrder, Calm, Shell!Queued, Shell!Take, Shell!Written, Shell!Uncount, Shell!Quit, Shell!Drained
<1>. QED BY <1>2, <1>3, <1>4, PrintsInv, ReadInv, SendInv, ReceiveInv DEF Shell!Next

LEMMA ShellStutter == ShellInv /\ UNCHANGED shellVars => ShellInv'
<1>. SUFFICES ASSUME ShellInv, UNCHANGED shellVars PROVE ShellInv'
  OBVIOUS
<1>1. ShellType' /\ InOrder'
  BY DEF shellVars, ShellInv, ShellType, InOrder
<1>2. InConsole' /\ InHand'
  BY DEF shellVars, ShellInv, InConsole, InHand
<1>3. InQueue'
  BY DEF shellVars, ShellInv, InQueue, NotYet
<1>. QED BY <1>1, <1>2, <1>3 DEF ShellInv

LEMMA ShellTrue == ShellInv => Shell!ExitLast
<1>. SUFFICES ASSUME ShellInv, told = "exited" PROVE shown = [n \in 1..Len(printed) |-> n]
  BY DEF Shell!ExitLast
<1>1. ShellType /\ queue = <<>> /\ pty = <<>> /\ hand = <<>>
  BY DEF ShellInv, InOrder
<1>2. Len(shown) = Len(printed) /\ \A n \in 1..Len(shown) : shown[n] = n
  BY <1>1, Lengths DEF ShellInv, InQueue, NotYet
<1>. QED BY <1>1, <1>2 DEF ShellType

-----------------------------------------------------------------------------
(* The profile files: what a host has compared and holds open is what its   *)
(* shell runs on, whatever other programs do to the directory.              *)

HostSteps == {"ended", "check", "install", "write", "open", "verify", "data", "own", "running"}
HostState == [step : HostSteps, listed : SUBSET (Profile!Entries \cup Hosts), installed : Nat, tries : Nat, profile : BOOLEAN]
OwnState  == [made : BOOLEAN, written : Nat, held : Nat, ours : BOOLEAN]

ProfileType ==
  /\ kind \in {"cmd", "bash", "powershell"}
  /\ file \in [Profile!Entries -> {"none", "partial", "whole", "changed"}]
  /\ writer \in [Profile!Entries -> Hosts \cup {Other, None}]
  /\ reading \in [Profile!Entries -> SUBSET Hosts]
  /\ running \in SUBSET Hosts
  /\ host \in [Hosts -> HostState] /\ own \in [Hosts -> OwnState]

\* Nobody else takes a file that a host reads, and only a host makes one.
Shared ==
  \A n \in Profile!Entries :
    /\ reading[n] # {} => writer[n] # Other
    /\ writer[n] \in Hosts => file[n] = "partial"

\* A setting that a host has compared is held by it, and stays as it was compared.
Compared(h) ==
  host[h].profile => \A i \in 1..host[h].installed :
    h \in reading[Settings[i]] /\ file[Settings[i]] = "whole" /\ writer[Settings[i]] = None

\* The steps of a host.
Installing(h) ==
  /\ host[h].installed <= Profile!Fixed
  /\ host[h].step \in {"install", "write", "open", "verify"} => host[h].installed < Profile!Fixed
  /\ host[h].step = "verify" => h \in reading[Profile!Wanted(h)]
  /\ host[h].step \in {"data", "own", "running"} /\ host[h].profile => host[h].installed = Profile!Fixed

\* Another program can reach a file of the own directory only between its two handles.
OwnHeld(h) ==
  /\ own[h].written \in {own[h].held, own[h].held + 1} /\ own[h].written <= Profile!Files
  /\ ~own[h].made \/ host[h].step = "running" => own[h].written = own[h].held
  /\ ~own[h].ours => own[h].written > own[h].held

ProfileInv ==
  /\ ProfileType /\ Shared
  /\ \A h \in Hosts : Compared(h) /\ Installing(h) /\ OwnHeld(h)

LEMMA SettingFacts ==
  /\ Len(Settings) \in Nat
  /\ \A i \in 1..Len(Settings) : Settings[i] \in Profile!Entries
  /\ \A n \in Profile!ToSet(Settings) : \E i \in 1..Len(Settings) : n = Settings[i]
  /\ "history" \in Profile!Entries
<1>1. Len(Settings) \in Nat /\ DOMAIN Settings = 1..Len(Settings)
  BY SettingsAssumption
<1>2. Profile!ToSet(Settings) = {Settings[i] : i \in 1..Len(Settings)}
  BY <1>1 DEF Profile!ToSet
<1>. QED BY <1>1, <1>2 DEF Profile!Entries

LEMMA KindFacts ==
  ASSUME ProfileType
  PROVE  /\ Profile!Fixed \in Nat /\ Profile!Fixed <= Len(Settings) /\ Profile!Files \in Nat
         /\ \A h \in Hosts : host[h].installed < Profile!Fixed =>
               Profile!Wanted(h) \in Profile!Entries /\ Profile!Wanted(h) = Settings[host[h].installed + 1]
<1>1. Profile!Fixed \in Nat /\ Profile!Fixed <= Len(Settings) /\ Profile!Files \in Nat
  BY SettingFacts, SettingsAssumption DEF ProfileType, Profile!Fixed, Profile!Files
<1>2. \A h \in Hosts : host[h].installed \in Nat
  BY DEF ProfileType, HostState
<1>. QED BY <1>1, <1>2, SettingFacts DEF Profile!Wanted

\* What a step of one host leaves to the others.
LeavesOthers(h) ==
  /\ kind' = kind
  /\ \A g \in Hosts \ {h} :
       host'[g] = host[g] /\ own'[g] = own[g] /\ \A n \in Profile!Entries : g \in reading[n] => g \in reading'[n]

\* A file that was compared while it is read stays as it is.
StaysWhole ==
  \A n \in Profile!Entries : reading[n] # {} /\ file[n] = "whole" /\ writer[n] = None =>
    file'[n] = "whole" /\ writer'[n] = None

LEMMA HostStep ==
  ASSUME ProfileInv, ProfileType', NEW h \in Hosts, LeavesOthers(h), StaysWhole,
         Shared', Compared(h)', Installing(h)', OwnHeld(h)'
  PROVE  ProfileInv'
<1>. SUFFICES ASSUME NEW g \in Hosts, g # h PROVE Compared(g)' /\ Installing(g)' /\ OwnHeld(g)'
  BY DEF ProfileInv
<1>1. /\ ProfileType /\ Compared(g) /\ Installing(g) /\ OwnHeld(g)
      /\ host'[g] = host[g] /\ own'[g] = own[g] /\ \A n \in Profile!Entries : g \in reading[n] => g \in reading'[n]
  BY DEF ProfileInv, LeavesOthers
<1>2. Profile!Fixed' = Profile!Fixed /\ Profile!Files' = Profile!Files /\ Profile!Wanted(g)' = Profile!Wanted(g)
  BY <1>1 DEF LeavesOthers, Profile!Fixed, Profile!Files, Profile!Wanted
<1>3. host[g].installed \in Nat
  BY <1>1 DEF ProfileType, HostState
<1>4. Compared(g)'
  <2>. SUFFICES ASSUME host[g].profile, NEW i \in 1..host[g].installed
                PROVE  g \in reading'[Settings[i]] /\ file'[Settings[i]] = "whole" /\ writer'[Settings[i]] = None
    BY <1>1 DEF Compared
  <2>1. Settings[i] \in Profile!Entries
    BY <1>1, <1>3, KindFacts, SettingFacts DEF Installing
  <2>2. g \in reading[Settings[i]] /\ file[Settings[i]] = "whole" /\ writer[Settings[i]] = None
    BY <1>1 DEF Compared
  <2>. QED BY <1>1, <2>1, <2>2 DEF StaysWhole
<1>5. Installing(g)'
  BY <1>1, <1>2, <1>3, KindFacts DEF Installing
<1>6. OwnHeld(g)'
  BY <1>1, <1>2 DEF OwnHeld
<1>. QED BY <1>4, <1>5, <1>6

\* A step that compares nothing more keeps what its host has compared.
LEMMA KeepsCompared ==
  ASSUME ProfileInv, NEW h \in Hosts, StaysWhole,
         host'[h].installed = host[h].installed, host'[h].profile = host[h].profile,
         \A n \in Profile!Entries : h \in reading[n] => h \in reading'[n]
  PROVE  Compared(h)'
<1>1. /\ ProfileType /\ Compared(h) /\ Installing(h)
  BY DEF ProfileInv
<1>3. host[h].installed \in Nat
  BY <1>1 DEF ProfileType, HostState
<1>. SUFFICES ASSUME host[h].profile, NEW i \in 1..host[h].installed
                PROVE  h \in reading'[Settings[i]] /\ file'[Settings[i]] = "whole" /\ writer'[Settings[i]] = None
    BY DEF Compared
<1>4. Settings[i] \in Profile!Entries
    BY <1>1, <1>3, KindFacts, SettingFacts DEF Installing
<1>5. h \in reading[Settings[i]] /\ file[Settings[i]] = "whole" /\ writer[Settings[i]] = None
    BY <1>1 DEF Compared
<1>. QED BY <1>4, <1>5 DEF StaysWhole

LEMMA HostRecord ==
  ASSUME NEW r \in HostState, NEW s \in HostSteps, NEW n \in Nat
  PROVE  [r EXCEPT !.step = s, !.installed = n, !.tries = 0] \in HostState /\ [r EXCEPT !.step = s, !.tries = 0] \in HostState
<1>1. [r EXCEPT !.step = s, !.tries = 0] \in HostState
  BY DEF HostState
<1>2. [r EXCEPT !.step = s, !.installed = n, !.tries = 0] \in HostState
  BY DEF HostState
<1>. QED BY <1>1, <1>2

LEMMA FollowingFacts ==
  ASSUME ProfileType, NEW h \in Hosts, NEW n \in Nat, Profile!Following(h, n)
  PROVE  /\ host' \in [Hosts -> HostState] /\ \A g \in Hosts \ {h} : host'[g] = host[g]
         /\ host'[h].step = (IF n < Profile!Fixed THEN "install" ELSE "data")
         /\ host'[h].installed = n /\ host'[h].profile = host[h].profile
<1>1. PICK s \in HostSteps : s = (IF n < Profile!Fixed THEN "install" ELSE "data")
  BY DEF HostSteps
<1>2. host' = [host EXCEPT ![h].step = s, ![h].installed = n, ![h].tries = 0]
  BY <1>1 DEF Profile!Following
<1>3. host \in [Hosts -> HostState]
  BY DEF ProfileType
<1>4. host' \in [Hosts -> HostState]
  <2>. DEFINE r == [host[h] EXCEPT !.step = s, !.installed = n, !.tries = 0]
  <2>1. r \in HostState
    BY <1>3, HostRecord
  <2>2. host' = [host EXCEPT ![h] = r]
    BY <1>2
  <2>. QED BY <1>3, <2>1, <2>2
<1>5. \A g \in Hosts \ {h} : host'[g] = host[g]
  BY <1>2, <1>3
<1>6. host'[h] = [host[h] EXCEPT !.step = s, !.installed = n, !.tries = 0]
  BY <1>2, <1>3
<1>7. host[h] \in HostState
  BY <1>3
<1>8. host'[h].step = s /\ host'[h].installed = n /\ host'[h].profile = host[h].profile
  BY <1>6, <1>7 DEF HostState
<1>. QED BY <1>1, <1>4, <1>5, <1>8

LEMMA GotoFacts ==
  ASSUME ProfileType, NEW h \in Hosts, NEW s \in HostSteps, Profile!Goto(h, s)
  PROVE  /\ host' \in [Hosts -> HostState] /\ \A g \in Hosts \ {h} : host'[g] = host[g]
         /\ host'[h].step = s /\ host'[h].installed = host[h].installed /\ host'[h].profile = host[h].profile
<1>1. host \in [Hosts -> HostState]
  BY DEF ProfileType
<1>2. host' = [host EXCEPT ![h].step = s, ![h].tries = 0]
  BY DEF Profile!Goto
<1>3. host' \in [Hosts -> HostState]
  <2>. DEFINE r == [host[h] EXCEPT !.step = s, !.tries = 0]
  <2>1. r \in HostState
    BY <1>1, HostRecord
  <2>2. host' = [host EXCEPT ![h] = r]
    BY <1>2
  <2>. QED BY <1>1, <2>1, <2>2
<1>4. \A g \in Hosts \ {h} : host'[g] = host[g]
  BY <1>1, <1>2
<1>5. host'[h] = [host[h] EXCEPT !.step = s, !.tries = 0] /\ host[h] \in HostState
  BY <1>1, <1>2
<1>6. host'[h].step = s /\ host'[h].installed = host[h].installed /\ host'[h].profile = host[h].profile
  BY <1>5 DEF HostState
<1>. QED BY <1>3, <1>4, <1>6

LEMMA ProfileLose == ASSUME ProfileInv, NEW h \in Hosts, Profile!Lose(h),
         kind' = kind, own' = own, running' = running, file' = file,
         writer' \in [Profile!Entries -> Hosts \cup {Other, None}],
         \A n \in Profile!Entries : writer'[n] = writer[n] \/ writer'[n] = None PROVE ProfileInv'
<1>0. ProfileType /\ Shared /\ Compared(h) /\ Installing(h) /\ OwnHeld(h)
  BY DEF ProfileInv
<1>1. ProfileType'
  <2>1. host' \in [Hosts -> HostState]
    BY <1>0 DEF ProfileType, HostState, HostSteps, Profile!Lose, Profile!Ended
  <2>2. reading' \in [Profile!Entries -> SUBSET Hosts]
    BY <1>0 DEF ProfileType, Profile!Lose
  <2>. QED BY <1>0, <2>1, <2>2 DEF ProfileType
<1>2. LeavesOthers(h)
  BY <1>0 DEF LeavesOthers, ProfileType, Profile!Lose
<1>3. StaysWhole
  BY Zenon DEF StaysWhole
<1>4. Shared'
  BY <1>0, NamesDiffer DEF Shared, ProfileType, Profile!Lose
<1>5. Compared(h)'
  BY <1>0 DEF Compared, ProfileType, Profile!Ended, Profile!Lose
<1>6. Installing(h)'
  BY <1>0 DEF Installing, ProfileType, Profile!Ended, Profile!Lose, Profile!Fixed
<1>7. OwnHeld(h)'
  BY <1>0 DEF OwnHeld, ProfileType, Profile!Ended, Profile!Lose, Profile!Files
<1>. QED BY <1>1, <1>2, <1>3, <1>4, <1>5, <1>6, <1>7, HostStep

LEMMA ProfileFallback == ASSUME ProfileInv, NEW h \in Hosts, Profile!Fallback(h),
         kind' = kind, running' = running, file' = file, writer' = writer PROVE ProfileInv'
<1>0. ProfileType /\ Shared /\ Compared(h) /\ Installing(h) /\ OwnHeld(h)
  BY DEF ProfileInv
<1>1. ProfileType'
  <2>1. host' \in [Hosts -> HostState]
    <3>1. host \in [Hosts -> HostState] /\ "running" \in HostSteps
      BY <1>0 DEF ProfileType, HostSteps
    <3>2. ASSUME NEW r \in HostState, NEW q, q = [r EXCEPT !.step = "running", !.profile = FALSE] PROVE q \in HostState
      BY <3>1, <3>2 DEF HostState
    <3>. QED BY <3>1, <3>2 DEF Profile!Fallback
  <2>2. reading' \in [Profile!Entries -> SUBSET Hosts]
    BY <1>0 DEF ProfileType, Profile!Fallback
  <2>3. own' \in [Hosts -> OwnState]
    BY <1>0 DEF ProfileType, OwnState, Profile!Fallback, Profile!Released, Profile!NoOwn
  <2>. QED BY <1>0, <2>1, <2>2, <2>3 DEF ProfileType
<1>2. LeavesOthers(h)
  BY <1>0 DEF LeavesOthers, ProfileType, Profile!Fallback, Profile!Released
<1>3. StaysWhole
  BY DEF StaysWhole
<1>4. Shared'
  BY <1>0, NamesDiffer DEF Shared, ProfileType, Profile!Fallback
<1>5. Compared(h)'
  BY <1>0 DEF Compared, ProfileType, HostState, Profile!Fallback
<1>6. Installing(h)'
  BY <1>0 DEF Installing, ProfileType, HostState, Profile!Fallback, Profile!Fixed
<1>7. OwnHeld(h)'
  BY <1>0, KindFacts DEF OwnHeld, ProfileType, HostState, Profile!Fallback, Profile!Released, Profile!NoOwn, Profile!Files
<1>. QED BY <1>1, <1>2, <1>3, <1>4, <1>5, <1>6, <1>7, HostStep

LEMMA ProfileGoto == ASSUME ProfileInv, NEW h \in Hosts, ProfileType', LeavesOthers(h), StaysWhole, Shared',
         host'[h].installed = host[h].installed, host'[h].profile = host[h].profile,
         \A n \in Profile!Entries : h \in reading[n] => h \in reading'[n],
         host'[h].step # host[h].step => host'[h].step \in {"write", "open", "own", "running"},
         host'[h].step \in {"write", "open"} => host[h].step \in {"install", "write", "open"},
         host'[h].step \in {"own", "running"} => host[h].step \in {"data", "own", "running"},
         OwnHeld(h)'
  PROVE ProfileInv'
<1>0. ProfileType /\ Shared /\ Compared(h) /\ Installing(h) /\ OwnHeld(h)
  BY DEF ProfileInv
<1>1. Compared(h)'
  BY KeepsCompared
<1>2. Profile!Fixed' = Profile!Fixed /\ Profile!Wanted(h)' = Profile!Wanted(h)
  BY DEF Profile!Fixed, Profile!Wanted, LeavesOthers
<1>3. Installing(h)'
  BY <1>0, <1>2, KindFacts DEF Installing
<1>. QED BY <1>1, <1>3, HostStep

LEMMA ProfileRetry == ASSUME ProfileInv, NEW h \in Hosts, Profile!Retry(h), host[h].step \in {"open", "data"},
         kind' = kind, own' = own, running' = running, file' = file, writer' = writer
  PROVE ProfileInv'
<1>0. ProfileType /\ Shared /\ Compared(h) /\ Installing(h) /\ OwnHeld(h)
  BY DEF ProfileInv
<1>. SUFFICES ASSUME host' = [host EXCEPT ![h].tries = @ + 1], reading' = reading PROVE ProfileInv'
  BY <1>0, ProfileLose DEF ProfileType, Profile!Retry
<1>1. /\ ProfileType' /\ LeavesOthers(h)
      /\ host'[h].installed = host[h].installed /\ host'[h].profile = host[h].profile /\ host'[h].step = host[h].step
  BY <1>0 DEF ProfileType, HostState, LeavesOthers
<1>2. StaysWhole /\ Shared'
  BY <1>0 DEF StaysWhole, Shared
<1>3. OwnHeld(h)'
  BY <1>0, <1>1 DEF OwnHeld, Profile!Files
<1>. QED BY <1>1, <1>2, <1>3, ProfileGoto, Zenon

LEMMA ProfilePrepare == ASSUME ProfileInv, NEW h \in Hosts, Profile!Prepare(h) PROVE ProfileInv'
<1>0. ProfileType /\ Shared /\ Compared(h) /\ Installing(h) /\ OwnHeld(h) /\ host[h].step = "ended"
      /\ UNCHANGED <<kind, file, writer, reading, running, own>>
  BY DEF ProfileInv, Profile!Prepare, Profile!At, Profile!shared
<1>8. Profile!Present \in SUBSET (Profile!Entries \cup Hosts)
  BY <1>0 DEF ProfileType, Profile!Present
<1>9. PICK r \in HostState : host' = [host EXCEPT ![h] = r] /\ r.installed = 0 /\ r.step \in {"check", "own"} /\ (r.step = "own" => ~r.profile)
  <2>. DEFINE a == [Profile!Ended EXCEPT !.step = "check", !.listed = Profile!Present, !.profile = TRUE]
              b == [Profile!Ended EXCEPT !.step = "own"]
  <2>1. host' = [host EXCEPT ![h] = a] \/ host' = [host EXCEPT ![h] = b]
    BY DEF Profile!Prepare
  <2>2. a \in HostState /\ a.installed = 0 /\ a.step = "check"
    BY <1>8 DEF HostState, HostSteps, Profile!Ended
  <2>3. b \in HostState /\ b.installed = 0 /\ b.step = "own" /\ ~b.profile
    BY DEF HostState, HostSteps, Profile!Ended
  <2>. HIDE DEF a, b
  <2>. QED BY <2>1, <2>2, <2>3
<1>1. ProfileType' /\ host'[h] = r
  BY <1>0, <1>9 DEF ProfileType
<1>2. LeavesOthers(h)
  BY <1>0, <1>9 DEF LeavesOthers, ProfileType
<1>3. StaysWhole /\ Shared'
  BY <1>0 DEF StaysWhole, Shared
<1>4. Compared(h)'
  BY <1>1, <1>9 DEF Compared
<1>5. Installing(h)'
  BY <1>0, <1>1, <1>9, KindFacts DEF Installing, Profile!Fixed
<1>6. OwnHeld(h)'
  BY <1>0, <1>1, <1>9 DEF OwnHeld, Profile!Files
<1>. QED BY <1>1, <1>2, <1>3, <1>4, <1>5, <1>6, HostStep

LEMMA ProfileCheck == ASSUME ProfileInv, NEW h \in Hosts, Profile!Check(h) PROVE ProfileInv'
<1>0. ProfileType /\ Shared /\ Compared(h) /\ Installing(h) /\ OwnHeld(h) /\ host[h].step = "check"
      /\ UNCHANGED <<kind, file, writer, running, own>>
  BY DEF ProfileInv, Profile!Check, Profile!At
<1>8. \/ Profile!Following(h, 0) /\ UNCHANGED reading
      \/ \E e \in host[h].listed : host' = [host EXCEPT ![h].listed = @ \ {e}] /\ UNCHANGED reading
      \/ Profile!Lose(h)
  BY DEF Profile!Check
<1>9. CASE Profile!Lose(h)
  BY <1>0, <1>9, ProfileLose DEF ProfileType
<1>10. ASSUME Profile!Following(h, 0) PROVE
       /\ host' \in [Hosts -> HostState] /\ (\A g \in Hosts \ {h} : host'[g] = host[g]) /\ host'[h].installed = 0
       /\ host'[h].step = (IF 0 < Profile!Fixed THEN "install" ELSE "data")
  BY <1>0, <1>10, FollowingFacts
<1>11. ASSUME NEW e \in host[h].listed, host' = [host EXCEPT ![h].listed = @ \ {e}] PROVE
       /\ host' \in [Hosts -> HostState] /\ (\A g \in Hosts \ {h} : host'[g] = host[g])
       /\ host'[h].installed = host[h].installed /\ host'[h].profile = host[h].profile /\ host'[h].step = "check"
  BY <1>0, <1>11 DEF ProfileType, HostState
<1>. SUFFICES ASSUME /\ host' \in [Hosts -> HostState] /\ \A g \in Hosts \ {h} : host'[g] = host[g]
                     /\ reading' = reading
                     /\ \/ host'[h].installed = 0 /\ host'[h].step = (IF 0 < Profile!Fixed THEN "install" ELSE "data")
                        \/ /\ host'[h].installed = host[h].installed /\ host'[h].profile = host[h].profile
                           /\ host'[h].step = "check"
              PROVE  ProfileInv'
  BY <1>8, <1>9, <1>10, <1>11
<1>1. ProfileType'
  BY <1>0 DEF ProfileType
<1>2. LeavesOthers(h)
  BY <1>0 DEF LeavesOthers
<1>3. StaysWhole
  BY <1>0 DEF StaysWhole
<1>4. Shared'
  BY <1>0 DEF Shared
<1>5. Compared(h)'
  <2>1. CASE host'[h].installed = 0
    BY <2>1 DEF Compared
  <2>2. CASE host'[h].installed = host[h].installed /\ host'[h].profile = host[h].profile
    BY <1>3, <2>2, KeepsCompared
  <2>. QED BY <2>1, <2>2
<1>6. Installing(h)'
  BY <1>0, KindFacts DEF Installing, Profile!Fixed
<1>7. OwnHeld(h)'
  BY <1>0 DEF OwnHeld, Profile!Files
<1>. QED BY <1>1, <1>2, <1>3, <1>4, <1>5, <1>6, <1>7, HostStep

LEMMA ProfileCreate == ASSUME ProfileInv, NEW h \in Hosts, Profile!Create(h) PROVE ProfileInv'
<1>. DEFINE n == Profile!Wanted(h)
<1>0. /\ ProfileType /\ Shared /\ Compared(h) /\ Installing(h) /\ OwnHeld(h) /\ host[h].step = "install"
      /\ UNCHANGED <<kind, reading, running, own>>
  BY DEF ProfileInv, Profile!Create, Profile!At
<1>1. n \in Profile!Entries
  BY <1>0, KindFacts DEF Installing
<1>2. PICK s \in {"write", "open"} : Profile!Goto(h, s)
  BY DEF Profile!Create
<1>3. s \in HostSteps
  BY DEF HostSteps
<1>4. \/ /\ file[n] = "none" /\ writer' = [writer EXCEPT ![n] = h] /\ file' = [file EXCEPT ![n] = "partial"]
      \/ UNCHANGED <<file, writer>>
  BY DEF Profile!Create
<1>5. /\ host' \in [Hosts -> HostState] /\ \A g \in Hosts \ {h} : host'[g] = host[g]
      /\ host'[h].step = s /\ host'[h].installed = host[h].installed /\ host'[h].profile = host[h].profile
  BY <1>0, <1>2, <1>3, GotoFacts
<1>. HIDE DEF n
<1>6. ProfileType'
  BY <1>0, <1>1, <1>4, <1>5 DEF ProfileType
<1>7. LeavesOthers(h)
  BY <1>0, <1>5 DEF LeavesOthers
<1>8. StaysWhole
  BY <1>0, <1>1, <1>4 DEF StaysWhole, ProfileType
<1>9. Shared'
  BY <1>0, <1>1, <1>4, NamesDiffer DEF Shared, ProfileType
<1>10. OwnHeld(h)'
  BY <1>0, <1>5 DEF OwnHeld, Profile!Files
<1>. QED BY <1>0, <1>5, <1>6, <1>7, <1>8, <1>9, <1>10, ProfileGoto

LEMMA ProfileWrite == ASSUME ProfileInv, NEW h \in Hosts, Profile!Write(h) PROVE ProfileInv'
<1>. DEFINE n == Profile!Wanted(h)
<1>0. /\ ProfileType /\ Shared /\ Compared(h) /\ Installing(h) /\ OwnHeld(h) /\ host[h].step = "write"
      /\ UNCHANGED <<kind, running, own>> /\ writer' = [writer EXCEPT ![n] = None]
  BY DEF ProfileInv, Profile!Write, Profile!At
<1>1. n \in Profile!Entries
  BY <1>0, KindFacts DEF Installing
<1>2. \/ file' = file /\ Profile!Lose(h)
      \/ file' = [file EXCEPT ![n] = "whole"] /\ Profile!Goto(h, "open") /\ reading' = reading
  BY DEF Profile!Write
<1>. HIDE DEF n
<1>3. CASE file' = file /\ Profile!Lose(h)
  <2>1. writer' \in [Profile!Entries -> Hosts \cup {Other, None}] /\ \A m \in Profile!Entries : writer'[m] = writer[m] \/ writer'[m] = None
    BY <1>0, <1>1 DEF ProfileType
  <2>. QED BY <1>0, <1>3, <2>1, ProfileLose
<1>4. CASE file' = [file EXCEPT ![n] = "whole"] /\ Profile!Goto(h, "open") /\ reading' = reading
  <2>1. /\ host' \in [Hosts -> HostState] /\ \A g \in Hosts \ {h} : host'[g] = host[g]
        /\ host'[h].step = "open" /\ host'[h].installed = host[h].installed /\ host'[h].profile = host[h].profile
    BY <1>0, <1>4, GotoFacts DEF HostSteps
  <2>2. ProfileType'
    BY <1>0, <1>1, <1>4, <2>1 DEF ProfileType
  <2>3. LeavesOthers(h)
    BY <1>0, <1>4, <2>1 DEF LeavesOthers
  <2>4. StaysWhole
    BY <1>0, <1>1, <1>4 DEF StaysWhole, ProfileType
  <2>5. Shared'
    BY <1>0, <1>1, <1>4, NamesDiffer DEF Shared, ProfileType
  <2>6. OwnHeld(h)'
    BY <1>0, <2>1 DEF OwnHeld, Profile!Files
  <2>. QED BY <1>0, <1>4, <2>1, <2>2, <2>3, <2>4, <2>5, <2>6, ProfileGoto
<1>. QED BY <1>2, <1>3, <1>4

LEMMA ProfileOpen == ASSUME ProfileInv, NEW h \in Hosts, Profile!Open(h) PROVE ProfileInv'
<1>. DEFINE n == Profile!Wanted(h)
<1>0. /\ ProfileType /\ Shared /\ Compared(h) /\ Installing(h) /\ OwnHeld(h) /\ host[h].step = "open"
      /\ UNCHANGED <<kind, file, writer, running, own>>
  BY DEF ProfileInv, Profile!Open, Profile!At
<1>1. n \in Profile!Entries
  BY <1>0, KindFacts DEF Installing
<1>2. \/ Profile!Retry(h)
      \/ writer[n] = None /\ reading' = [reading EXCEPT ![n] = @ \cup {h}] /\ Profile!Goto(h, "verify")
  BY DEF Profile!Open
<1>3. CASE Profile!Retry(h)
  BY <1>0, <1>3, ProfileRetry
<1>4. CASE writer[n] = None /\ reading' = [reading EXCEPT ![n] = @ \cup {h}] /\ Profile!Goto(h, "verify")
  <2>1. /\ host' \in [Hosts -> HostState] /\ \A g \in Hosts \ {h} : host'[g] = host[g]
        /\ host'[h].step = "verify" /\ host'[h].installed = host[h].installed /\ host'[h].profile = host[h].profile
    BY <1>0, <1>4, GotoFacts DEF HostSteps
  <2>7. n' = n /\ Profile!Fixed' = Profile!Fixed
    BY <1>0, <2>1 DEF Profile!Wanted, Profile!Fixed
  <2>. HIDE DEF n
  <2>2. ProfileType' /\ h \in reading'[n] /\ \A m \in Profile!Entries : reading[m] \subseteq reading'[m] /\ (m # n => reading'[m] = reading[m])
    BY <1>0, <1>1, <1>4, <2>1 DEF ProfileType
  <2>3. LeavesOthers(h)
    BY <1>0, <2>1, <2>2 DEF LeavesOthers
  <2>4. StaysWhole
    BY <1>0 DEF StaysWhole
  <2>5. Shared'
    BY <1>0, <1>1, <1>4, <2>2, NamesDiffer DEF Shared
  <2>6. OwnHeld(h)'
    BY <1>0, <2>1 DEF OwnHeld, Profile!Files
  <2>8. Compared(h)'
    BY <2>1, <2>2, <2>4, KeepsCompared
  <2>9. Installing(h)'
    <3>1. h \in reading'[Profile!Wanted(h)']
      BY <2>2, <2>7 DEF n
    <3>. QED BY <1>0, <2>1, <2>7, <3>1 DEF Installing
  <2>. QED BY <2>2, <2>3, <2>4, <2>5, <2>6, <2>8, <2>9, HostStep
<1>. QED BY <1>2, <1>3, <1>4

LEMMA ProfileVerify == ASSUME ProfileInv, NEW h \in Hosts, Profile!Verify(h) PROVE ProfileInv'
<1>. DEFINE n == Profile!Wanted(h)
            i == host[h].installed
<1>0. /\ ProfileType /\ Shared /\ Compared(h) /\ Installing(h) /\ OwnHeld(h) /\ host[h].step = "verify"
      /\ UNCHANGED <<kind, file, writer, running, own>>
  BY DEF ProfileInv, Profile!Verify, Profile!At
<1>1. n \in Profile!Entries /\ n = Settings[i + 1] /\ h \in reading[n] /\ i < Profile!Fixed
  BY <1>0, KindFacts DEF Installing
<1>2. \/ Profile!Lose(h)
      \/ file[n] = "whole" /\ Profile!Following(h, i + 1) /\ reading' = reading
  BY DEF Profile!Verify
<1>3. CASE Profile!Lose(h)
  BY <1>0, <1>3, ProfileLose DEF ProfileType
<1>4. CASE file[n] = "whole" /\ Profile!Following(h, i + 1) /\ reading' = reading
  <2>0. i \in Nat
    BY <1>0 DEF ProfileType, HostState
  <2>. HIDE DEF n, i
  <2>1. /\ host' \in [Hosts -> HostState] /\ \A g \in Hosts \ {h} : host'[g] = host[g]
        /\ host'[h].step = (IF i + 1 < Profile!Fixed THEN "install" ELSE "data")
        /\ host'[h].installed = i + 1 /\ host'[h].profile = host[h].profile
    BY <1>0, <1>4, <2>0, FollowingFacts
  <2>2. ProfileType'
    BY <1>0, <1>4, <2>1 DEF ProfileType
  <2>3. LeavesOthers(h)
    BY <1>0, <1>4, <2>1 DEF LeavesOthers
  <2>4. StaysWhole /\ Shared'
    BY <1>0, <1>4 DEF StaysWhole, Shared
  <2>5. OwnHeld(h)'
    BY <1>0, <2>1 DEF OwnHeld, Profile!Files
  <2>6. writer[n] = None
    BY <1>0, <1>1, <1>4 DEF Shared, ProfileType
  <2>7. Compared(h)'
    <3>. SUFFICES ASSUME host[h].profile, NEW j \in 1..(i + 1)
                  PROVE  h \in reading'[Settings[j]] /\ file'[Settings[j]] = "whole" /\ writer'[Settings[j]] = None
      BY <2>1 DEF Compared
    <3>1. CASE j = i + 1
      BY <1>0, <1>1, <1>4, <2>6, <3>1
    <3>2. CASE j \in 1..i
      BY <1>0, <1>4, <3>2 DEF Compared, i
    <3>. QED BY <2>0, <3>1, <3>2
  <2>8. Installing(h)'
    <3>1. Profile!Fixed' = Profile!Fixed /\ Profile!Fixed \in Nat
      BY <1>0, KindFacts DEF Profile!Fixed
    <3>. QED BY <1>1, <2>0, <2>1, <3>1 DEF Installing
  <2>. QED BY <2>2, <2>3, <2>4, <2>5, <2>7, <2>8, HostStep
<1>. QED BY <1>2, <1>3, <1>4

LEMMA ProfileDataFile == ASSUME ProfileInv, NEW h \in Hosts, Profile!DataFile(h) PROVE ProfileInv'
<1>. DEFINE n == "history"
<1>0. /\ ProfileType /\ Shared /\ Compared(h) /\ Installing(h) /\ OwnHeld(h) /\ host[h].step = "data"
      /\ UNCHANGED <<kind, writer, running, own>>
  BY DEF ProfileInv, Profile!DataFile, Profile!At
<1>2. \/ Profile!Retry(h) /\ file' = file
      \/ writer[n] = None /\ file' = [file EXCEPT ![n] = "whole"] /\ Profile!Goto(h, "own") /\ reading' = reading
  BY DEF Profile!DataFile
<1>3. CASE Profile!Retry(h) /\ file' = file
  BY <1>0, <1>3, ProfileRetry
<1>4. CASE writer[n] = None /\ file' = [file EXCEPT ![n] = "whole"] /\ Profile!Goto(h, "own") /\ reading' = reading
  <2>1. /\ host' \in [Hosts -> HostState] /\ \A g \in Hosts \ {h} : host'[g] = host[g]
        /\ host'[h].step = "own" /\ host'[h].installed = host[h].installed /\ host'[h].profile = host[h].profile
    BY <1>0, <1>4, GotoFacts DEF HostSteps
  <2>2. ProfileType'
    BY <1>0, <1>4, <2>1 DEF ProfileType
  <2>3. LeavesOthers(h)
    BY <1>0, <1>4, <2>1 DEF LeavesOthers
  <2>4. StaysWhole
    BY <1>0, <1>4 DEF StaysWhole, ProfileType
  <2>5. Shared'
    BY <1>0, <1>4, NamesDiffer DEF Shared, ProfileType
  <2>6. OwnHeld(h)'
    BY <1>0, <2>1 DEF OwnHeld, Profile!Files
  <2>. QED BY <1>0, <1>4, <2>1, <2>2, <2>3, <2>4, <2>5, <2>6, ProfileGoto
<1>. QED BY <1>2, <1>3, <1>4

LEMMA ProfileLease == ASSUME ProfileInv, NEW h \in Hosts, Profile!Lease(h) PROVE ProfileInv'
<1>0. /\ ProfileType /\ Shared /\ Compared(h) /\ Installing(h) /\ OwnHeld(h) /\ host[h].step = "own" /\ ~own[h].made
      /\ UNCHANGED <<kind, file, writer, running>>
  BY DEF ProfileInv, Profile!Lease, Profile!At
<1>1. CASE Profile!Fallback(h)
  BY <1>0, <1>1, ProfileFallback DEF ProfileType
<1>2. CASE Profile!Goto(h, "running") /\ UNCHANGED <<reading, own>>
  <2>1. /\ host' \in [Hosts -> HostState] /\ \A g \in Hosts \ {h} : host'[g] = host[g]
        /\ host'[h].step = "running" /\ host'[h].installed = host[h].installed /\ host'[h].profile = host[h].profile
    BY <1>0, <1>2, GotoFacts DEF HostSteps
  <2>2. ProfileType' /\ LeavesOthers(h) /\ StaysWhole /\ Shared'
    BY <1>0, <1>2, <2>1 DEF ProfileType, LeavesOthers, StaysWhole, Shared
  <2>3. OwnHeld(h)'
    BY <1>0, <1>2, <2>1 DEF OwnHeld, Profile!Files
  <2>. QED BY <1>0, <1>2, <2>1, <2>2, <2>3, ProfileGoto
<1>3. CASE own' = [own EXCEPT ![h].made = TRUE] /\ UNCHANGED <<host, reading>>
  <2>1. /\ own' \in [Hosts -> OwnState] /\ \A g \in Hosts \ {h} : own'[g] = own[g]
        /\ own'[h].written = own[h].written /\ own'[h].held = own[h].held /\ own'[h].ours = own[h].ours
    BY <1>0, <1>3 DEF ProfileType, OwnState
  <2>2. ProfileType' /\ LeavesOthers(h) /\ StaysWhole /\ Shared'
    BY <1>0, <1>3, <2>1 DEF ProfileType, LeavesOthers, StaysWhole, Shared
  <2>3. OwnHeld(h)'
    BY <1>0, <1>3, <2>1 DEF OwnHeld, Profile!Files
  <2>. QED BY <1>0, <1>3, <2>2, <2>3, HostStep DEF Compared, Installing, Profile!Wanted, Profile!Fixed
<1>. QED BY <1>1, <1>2, <1>3 DEF Profile!Lease

\* A step in the own directory of a host.
LEMMA ProfileOwnStep == ASSUME ProfileInv, NEW h \in Hosts, own' \in [Hosts -> OwnState], UNCHANGED <<kind, file, writer, reading, running, host>>,
         \A g \in Hosts \ {h} : own'[g] = own[g], OwnHeld(h)'
  PROVE ProfileInv'
<1>0. ProfileType /\ Shared /\ Compared(h) /\ Installing(h)
  BY DEF ProfileInv
<1>1. ProfileType' /\ LeavesOthers(h) /\ StaysWhole /\ Shared'
  BY <1>0 DEF ProfileType, LeavesOthers, StaysWhole, Shared
<1>2. Compared(h)' /\ Installing(h)'
  BY <1>0 DEF Compared, Installing, Profile!Wanted, Profile!Fixed
<1>. QED BY <1>1, <1>2, HostStep

LEMMA ProfileWriteOwn == ASSUME ProfileInv, NEW h \in Hosts, Profile!WriteOwn(h) PROVE ProfileInv'
<1>0. /\ ProfileType /\ OwnHeld(h) /\ host[h].step = "own" /\ own[h].made /\ own[h].written = own[h].held /\ own[h].held < Profile!Files
      /\ UNCHANGED <<kind, file, writer, running>>
  BY DEF ProfileInv, Profile!WriteOwn, Profile!At
<1>1. CASE Profile!Fallback(h)
  BY <1>0, <1>1, ProfileFallback DEF ProfileType
<1>2. CASE own' = [own EXCEPT ![h].written = @ + 1] /\ UNCHANGED <<host, reading>>
  <2>1. /\ own' \in [Hosts -> OwnState] /\ \A g \in Hosts \ {h} : own'[g] = own[g]
        /\ own'[h].written = own[h].written + 1 /\ own'[h].held = own[h].held /\ own'[h].ours = own[h].ours /\ own'[h].made
        /\ own[h].written \in Nat
    BY <1>0, <1>2 DEF ProfileType, OwnState
  <2>2. Profile!Files' = Profile!Files /\ Profile!Files \in Nat
    BY <1>0, KindFacts DEF Profile!Files
  <2>3. OwnHeld(h)'
    BY <1>0, <1>2, <2>1, <2>2 DEF OwnHeld
  <2>. QED BY <1>0, <1>2, <2>1, <2>3, ProfileOwnStep
<1>. QED BY <1>1, <1>2 DEF Profile!WriteOwn

LEMMA ProfileHold == ASSUME ProfileInv, NEW h \in Hosts, Profile!Hold(h) PROVE ProfileInv'
<1>0. /\ ProfileType /\ OwnHeld(h) /\ host[h].step = "own" /\ own[h].written > own[h].held
      /\ UNCHANGED <<kind, file, writer, running>>
  BY DEF ProfileInv, Profile!Hold, Profile!At
<1>1. CASE Profile!Fallback(h)
  BY <1>0, <1>1, ProfileFallback DEF ProfileType
<1>2. CASE own[h].ours /\ own' = [own EXCEPT ![h].held = @ + 1] /\ UNCHANGED <<host, reading>>
  <2>1. /\ own' \in [Hosts -> OwnState] /\ \A g \in Hosts \ {h} : own'[g] = own[g]
        /\ own'[h].written = own[h].written /\ own'[h].held = own[h].held + 1 /\ own'[h].ours
        /\ own[h].written \in Nat /\ own[h].held \in Nat
    BY <1>0, <1>2 DEF ProfileType, OwnState
  <2>2. Profile!Files' = Profile!Files /\ Profile!Files \in Nat
    BY <1>0, KindFacts DEF Profile!Files
  <2>3. OwnHeld(h)'
    BY <1>0, <1>2, <2>1, <2>2 DEF OwnHeld
  <2>. QED BY <1>0, <1>2, <2>1, <2>3, ProfileOwnStep
<1>. QED BY <1>1, <1>2 DEF Profile!Hold

LEMMA ProfileRun == ASSUME ProfileInv, NEW h \in Hosts, Profile!Run(h) PROVE ProfileInv'
<1>0. /\ ProfileType /\ Shared /\ Compared(h) /\ Installing(h) /\ OwnHeld(h) /\ host[h].step = "own" /\ own[h].held = Profile!Files
      /\ UNCHANGED <<kind, file, writer, reading, own>> /\ running' \in {running, running \cup {h}} /\ Profile!Goto(h, "running")
  BY DEF ProfileInv, Profile!Run, Profile!At, Profile!shared
<1>1. /\ host' \in [Hosts -> HostState] /\ \A g \in Hosts \ {h} : host'[g] = host[g]
      /\ host'[h].step = "running" /\ host'[h].installed = host[h].installed /\ host'[h].profile = host[h].profile
  BY <1>0, GotoFacts DEF HostSteps
<1>2. ProfileType' /\ LeavesOthers(h) /\ StaysWhole /\ Shared'
  BY <1>0, <1>1 DEF ProfileType, LeavesOthers, StaysWhole, Shared
<1>3. OwnHeld(h)'
  <2>1. Profile!Files' = Profile!Files /\ Profile!Files \in Nat /\ own[h].written \in Nat
    BY <1>0, KindFacts DEF Profile!Files, ProfileType, OwnState
  <2>. QED BY <1>0, <1>1, <2>1 DEF OwnHeld
<1>. QED BY <1>0, <1>1, <1>2, <1>3, ProfileGoto

\* The end of a host releases what it holds.
LEMMA ProfileClose == ASSUME ProfileInv, NEW h \in Hosts, Profile!Close(h), Profile!Released(h), UNCHANGED <<kind, file>> PROVE ProfileInv'
<1>0. ProfileType /\ Shared /\ Compared(h) /\ Installing(h) /\ OwnHeld(h)
  BY DEF ProfileInv
<1>1. host' \in [Hosts -> HostState] /\ host'[h] = Profile!Ended /\ \A g \in Hosts \ {h} : host'[g] = host[g]
  BY <1>0 DEF ProfileType, HostState, HostSteps, Profile!Close, Profile!Ended
<1>2. own' \in [Hosts -> OwnState] /\ own'[h] = Profile!NoOwn /\ \A g \in Hosts \ {h} : own'[g] = own[g]
  BY <1>0 DEF ProfileType, OwnState, Profile!Released, Profile!NoOwn
<1>3. reading' \in [Profile!Entries -> SUBSET Hosts] /\ \A n \in Profile!Entries : reading'[n] = reading[n] \ {h}
  BY <1>0 DEF ProfileType, Profile!Close
<1>4. /\ writer' \in [Profile!Entries -> Hosts \cup {Other, None}]
      /\ \A n \in Profile!Entries : writer'[n] = writer[n] \/ writer'[n] = None
  BY <1>0 DEF ProfileType, Profile!Close
<1>5. ProfileType'
  BY <1>0, <1>1, <1>2, <1>3, <1>4 DEF ProfileType, Profile!Close
<1>6. LeavesOthers(h)
  BY <1>1, <1>2, <1>3 DEF LeavesOthers
<1>7. StaysWhole
  BY <1>4 DEF StaysWhole
<1>8. Shared'
  BY <1>0, <1>3, <1>4, NamesDiffer DEF Shared
<1>9. Compared(h)'
  BY <1>1 DEF Compared, Profile!Ended
<1>10. Installing(h)'
  BY <1>0, <1>1, KindFacts DEF Installing, Profile!Ended, Profile!Fixed
<1>11. OwnHeld(h)'
  <2>1. Profile!Files' = Profile!Files /\ Profile!Files \in Nat
    BY <1>0, KindFacts DEF Profile!Files
  <2>2. own'[h] = [made |-> FALSE, written |-> 0, held |-> 0, ours |-> TRUE]
    BY <1>2 DEF Profile!NoOwn
  <2>. QED BY <2>1, <2>2 DEF OwnHeld
<1>. QED BY <1>5, <1>6, <1>7, <1>8, <1>9, <1>10, <1>11, HostStep

LEMMA ProfileChangeOwn == ASSUME ProfileInv, NEW h \in Hosts, Profile!ChangeOwn(h) PROVE ProfileInv'
<1>0. /\ ProfileType /\ OwnHeld(h) /\ own[h].written > own[h].held /\ own' = [own EXCEPT ![h].ours = FALSE]
      /\ UNCHANGED <<kind, file, writer, reading, running, host>>
  BY DEF ProfileInv, Profile!ChangeOwn, Profile!shared
<1>1. /\ own' \in [Hosts -> OwnState] /\ \A g \in Hosts \ {h} : own'[g] = own[g]
      /\ own'[h].written = own[h].written /\ own'[h].held = own[h].held /\ own'[h].made = own[h].made
  BY <1>0 DEF ProfileType, OwnState
<1>2. OwnHeld(h)'
  BY <1>0, <1>1 DEF OwnHeld, Profile!Files
<1>. QED BY <1>0, <1>1, <1>2, ProfileOwnStep

LEMMA ProfileOutside ==
  ASSUME ProfileInv, ProfileType', StaysWhole, Shared', UNCHANGED <<kind, reading, running, host, own>>
  PROVE  ProfileInv'
<1>. SUFFICES ASSUME NEW h \in Hosts PROVE Compared(h)' /\ Installing(h)' /\ OwnHeld(h)'
  BY DEF ProfileInv
<1>1. ProfileType /\ Compared(h) /\ Installing(h) /\ OwnHeld(h)
  BY DEF ProfileInv
<1>2. Compared(h)'
  BY KeepsCompared
<1>. QED BY <1>1, <1>2 DEF Installing, OwnHeld, Profile!Fixed, Profile!Files, Profile!Wanted

LEMMA ProfileTake == ASSUME ProfileInv, NEW n \in Profile!Entries, Profile!Take(n) PROVE ProfileInv'
<1>0. /\ ProfileType /\ Shared /\ reading[n] = {} /\ writer[n] = None /\ writer' = [writer EXCEPT ![n] = Other]
      /\ UNCHANGED <<kind, file, reading, running, host, own>>
  BY DEF ProfileInv, Profile!Take
<1>1. ProfileType'
  BY <1>0 DEF ProfileType
<1>2. StaysWhole
  BY <1>0 DEF StaysWhole, ProfileType
<1>3. Shared'
  BY <1>0, NamesDiffer DEF Shared, ProfileType
<1>. QED BY <1>0, <1>1, <1>2, <1>3, ProfileOutside

LEMMA ProfileLeave == ASSUME ProfileInv, NEW n \in Profile!Entries, Profile!Leave(n) PROVE ProfileInv'
<1>0. /\ ProfileType /\ Shared /\ writer[n] = Other /\ writer' = [writer EXCEPT ![n] = None]
      /\ \E now \in {file[n], "changed", "none"} : file' = [file EXCEPT ![n] = now]
      /\ UNCHANGED <<kind, reading, running, host, own>>
  BY DEF ProfileInv, Profile!Leave
<1>1. ProfileType'
  BY <1>0 DEF ProfileType
<1>2. StaysWhole
  BY <1>0, NamesDiffer DEF StaysWhole, ProfileType
<1>3. Shared'
  BY <1>0, NamesDiffer DEF Shared, ProfileType
<1>. QED BY <1>0, <1>1, <1>2, <1>3, ProfileOutside

LEMMA ProfileInit == Profile!Init => ProfileInv
<1>. SUFFICES ASSUME Profile!Init PROVE ProfileInv
  OBVIOUS
<1>. USE DEF Profile!Init
<1>1. ProfileType
  BY DEF ProfileType, HostState, HostSteps, OwnState, Profile!Ended, Profile!NoOwn
<1>2. Shared
  BY NamesDiffer DEF Shared
<1>3. ASSUME NEW h \in Hosts PROVE Compared(h) /\ Installing(h) /\ OwnHeld(h)
  BY <1>1, KindFacts DEF Compared, Installing, OwnHeld, Profile!Ended, Profile!NoOwn
<1>. QED BY <1>1, <1>2, <1>3 DEF ProfileInv

LEMMA ProfileNext == ProfileInv /\ Profile!Next => ProfileInv'
<1>. SUFFICES ASSUME ProfileInv, Profile!Next PROVE ProfileInv'
  OBVIOUS
<1>1. CASE \E h \in Hosts : Profile!Prepare(h) \/ Profile!Prepares(h) \/ Profile!Exit(h) \/ Profile!Killed(h) \/ Profile!ChangeOwn(h)
  <2>. PICK h \in Hosts : Profile!Prepare(h) \/ Profile!Prepares(h) \/ Profile!Exit(h) \/ Profile!Killed(h) \/ Profile!ChangeOwn(h)
    BY <1>1
  <2>1. CASE Profile!Prepares(h)
    BY <2>1, ProfileCheck, ProfileCreate, ProfileWrite, ProfileOpen, ProfileVerify, ProfileDataFile,
       ProfileLease, ProfileWriteOwn, ProfileHold, ProfileRun DEF Profile!Prepares
  <2>2. CASE Profile!Exit(h) \/ Profile!Killed(h)
    BY <2>2, ProfileClose DEF Profile!Exit, Profile!Killed
  <2>. QED BY <2>1, <2>2, ProfilePrepare, ProfileChangeOwn
<1>2. CASE \E n \in Profile!Entries : Profile!Take(n) \/ Profile!Leave(n)
  BY <1>2, ProfileTake, ProfileLeave
<1>. QED BY <1>1, <1>2 DEF Profile!Next

\* What was compared and held is what the shell runs on.
LEMMA ProfileTrue == ProfileInv => Profile!RunsOnOwnFiles
<1>. SUFFICES ASSUME ProfileInv, NEW h \in Hosts, host[h].step = "running"
              PROVE  /\ host[h].profile /\ kind = "cmd" => \A n \in Profile!ToSet(Settings) : file[n] = "whole"
                     /\ own[h].made => own[h].ours
  BY DEF Profile!RunsOnOwnFiles, Profile!At
<1>1. ProfileType /\ Compared(h) /\ Installing(h) /\ OwnHeld(h)
  BY DEF ProfileInv
<1>2. own[h].ours
  BY <1>1 DEF OwnHeld, ProfileType, OwnState
<1>3. ASSUME host[h].profile, kind = "cmd", NEW n \in Profile!ToSet(Settings) PROVE file[n] = "whole"
  <2>1. PICK i \in 1..Len(Settings) : n = Settings[i]
    BY SettingFacts
  <2>2. host[h].installed = Len(Settings)
    BY <1>1, <1>3 DEF Installing, Profile!Fixed
  <2>. QED BY <1>1, <1>3, <2>1, <2>2 DEF Compared
<1>. QED BY <1>2, <1>3

LEMMA ProfileStutter == ProfileInv /\ UNCHANGED profileVars => ProfileInv'
<1>. SUFFICES ASSUME ProfileInv, UNCHANGED profileVars PROVE ProfileInv'
  OBVIOUS
<1>1. ProfileType' /\ Shared'
  BY DEF profileVars, ProfileInv, ProfileType, Shared
<1>2. Profile!Fixed' = Profile!Fixed /\ \A h \in Hosts : Profile!Wanted(h)' = Profile!Wanted(h)
  BY DEF profileVars, Profile!Fixed, Profile!Wanted
<1>3. ASSUME NEW h \in Hosts PROVE Compared(h)' /\ Installing(h)' /\ OwnHeld(h)'
  <2>1. Compared(h) /\ Installing(h) /\ OwnHeld(h)
    BY DEF ProfileInv
  <2>2. Compared(h)'
    BY <2>1 DEF profileVars, Compared
  <2>3. Installing(h)'
    BY <1>2, <2>1 DEF profileVars, Installing
  <2>4. OwnHeld(h)'
    BY <2>1 DEF profileVars, OwnHeld, Profile!Files
  <2>. QED BY <2>2, <2>3, <2>4
<1>. QED BY <1>1, <1>3 DEF ProfileInv

-----------------------------------------------------------------------------
(* The history: what a page leaves is older than all of it, so that the     *)
(* next page can start where it ended.  That a page has an oldest row is    *)
(* shown by counting the rows below each.                                   *)

Less == {p \in Nat \X Nat : p[1] < p[2]}

LEMMA LessWellFounded == IsWellFoundedOn(Less, Nat)
<1>1. Less = OpToRel(<, Nat)
  BY Zenon DEF Less, OpToRel
<1>. QED BY <1>1, NatLessThanWellFounded, Zenon

\* Every set of numbers that is not empty has a least one.
LEMMA LeastNumber ==
  ASSUME NEW S \in SUBSET Nat, S # {}
  PROVE  \E n \in S : \A m \in S : n <= m
<1>1. PICK n \in S : \A m \in S : ~(<<m, n>> \in Less)
  BY LessWellFounded, WFMin, Zenon
<1>2. \A m \in S : m < n => <<m, n>> \in Less
  BY SMT DEF Less
<1>3. \A m \in S : ~(m < n)
  BY <1>1, <1>2, Zenon
<1>. QED BY <1>3, SMT

-----------------------------------------------------------------------------
Row == [id : Nat, command : Commands, time : Int]
Place == [id : Nat, time : Int]

\* The rows of a table are told apart by their identifiers.
Distinct(table) == \A r, o \in table : r.id = o.id => r = o

\* The history counts with the same Cardinality.
LEMMA SizeSame == \A table : History!Cardinality(table) = Cardinality(table)
BY Zenon DEF Cardinality, History!Cardinality

LEMMA NewerOrders ==
  ASSUME NEW table \in SUBSET Row, Distinct(table)
  PROVE  /\ \A r \in table : ~History!Newer(r, r)
         /\ \A r, o \in table : r = o \/ History!Newer(r, o) \/ History!Newer(o, r)
         /\ \A r, o, p \in table : History!Newer(r, o) /\ History!Newer(o, p) => History!Newer(r, p)
<1>1. \A r \in table : r.time \in Int /\ r.id \in Nat
  BY DEF Row
<1>. QED BY <1>1 DEF Distinct, History!Newer

\* A table that is not empty has a newest row and an oldest one.
LEMMA NewestRow ==
  ASSUME NEW table \in SUBSET Row, Distinct(table), IsFiniteSet(table), table # {}
  PROVE  \E r \in table : \A o \in table : ~History!Newer(o, r)
<1>. DEFINE Above(r) == {o \in table : History!Newer(o, r)}
            Sizes == {Cardinality(Above(r)) : r \in table}
<1>1. \A r \in table : IsFiniteSet(Above(r)) /\ Cardinality(Above(r)) \in Nat
  BY FS_Subset, FS_CardinalityType
<1>2. Sizes \in SUBSET Nat /\ Sizes # {}
  BY <1>1
<1>3. PICK n \in Sizes : \A m \in Sizes : n <= m
  BY <1>2, LeastNumber, Zenon
<1>4. PICK r \in table : n = Cardinality(Above(r))
  OBVIOUS
<1>. SUFFICES ASSUME NEW o \in table, History!Newer(o, r) PROVE FALSE
  OBVIOUS
<1>5. Above(o) \subseteq Above(r)
  BY NewerOrders
<1>6. o \in Above(r) /\ o \notin Above(o)
  BY NewerOrders
<1>7. Cardinality(Above(o)) <= Cardinality(Above(r)) /\ Cardinality(Above(o)) # Cardinality(Above(r))
  <2>1. Above(o) \in SUBSET Above(r) /\ Above(o) # Above(r)
    BY <1>5, <1>6
  <2>. HIDE DEF Above
  <2>. QED BY <1>1, <2>1, FS_Subset
<1>8. Cardinality(Above(o)) \in Sizes
  OBVIOUS
<1>. HIDE DEF Above, Sizes
<1>. QED BY <1>1, <1>2, <1>3, <1>4, <1>7, <1>8

LEMMA OldestRow ==
  ASSUME NEW table \in SUBSET Row, Distinct(table), IsFiniteSet(table), table # {}
  PROVE  \E r \in table : \A o \in table : ~History!Newer(r, o)
<1>. DEFINE Below(r) == {o \in table : History!Newer(r, o)}
            Sizes == {Cardinality(Below(r)) : r \in table}
<1>1. \A r \in table : IsFiniteSet(Below(r)) /\ Cardinality(Below(r)) \in Nat
  BY FS_Subset, FS_CardinalityType
<1>2. Sizes \in SUBSET Nat /\ Sizes # {}
  BY <1>1
<1>3. PICK n \in Sizes : \A m \in Sizes : n <= m
  BY <1>2, LeastNumber, Zenon
<1>4. PICK r \in table : n = Cardinality(Below(r))
  OBVIOUS
<1>. SUFFICES ASSUME NEW o \in table, History!Newer(r, o) PROVE FALSE
  OBVIOUS
<1>5. Below(o) \subseteq Below(r)
  BY NewerOrders
<1>6. o \in Below(r) /\ o \notin Below(o)
  BY NewerOrders
<1>7. Cardinality(Below(o)) <= Cardinality(Below(r)) /\ Cardinality(Below(o)) # Cardinality(Below(r))
  <2>1. Below(o) \in SUBSET Below(r) /\ Below(o) # Below(r)
    BY <1>5, <1>6
  <2>. HIDE DEF Below
  <2>. QED BY <1>1, <2>1, FS_Subset
<1>8. Cardinality(Below(o)) \in Sizes
  OBVIOUS
<1>. HIDE DEF Below, Sizes
<1>. QED BY <1>1, <1>2, <1>3, <1>4, <1>7, <1>8

\* A page that leaves rows has an oldest row, which is newer than all that it leaves.
LEMMA PageSplits ==
  ASSUME NEW table \in SUBSET Row, Distinct(table), IsFiniteSet(table),
         NEW page, page = History!Take(PageSize, table), page # table
  PROVE  \E last \in page : /\ \A o \in page : ~History!Newer(last, o)
                            /\ \A r \in table \ page : History!Newer(last, r)
<1>. DEFINE Above(r) == {o \in table : History!Newer(o, r)}
<1>1. page = {r \in table : Cardinality(Above(r)) < PageSize}
  BY SizeSame DEF History!Take
<1>2. \A r \in table : IsFiniteSet(Above(r)) /\ Cardinality(Above(r)) \in Nat
  BY FS_Subset, FS_CardinalityType
<1>3. page \in SUBSET Row /\ Distinct(page) /\ IsFiniteSet(page)
  BY <1>1, FS_Subset DEF Distinct
<1>4. page # {}
  <2>1. PICK r \in table : \A o \in table : ~History!Newer(o, r)
    BY <1>1, NewestRow
  <2>2. Above(r) = {}
    BY <2>1
  <2>. QED BY <1>1, <2>2, FS_EmptySet, HistoryAssumption
<1>5. PICK last \in page : \A o \in page : ~History!Newer(last, o)
  BY <1>3, <1>4, OldestRow
<1>6. ASSUME NEW r \in table \ page PROVE History!Newer(last, r)
  <2>. SUFFICES ASSUME ~History!Newer(last, r) PROVE FALSE
    OBVIOUS
  <2>0. last \in table
    BY <1>1
  <2>1. History!Newer(r, last)
    BY <2>0, NewerOrders
  <2>2. Above(r) \in SUBSET Above(last)
    BY <2>0, <2>1, NewerOrders
  <2>3. IsFiniteSet(Above(last)) /\ Cardinality(Above(last)) \in Nat /\ Cardinality(Above(r)) \in Nat
    BY <1>2, <2>0
  <2>4. Cardinality(Above(last)) < PageSize /\ ~(Cardinality(Above(r)) < PageSize)
    BY <1>1
  <2>. HIDE DEF Above
  <2>5. Cardinality(Above(r)) <= Cardinality(Above(last))
    BY <2>2, <2>3, FS_Subset
  <2>. QED BY <2>3, <2>4, <2>5, HistoryAssumption
<1>. QED BY <1>5, <1>6
-----------------------------------------------------------------------------
\* A table with the identifier of its next row.
Good(table, next) ==
  /\ table \in SUBSET Row /\ IsFiniteSet(table) /\ next \in Nat /\ Distinct(table)
  /\ \A r \in table : r.id < next

\* No command is twice in a table that is free of duplicates.
Single(table) == \A r, o \in table : r.command = o.command => r = o

\* What was there all along is listed, or the next page is still to reach it.
PagesKeep ==
  /\ kept \subseteq rows
  /\ paging \in {"none", "more", "end", "refused"}
  /\ paging = "more" => cursor \in Place /\ \A r \in kept : r.id \in listed \/ History!Newer(cursor, r)
  /\ paging = "end" => \A r \in kept : r.id \in listed

HistoryInv ==
  /\ Good(rows, nextId) /\ deduplicate \in BOOLEAN
  /\ deduplicate => Single(rows)
  /\ PagesKeep

LEMMA HistoryInit == History!Init => HistoryInv
<1>. SUFFICES ASSUME History!Init PROVE HistoryInv
  OBVIOUS
<1>1. rows = {} /\ nextId = 1 /\ deduplicate = FALSE /\ kept = {} /\ paging = "none"
  BY DEF History!Init
<1>2. Good(rows, nextId)
  BY <1>1, FS_EmptySet DEF Good, Distinct
<1>3. PagesKeep
  BY <1>1 DEF PagesKeep
<1>. QED BY <1>1, <1>2, <1>3 DEF HistoryInv

\* Whatever becomes of the table, a page goes on from where it was.
LEMMA BecomesInv ==
  ASSUME HistoryInv, NEW table, History!Becomes(table), Good(table, nextId'), deduplicate' \in BOOLEAN,
         deduplicate' => Single(table)
  PROVE  HistoryInv'
BY DEF HistoryInv, PagesKeep, History!Becomes

LEMMA Subtable ==
  ASSUME NEW table, NEW next, Good(table, next), NEW part \in SUBSET table
  PROVE  Good(part, next) /\ (Single(table) => Single(part))
BY FS_Subset DEF Good, Distinct, Single

LEMMA OneMore ==
  ASSUME NEW table, NEW next, Good(table, next), NEW c \in Commands, NEW t \in Int
  PROVE  Good(table \cup {[id |-> next, command |-> c, time |-> t]}, next + 1)
<1>. DEFINE r == [id |-> next, command |-> c, time |-> t]
<1>1. r \in Row /\ r.id = next
  BY DEF Good, Row
<1>2. IsFiniteSet(table \cup {r})
  BY FS_AddElement DEF Good
<1>. HIDE DEF r
<1>3. \A q \in table : q.id \in Nat /\ q.id < next
  BY DEF Good, Row
<1>4. Distinct(table \cup {r})
  BY <1>1, <1>3 DEF Good, Distinct
<1>5. \A q \in table \cup {r} : q.id < next + 1
  BY <1>1, <1>3 DEF Good
<1>6. table \cup {r} \in SUBSET Row /\ next + 1 \in Nat
  BY <1>1 DEF Good
<1>7. Good(table \cup {r}, next + 1)
  BY <1>2, <1>4, <1>5, <1>6 DEF Good
<1>. QED BY <1>7 DEF r

LEMMA OneMoreSingle ==
  ASSUME NEW table, Single(table), NEW next, NEW c, NEW t
  PROVE  Single((table \ History!Of(c, table)) \cup {[id |-> next, command |-> c, time |-> t]})
BY DEF Single, History!Of

LEMMA UpdateInv == ASSUME HistoryInv, NEW enabled \in BOOLEAN, History!UpdateDeduplication(enabled) PROVE HistoryInv'
<1>. DEFINE table == IF enabled THEN History!Newest(rows) ELSE rows
<1>1. table \in SUBSET rows
  BY DEF History!Newest
<1>2. Good(table, nextId)
  BY <1>1, Subtable DEF HistoryInv
<1>3. ASSUME enabled PROVE Single(table)
  <2>. SUFFICES ASSUME NEW r \in table, NEW o \in table, r.command = o.command PROVE r = o
    BY DEF Single
  <2>1. r \in rows /\ o \in rows /\ ~History!Newer(o, r) /\ ~History!Newer(r, o)
    BY <1>3 DEF History!Newest, History!Of
  <2>2. rows \in SUBSET Row /\ Distinct(rows)
    BY DEF HistoryInv, Good
  <2>. QED BY <2>1, <2>2, NewerOrders
<1>. HIDE DEF table
<1>4. History!Becomes(table) /\ deduplicate' = enabled /\ nextId' = nextId
  BY DEF History!UpdateDeduplication, table
<1>. QED BY <1>2, <1>3, <1>4, BecomesInv

LEMMA AddInv == ASSUME HistoryInv, NEW c \in Commands, NEW t \in Times, History!Add(c, t) PROVE HistoryInv'
<1>. DEFINE others == IF deduplicate THEN rows \ History!Of(c, rows) ELSE rows
            r == [id |-> nextId, command |-> c, time |-> t]
<1>1. others \in SUBSET rows
  OBVIOUS
<1>2. Good(others, nextId)
  BY <1>1, Subtable DEF HistoryInv
<1>3. Good(others \cup {r}, nextId + 1)
  BY <1>2, OneMore, HistoryAssumption
<1>4. deduplicate => Single(others \cup {r})
  BY OneMoreSingle DEF HistoryInv
<1>5. History!Becomes(others \cup {r}) /\ nextId' = nextId + 1 /\ deduplicate' = deduplicate
  BY DEF History!Add
<1>. HIDE DEF others, r
<1>. QED BY <1>3, <1>4, <1>5, BecomesInv DEF HistoryInv

\* A table to which entries of a file are added.
Filled(db) == Good(db.rows, db.next) /\ (deduplicate => Single(db.rows))

LEMMA InsertFills ==
  ASSUME NEW db, Filled(db), NEW entry \in History!Entries
  PROVE  Filled(History!Insert(db, entry))
<1>. DEFINE same == IF deduplicate THEN History!Of(entry.command, db.rows) ELSE {}
            r == [id |-> db.next, command |-> entry.command, time |-> entry.time]
<1>1. entry.command \in Commands /\ entry.time \in Int
  BY HistoryAssumption DEF History!Entries
<1>2. Good(db.rows \ same, db.next)
  BY Subtable DEF Filled
<1>3. Good((db.rows \ same) \cup {r}, db.next + 1)
  BY <1>1, <1>2, OneMore
<1>4. deduplicate => Single((db.rows \ same) \cup {r})
  BY OneMoreSingle DEF Filled
<1>5. History!Insert(db, entry) \in {db, [rows |-> (db.rows \ same) \cup {r}, next |-> db.next + 1]}
  BY DEF History!Insert
<1>. HIDE DEF same, r
<1>. QED BY <1>3, <1>4, <1>5 DEF Filled

LEMMA ImportInv == ASSUME HistoryInv, NEW db, Filled(db), History!Import(db) PROVE HistoryInv'
BY BecomesInv DEF Filled, History!Import, HistoryInv

LEMMA ClearInv == ASSUME HistoryInv, History!Clear PROVE HistoryInv'
<1>1. Good({}, nextId) /\ Single({})
  BY FS_EmptySet DEF HistoryInv, Good, Distinct, Single
<1>. QED BY <1>1, BecomesInv DEF History!Clear, HistoryInv

LEMMA ListInv ==
  ASSUME HistoryInv, NEW place, History!List(place), place = None \/ (place = cursor /\ paging = "more")
  PROVE  HistoryInv'
<1>. DEFINE older == {r \in rows : History!Before(r, place)}
            page  == History!Take(PageSize, older)
            last  == CHOOSE r \in page : \A o \in page : ~History!Newer(r, o)
            seen  == IF place = None THEN {} ELSE listed
<1>1. rows' = rows /\ nextId' = nextId /\ deduplicate' = deduplicate /\ kept' = (IF place = None THEN rows ELSE kept)
  BY DEF History!List
<1>2. older \in SUBSET Row /\ Distinct(older) /\ IsFiniteSet(older) /\ page \subseteq older
  BY FS_Subset DEF HistoryInv, Good, Distinct, History!Take
<1>3. \A r \in kept' : r \in older \/ r.id \in seen
  BY <1>1 DEF HistoryInv, PagesKeep, History!Before
<1>4. kept' \subseteq rows'
  BY <1>1 DEF HistoryInv, PagesKeep
<1>5. \/ paging' = "refused"
      \/ paging' = "end" /\ older = page /\ listed' = seen \cup {r.id : r \in page}
      \/ /\ paging' = "more" /\ older # page /\ listed' = seen \cup {r.id : r \in page}
         /\ cursor' = [id |-> last.id, time |-> last.time]
  BY DEF History!List
<1>. HIDE DEF older, seen
<1>6. PagesKeep'
  <2>1. CASE paging' = "refused"
    BY <1>4, <2>1 DEF PagesKeep
  <2>2. CASE paging' = "end" /\ older = page /\ listed' = seen \cup {r.id : r \in page}
    BY <1>3, <1>4, <2>2 DEF PagesKeep
  <2>3. CASE paging' = "more" /\ older # page /\ listed' = seen \cup {r.id : r \in page}
             /\ cursor' = [id |-> last.id, time |-> last.time]
    <3>1. last \in page /\ \A r \in older \ page : History!Newer(last, r)
      <4>1. PICK l \in page : /\ \A o \in page : ~History!Newer(l, o)
                              /\ \A r \in older \ page : History!Newer(l, r)
        BY <1>2, <2>3, PageSplits
      <4>2. last \in page /\ \A o \in page : ~History!Newer(last, o)
        BY <4>1
      <4>. HIDE DEF last, page
      <4>3. last = l
        BY <1>2, <4>1, <4>2, NewerOrders
      <4>. QED BY <4>1, <4>3
    <3>. HIDE DEF last, page
    <3>2. last \in Row
      BY <1>2, <3>1
    <3>3. cursor' \in Place /\ \A r \in older \ page : History!Newer(cursor', r)
      BY <2>3, <3>1, <3>2 DEF Place, Row, History!Newer
    <3>. QED BY <1>3, <1>4, <2>3, <3>3 DEF PagesKeep
  <2>. QED BY <1>5, <2>1, <2>2, <2>3
<1>. QED BY <1>1, <1>6 DEF HistoryInv

LEMMA HistoryNext == HistoryInv /\ History!Next => HistoryInv'
<1>. SUFFICES ASSUME HistoryInv, History!Next PROVE HistoryInv'
  OBVIOUS
<1>1. Filled(History!Table)
  BY DEF Filled, HistoryInv, History!Table
<1>2. CASE \E a \in History!Entries : History!Import(History!Insert(History!Table, a))
  BY <1>1, <1>2, InsertFills, ImportInv
<1>3. CASE \E a, b \in History!Entries : History!Import(History!Insert(History!Insert(History!Table, a), b))
  BY <1>1, <1>3, InsertFills, ImportInv
<1>4. CASE History!FirstPage \/ History!NextPage
  BY <1>4, ListInv DEF History!FirstPage, History!NextPage
<1>. QED BY <1>2, <1>3, <1>4, UpdateInv, AddInv, ClearInv DEF History!Next

LEMMA HistoryTrue == HistoryInv => History!OnePerCommand /\ History!PagesComplete
<1>. SUFFICES ASSUME HistoryInv PROVE History!OnePerCommand /\ History!PagesComplete
  OBVIOUS
<1>1. ASSUME deduplicate, NEW c \in Commands PROVE Cardinality(History!Of(c, rows)) <= 1
  <2>1. CASE History!Of(c, rows) = {}
    BY <2>1, FS_EmptySet
  <2>2. CASE \E r : History!Of(c, rows) = {r}
    BY <2>2, FS_Singleton
  <2>3. \A r, o \in History!Of(c, rows) : r = o
    BY <1>1 DEF HistoryInv, Single, History!Of
  <2>. QED BY <2>1, <2>2, <2>3
<1>2. History!OnePerCommand
  BY <1>1, SizeSame DEF History!OnePerCommand
<1>3. History!PagesComplete
  BY DEF HistoryInv, PagesKeep, History!PagesComplete
<1>. QED BY <1>2, <1>3

LEMMA HistoryStutter == HistoryInv /\ UNCHANGED historyVars => HistoryInv'
BY DEF historyVars, HistoryInv, Good, Distinct, Single, PagesKeep

-----------------------------------------------------------------------------
(* The instance: a step of one component leaves the others alone.           *)

DesktopInv == ShellInv /\ ProfileInv /\ HistoryInv

LEMMA DesktopInit == MCInit => DesktopInv
BY ShellInit, ProfileInit, HistoryInit DEF MCInit, DesktopInv

LEMMA DesktopNext ==
  DesktopInv /\ [MCNext]_<<component, vars, terminalVars, shellVars, historyVars, profileVars>> => DesktopInv'
<1>. SUFFICES ASSUME DesktopInv, [MCNext]_<<component, vars, terminalVars, shellVars, historyVars, profileVars>>
              PROVE  DesktopInv'
  OBVIOUS
<1>1. Shell!Next \/ UNCHANGED shellVars
  BY DEF MCNext
<1>2. Profile!Next \/ UNCHANGED profileVars
  BY DEF MCNext
<1>3. History!Next \/ UNCHANGED historyVars
  BY DEF MCNext
<1>. QED BY <1>1, <1>2, <1>3, ShellNextInv, ShellStutter, ProfileNext, ProfileStutter, HistoryNext, HistoryStutter
         DEF DesktopInv

LEMMA DesktopAlways == MCSpec => []DesktopInv
BY DesktopInit, DesktopNext, PTL DEF MCSpec

\* The exit of a shell is told after all of its output, in its order (host.rs), and a
\* shell runs on settings and own files that nobody else has changed
\* (local_terminal_service/history.rs).
THEOREM ShellsStayWhole == MCSpec => []ShellsWhole
<1>1. DesktopInv => ShellsWhole
  BY ShellTrue, ProfileTrue DEF DesktopInv, ShellsWhole
<1> QED BY <1>1, DesktopAlways, PTL

\* Deduplication leaves one row per command, and pages that were read to the end have
\* listed every row that was there all along (command_history_service.rs).
THEOREM HistoryStaysWhole == MCSpec => []HistoryWhole
<1>1. DesktopInv => HistoryWhole
  BY HistoryTrue DEF DesktopInv, HistoryWhole
<1> QED BY <1>1, DesktopAlways, PTL
=============================================================================
