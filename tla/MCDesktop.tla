----------------------------- MODULE MCDesktop ------------------------------
(***************************************************************************)
(* What the desktop has to end: its windows, its local shells and what is  *)
(* kept for them.  These components share no state: a behaviour of this    *)
(* instance is one of the component it starts with, the others stay in     *)
(* their initial states and owe no steps.                                  *)
(***************************************************************************)
EXTENDS GuiLifecycle, Integers, Sequences

CONSTANTS Requests, Tabs,                      \* of LocalTerminal
          MaxPrinted, QueueSize, JobsSize,     \* of LocalHost
          Commands, Times, MaxId, PageSize,    \* of CommandHistory
          Hosts, Settings, Attempts, OwnFiles, \* of ShellProfile
          Other, None

ASSUME NamesDiffer        == Other # None /\ Other \notin Hosts /\ None \notin Hosts
ASSUME SettingsAssumption == Settings \in Seq(STRING) /\ OwnFiles \in Nat
ASSUME HistoryAssumption  ==
  Times \subseteq Int /\ PageSize \in Nat \ {0} /\ None \notin [id : Nat, time : Int]

VARIABLES component,
  tab, attempt, reserved, entries, remembered, stopped, launching, process, desktop, session,
  shell, printed, pty, console, folded, hand, reader, queue, main, told, shown,
  counted, pending, jobs, writing, accepted, known, drain,
  rows, nextId, deduplicate, paging, cursor, listed, kept,
  kind, file, writer, reading, running, host, own

Terminals == INSTANCE LocalTerminal WITH pending <- reserved, token <- stopped, host <- process
Shell     == INSTANCE LocalHost WITH ended <- told
History   == INSTANCE CommandHistory
Profile   == INSTANCE ShellProfile WITH active <- running

MCTimes    == -1..1
MCSettings == <<".inputrc">>

terminalVars == <<tab, attempt, reserved, entries, remembered, stopped, launching, process, desktop, session>>
shellVars == <<shell, printed, pty, console, folded, hand, reader, queue, main, told, shown,
               counted, pending, jobs, writing, accepted, known, drain>>
historyVars == <<rows, nextId, deduplicate, paging, cursor, listed, kept>>
profileVars == <<kind, file, writer, reading, running, host, own>>

In(c) == component = c

MCInit ==
  /\ component \in {"window", "terminals", "shell", "history", "profile"}
  /\ Terminals!Init /\ Shell!Init /\ History!Init
  /\ Init /\ (In("window") \/ ~active)
  /\ Profile!Init /\ (In("profile") \/ kind = "cmd")

MCNext ==
  /\ UNCHANGED component
  /\ \/ In("window") /\ Next /\ UNCHANGED <<terminalVars, shellVars, historyVars, profileVars>>
     \/ In("terminals") /\ Terminals!Next /\ UNCHANGED <<vars, shellVars, historyVars, profileVars>>
     \/ In("shell") /\ Shell!Next /\ UNCHANGED <<vars, terminalVars, historyVars, profileVars>>
     \/ In("history") /\ History!Next /\ UNCHANGED <<vars, terminalVars, shellVars, profileVars>>
     \/ In("profile") /\ Profile!Next /\ UNCHANGED <<vars, terminalVars, shellVars, historyVars>>

\* The fairness that GuiLifecycle states, in its own behaviours.  In the initial
\* state of the other components none of the actions they are fair to is enabled,
\* so that their fairness asks nothing of the behaviours of another.
WindowFairness ==
  /\ WF_vars(In("window") /\ SetUp) /\ WF_vars(In("window") /\ ExitEvent)
  /\ WF_vars(In("window") /\ Destroyed) /\ WF_vars(In("window") /\ ShutdownDone)
  /\ WF_vars(In("window") /\ CommitStep) /\ WF_vars(In("window") /\ (Abort \/ SaveMode))
  /\ WF_vars(In("window") /\ (Recheck \/ AwaitSetUp)) /\ SF_vars(In("window") /\ AwaitGuard)
  /\ WF_vars(In("window") /\ AwaitDestruction) /\ WF_vars(In("window") /\ Prepare) /\ WF_vars(In("window") /\ Present)

MCSpec ==
  /\ MCInit /\ [][MCNext]_<<component, vars, terminalVars, shellVars, historyVars, profileVars>>
  /\ WindowFairness /\ Terminals!Fairness /\ Shell!Fairness /\ Profile!Fairness
-----------------------------------------------------------------------------
\* Windows come back and the program ends when it was asked to (gui_lifecycle.rs,
\* lib.rs): see GuiLifecycle.
Recovers == ExitEnds /\ SlotFreed /\ DestructionEnds

\* Local shells (local_terminal_service): a cancelled start leaves none, one that
\* nobody has a terminal for ends, every start ends, an exit is told, and the
\* commands drain before their history is written (commands.rs).
ShellsEnd ==
  /\ Terminals!CancelEnds /\ Terminals!Reclaimed /\ Profile!StartEnds
  /\ Shell!ExitTold /\ Shell!DrainWaits

\* The exit is told last (host.rs), with the profile and files the tab was told of
\* (local_terminal_service/history.rs).
ShellsWhole == Shell!ExitLast /\ Profile!RunsOnOwnFiles

\* The history (command_history_service.rs): one row per command, and complete
\* pages however the table changes between them.
HistoryWhole == History!OnePerCommand /\ History!PagesComplete
=============================================================================
