---------------------------- MODULE ChannelBridge ----------------------------
(***************************************************************************)
(* One channel the broker carries between the desktop and the target       *)
(* (broker/src/proxy.rs, bridge).  Each direction is a loop of its own     *)
(* that waits for the window of its receiver.                              *)
(***************************************************************************)
EXTENDS Naturals

CONSTANTS Total,   \* messages in flight a side may have
          Window   \* messages a receiver takes before it reads

VARIABLES typed,     \* messages of the desktop the outbound loop has not taken
          toTarget,  \* taken, and not read by the target
          printed,   \* messages of the target the inbound loop has not taken
          toDesktop, \* taken, and not read by the desktop
          ended,     \* sides that have closed their half
          closed     \* the bridge has closed both halves

vars == <<typed, toTarget, printed, toDesktop, ended, closed>>

Init == typed = 0 /\ toTarget = 0 /\ printed = 0 /\ toDesktop = 0 /\ ended = {} /\ closed = FALSE

Type ==
  /\ "desktop" \notin ended /\ typed < Total /\ typed' = typed + 1
  /\ UNCHANGED <<toTarget, printed, toDesktop, ended, closed>>

PrintOutput ==
  /\ "target" \notin ended /\ printed < Total /\ printed' = printed + 1
  /\ UNCHANGED <<typed, toTarget, toDesktop, ended, closed>>

TargetReads ==
  /\ toTarget > 0 /\ toTarget' = toTarget - 1
  /\ UNCHANGED <<typed, printed, toDesktop, ended, closed>>

DesktopReads ==
  /\ toDesktop > 0 /\ toDesktop' = toDesktop - 1
  /\ UNCHANGED <<typed, toTarget, printed, ended, closed>>

\* Changed: one loop carries both directions, and waits for one at a time.
OneLoop ==
  /\ ~closed /\ typed > 0 /\ toTarget < Window /\ (printed > 0 => toDesktop < Window)
  /\ typed' = typed - 1 /\ toTarget' = toTarget + 1
  /\ UNCHANGED <<printed, toDesktop, ended, closed>>

\* The two loops: data, requests for a terminal, a shell or a command, signals.
Outbound ==
  /\ ~closed /\ typed > 0 /\ toTarget < Window
  /\ typed' = typed - 1 /\ toTarget' = toTarget + 1
  /\ UNCHANGED <<printed, toDesktop, ended, closed>>

Inbound ==
  /\ ~closed /\ printed > 0 /\ toDesktop < Window
  /\ printed' = printed - 1 /\ toDesktop' = toDesktop + 1
  /\ UNCHANGED <<typed, toTarget, ended, closed>>

End(side) ==
  /\ side \notin ended /\ ended' = ended \cup {side}
  /\ UNCHANGED <<typed, toTarget, printed, toDesktop, closed>>

\* Changed: both loops have to end.
CloseAfterBoth ==
  /\ ~closed /\ ended = {"desktop", "target"} /\ typed = 0 /\ printed = 0
  /\ closed' = TRUE /\ UNCHANGED <<typed, toTarget, printed, toDesktop, ended>>

\* A loop ends behind the last message of its side, and ends the other.
Close ==
  /\ ~closed /\ \/ "desktop" \in ended /\ typed = 0
                \/ "target" \in ended /\ printed = 0
  /\ closed' = TRUE /\ UNCHANGED <<typed, toTarget, printed, toDesktop, ended>>

Next ==
  \/ Type \/ PrintOutput \/ TargetReads \/ DesktopReads \/ Outbound \/ Inbound \/ Close
  \/ \E side \in {"desktop", "target"} : End(side)

\* The loops are polled and the target reads; the desktop need not read.
Fairness == WF_vars(TargetReads) /\ WF_vars(Outbound) /\ WF_vars(Inbound) /\ WF_vars(Close)
-----------------------------------------------------------------------------
TypeOK ==
  /\ {typed, printed} \subseteq 0..Total /\ {toTarget, toDesktop} \subseteq 0..Window
  /\ ended \subseteq {"desktop", "target"} /\ closed \in BOOLEAN

\* What is typed goes on to the target though the desktop does not read the
\* output that has filled its window (the comment in bridge).
TypedArrives == <>[](typed > 0 /\ ~closed) => []<><<typed' < typed>>_vars

\* A desktop that closes its channel gets it closed, with what it typed sent,
\* whatever the target still prints.
DesktopCloses == ("desktop" \in ended) ~> closed
=============================================================================
