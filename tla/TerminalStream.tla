--------------------------- MODULE TerminalStream ---------------------------
(***************************************************************************)
(* What a user may rely on, whatever lightweight mode does: an open window *)
(* shows of every terminal a prefix of its output, the prefix only grows   *)
(* while the window stays open, a new window starts again from the first   *)
(* unit, and the end of a terminal is shown once its output is complete.   *)
(***************************************************************************)
EXTENDS Naturals, Sequences

CONSTANTS Terminals,
          MaxOutput   \* bound: units a terminal emits

VARIABLES emitted,    \* [Terminals -> Nat]
          finished,   \* terminals that emit no more
          open,       \* a window is open
          view,       \* [Terminals -> Seq(Nat)]  what it shows
          over        \* terminals whose end it shows

vars == <<emitted, finished, open, view, over>>

Prefix(n) == [i \in 1..n |-> i]

Blank == [t \in Terminals |-> <<>>]

Init ==
  /\ emitted = [t \in Terminals |-> 0]
  /\ finished \in SUBSET Terminals
  /\ open \in BOOLEAN
  /\ view = Blank
  /\ over = {}

Emit(t) ==
  /\ t \notin finished /\ emitted[t] < MaxOutput
  /\ emitted' = [emitted EXCEPT ![t] = @ + 1]
  /\ UNCHANGED <<open, view, over>>
  /\ \/ UNCHANGED finished
     \/ finished' = finished \cup {t}     \* the window is gone

Start(t) ==
  /\ t \in finished /\ emitted[t] = 0 /\ open
  /\ finished' = finished \ {t}
  /\ UNCHANGED <<emitted, open, view, over>>

Finish(T) ==
  /\ T \cap finished = {}
  /\ finished' = finished \cup T
  /\ UNCHANGED <<emitted, open, view, over>>

Show(t) ==
  /\ open /\ t \notin over
  /\ \E n \in Len(view[t])..emitted[t] : view' = [view EXCEPT ![t] = Prefix(n)]
  /\ UNCHANGED <<emitted, finished, open, over>>

ShowEnd(t) ==
  /\ open /\ t \in finished /\ t \notin over
  /\ view[t] = Prefix(emitted[t])
  /\ over' = over \cup {t}
  /\ UNCHANGED <<emitted, finished, open, view>>

\* A closed window shows nothing; the next one starts from the first unit.
Close == open /\ open' = FALSE /\ view' = Blank /\ over' = {} /\ UNCHANGED <<emitted, finished>>

Reopen == ~open /\ open' = TRUE /\ UNCHANGED <<emitted, finished, view, over>>

Next ==
  \/ \E t \in Terminals : Emit(t) \/ Start(t) \/ Show(t) \/ ShowEnd(t)
  \/ \E T \in SUBSET Terminals : Finish(T)
  \/ Close \/ Reopen

Spec == Init /\ [][Next]_vars
=============================================================================
