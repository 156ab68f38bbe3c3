-------------------------- MODULE MCLightweightMode --------------------------
(* Small instances of LightweightMode.                                       *)
EXTENDS LightweightMode

CONSTANTS t1, t2

BothTerminals == {t1, t2}
OneTerminal   == {t1}
NoTerminal    == {}

\* Four units of output in the first transaction overflow its cache; behaviours
\* with a second transaction have three.
Bounded == timer[MaxTransactions] # "unused" => \A t \in Terminals : emitted[t] < MaxOutput

UserSpec == Init /\ [][Next /\ Bounded']_vars /\ Fairness

-----------------------------------------------------------------------------
\* No terminal is held back for ever, and output that a window is due appears.
Progress == HoldEnds /\ OutputShown
=============================================================================
