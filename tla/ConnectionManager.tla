--------------------------- MODULE ConnectionManager ---------------------------
(***************************************************************************)
(* Connections of the sessions: attempts to connect, the registry they end   *)
(* in, their cancellation by the commands that disconnect, change or delete  *)
(* a session, and the confirmation of host keys.                              *)
(*                                                                           *)
(* An attempt is one call of connect or connect_headless.  It makes at most   *)
(* one connection and at most one challenge, and lends both its name.         *)
(* A session is the host it points at.  Opening the transport, logging in and *)
(* preparing the channels may fail or last forever.                           *)
(***************************************************************************)
EXTENDS Naturals, FiniteSets, TLAPS

CONSTANTS Sessions,
          Terminal,   \* attempts with a terminal: connect
          Headless,   \* attempts without one: connect_headless
          Commands,   \* calls of the commands that end connections or trust keys,
                      \* numbered in the order they come
          Hosts, Keys,
          FirstKey,   \* the key of a host in the known_hosts file at the start, or None
          None        \* no host, no key, no session

Attempts == Terminal \cup Headless

ASSUME KindsAssumption  == Terminal \cap Headless = {}
ASSUME CommandsAssumption == Commands \subseteq Nat
ASSUME FirstKeyAssumption == FirstKey \in [Hosts -> Keys \cup {None}]
ASSUME NoneAssumption   == None \notin Hosts \cup Keys \cup Sessions

\* A value of FirstKey to check with: the key of one host is on file, the others are new.
OneKnown ==
  CHOOSE keys \in [Hosts -> Keys \cup {None}] : Cardinality({h \in Hosts : keys[h] # None}) = 1

VARIABLES target,      \* the host of each stored session
          known,       \* the known_hosts file
          attempt,     \* what each attempt is doing
          connecting,  \* connecting_sessions: the attempts listed
          cancelled,   \* ConnectCancellation.cancelled
          registered,  \* ConnectCancellation.registered_connection and _challenge
          connections, \* ConnectionRegistry.connections
          bySession,   \* ConnectionRegistry.session_connections
          worker,      \* the terminals whose task runs
          challenges,  \* the host keys waiting for confirmation
          command      \* what each command is doing

vars == <<target, known, attempt, connecting, cancelled, registered,
          connections, bySession, worker, challenges, command>>

store    == <<target, known>>
registry == <<connections, bySession>>

NoAttempt == [pc |-> "idle", session |-> None, host |-> None, key |-> None, result |-> "none"]
NoCommand == [pc |-> "idle", kind |-> "none", session |-> None, host |-> None,
              of |-> "none", todo |-> {}, seen |-> {}]

Go(a, pc) == attempt' = [attempt EXCEPT ![a].pc = pc]
Return(a, result) == attempt' = [attempt EXCEPT ![a].pc = "result", ![a].result = result]
Step(c, pc) == command' = [command EXCEPT ![c].pc = pc]
Done(c) == command' = [command EXCEPT ![c] = [NoCommand EXCEPT !.pc = "done", !.seen = command[c].seen]]
Called(c) == \A d \in Commands : command[d].pc = "idle" <=> d >= c

Of(s) == {a \in Attempts : attempt[a].session = s}
Begun == {a \in Attempts : attempt[a].pc \notin {"idle", "found"}}

-----------------------------------------------------------------------------
(* An attempt.                                                              *)

\* connect_session and the MCP server look the session up before they connect.
Find(a) ==
  /\ attempt[a].pc = "idle"
  /\ \E s \in Sessions :
       /\ target[s] # None
       /\ attempt' = [attempt EXCEPT ![a] = [NoAttempt EXCEPT !.pc = "found", !.session = s,
                                                              !.host = target[s]]]
  /\ UNCHANGED <<store, connecting, cancelled, registered, registry, worker, challenges, command>>

Begin(a) ==
  /\ attempt[a].pc = "found"
  /\ connecting' = connecting \cup {a}
  /\ Go(a, "transport")
  /\ UNCHANGED <<store, cancelled, registered, registry, worker, challenges, command>>

AnyKnown(h, key) == IF known[h] # {} THEN "same" ELSE "unknown"

\* check_server_key.
Verdict(h, key) == CASE known[h] = {key} -> "same"
                     [] known[h] = {}    -> "unknown"
                     [] OTHER            -> "changed"

\* A host may present another key than before.  An unknown key needs a
\* confirmation, which only a terminal's window can ask for.
Handshake(a) ==
  /\ attempt[a].pc = "transport"
  /\ \/ Return(a, "failed")
     \/ \E key \in Keys :
          LET verdict == Verdict(attempt[a].host, key)
              Observed(pc) == attempt' = [attempt EXCEPT ![a].key = key, ![a].pc = pc]
          IN \/ verdict = "same" /\ Observed("login")
             \/ verdict = "unknown" /\ a \in Terminal /\ Observed("challenge")
             \/ verdict = "unknown" /\ a \in Headless /\ Return(a, "failed")
             \/ verdict = "changed" /\ Return(a, "failed")
  /\ UNCHANGED <<store, connecting, cancelled, registered, registry, worker, challenges, command>>

\* register_challenge: the expired ones go, the new one is noted for the clean-up.
ChallengeUnnoted(a) ==
  /\ attempt[a].pc = "challenge"
  /\ challenges' = [b \in Attempts |-> IF b = a THEN "fresh"
                                       ELSE IF challenges[b] = "expired" THEN "none" ELSE challenges[b]]
  /\ Return(a, "confirm")
  /\ UNCHANGED <<store, connecting, cancelled, registered, registry, worker, command>>

Challenge(a) ==
  /\ attempt[a].pc = "challenge"
  /\ challenges' = [b \in Attempts |-> IF b = a THEN "fresh"
                                       ELSE IF challenges[b] = "expired" THEN "none" ELSE challenges[b]]
  /\ registered' = [registered EXCEPT !.challenge = @ \cup {a}]
  /\ Return(a, "confirm")
  /\ UNCHANGED <<store, connecting, cancelled, registry, worker, command>>

\* Authentication, the terminal and its shell, SFTP.  A missing credential is a
\* failure whose answer asks for it.
Login(a) ==
  /\ attempt[a].pc = "login"
  /\ Go(a, "register") \/ Return(a, "failed")
  /\ UNCHANGED <<store, connecting, cancelled, registered, registry, worker, challenges, command>>

Current(a) == a \notin cancelled /\ a \in connecting

\* register_connection_if_current under the lock of the attempts; a terminal's
\* worker starts before the attempt waits again.
RegisterLate(a) ==
  /\ attempt[a].pc = "register"
  /\ connections' = connections \cup {a}
  /\ bySession' = [bySession EXCEPT ![attempt[a].session] = @ \cup {a}]
  /\ registered' = [registered EXCEPT !.connection = @ \cup {a}]
  /\ worker' = worker \cup ({a} \cap Terminal)
  /\ IF a \in Terminal THEN Go(a, "shell") ELSE Return(a, "connected")
  /\ UNCHANGED <<store, connecting, cancelled, challenges, command>>

Register(a) ==
  /\ attempt[a].pc = "register"
  /\ IF Current(a)
     THEN /\ connections' = connections \cup {a}
          /\ bySession' = [bySession EXCEPT ![attempt[a].session] = @ \cup {a}]
          /\ registered' = [registered EXCEPT !.connection = @ \cup {a}]
          /\ worker' = worker \cup ({a} \cap Terminal)
          /\ IF a \in Terminal THEN Go(a, "shell") ELSE Return(a, "connected")
     ELSE Return(a, "failed") /\ UNCHANGED <<registered, registry, worker>>
  /\ UNCHANGED <<store, connecting, cancelled, challenges, command>>

\* detect_login_shell has ended; connection_is_current.
Confirm(a) ==
  /\ attempt[a].pc = "shell"
  /\ Return(a, IF Current(a) /\ a \in connections THEN "connected" ELSE "failed")
  /\ UNCHANGED <<store, connecting, cancelled, registered, registry, worker, challenges, command>>

\* The branch of the select: what the attempt was waiting for is dropped.
InterruptDial(a) ==
  /\ attempt[a].pc \in {"transport", "challenge", "register"}
  /\ a \in cancelled
  /\ attempt' = [attempt EXCEPT ![a].pc = "cleanup", ![a].result = "cancelled"]
  /\ UNCHANGED <<store, connecting, cancelled, registered, registry, worker, challenges, command>>

Interrupt(a) ==
  /\ attempt[a].pc \in {"transport", "challenge", "login", "register", "shell"}
  /\ a \in cancelled
  /\ attempt' = [attempt EXCEPT ![a].pc = "cleanup", ![a].result = "cancelled"]
  /\ UNCHANGED <<store, connecting, cancelled, registered, registry, worker, challenges, command>>

\* An attempt that has its result still asks whether it was cancelled.
Outcome(a) ==
  /\ attempt[a].pc = "result"
  /\ IF a \in cancelled
     THEN attempt' = [attempt EXCEPT ![a].pc = "cleanup", ![a].result = "cancelled"]
     ELSE Go(a, "finish")
  /\ UNCHANGED <<store, connecting, cancelled, registered, registry, worker, challenges, command>>

\* take_connection: out of both tables.
TakeEntryOnly(a) == connections' = connections \ {a} /\ UNCHANGED bySession

Take(a) ==
  /\ connections' = connections \ {a}
  /\ bySession' = [s \in Sessions |-> bySession[s] \ {a}]

\* cleanup_cancelled_connection: an attempt has registered a connection or a
\* challenge, never both.
Cleanup(a) ==
  /\ attempt[a].pc = "cleanup"
  /\ IF a \in registered.connection THEN Take(a) ELSE UNCHANGED registry
  /\ challenges' = IF a \in registered.challenge THEN [challenges EXCEPT ![a] = "none"] ELSE challenges
  /\ registered' = [connection |-> registered.connection \ {a}, challenge |-> registered.challenge \ {a}]
  /\ Go(a, "finish")
  /\ UNCHANGED <<store, connecting, cancelled, worker, command>>

\* The cancellation is dropped with the attempt; an attempt that has nothing to
\* show is forgotten.
Finish(a) ==
  /\ attempt[a].pc = "finish"
  /\ connecting' = connecting \ {a}
  /\ attempt' = [attempt EXCEPT ![a] =
                   IF @.result \in {"confirm", "connected"} THEN [@ EXCEPT !.pc = "done"]
                   ELSE [NoAttempt EXCEPT !.pc = "done", !.result = attempt[a].result]]
  /\ cancelled' = cancelled \ {a}
  /\ registered' = [connection |-> registered.connection \ {a}, challenge |-> registered.challenge \ {a}]
  /\ UNCHANGED <<store, registry, worker, challenges, command>>

\* The terminal ends, by itself or because the connection was closed, and its
\* worker takes the connection from the registry.
TerminalEnds(a) ==
  /\ a \in worker
  /\ worker' = worker \ {a}
  /\ Take(a)
  /\ UNCHANGED <<store, attempt, connecting, cancelled, registered, challenges, command>>

\* 60 seconds.
Expire(a) ==
  /\ challenges[a] = "fresh"
  /\ challenges' = [challenges EXCEPT ![a] = "expired"]
  /\ UNCHANGED <<store, attempt, connecting, cancelled, registered, registry, worker, command>>

-----------------------------------------------------------------------------
(* Commands.                                                                *)

Start(c, kind, s, pc) ==
  /\ Called(c)
  /\ target[s] # None
  /\ command' = [command EXCEPT ![c] = [NoCommand EXCEPT !.pc = pc, !.kind = kind, !.session = s,
                                                         !.host = target[s]]]

\* The session is disconnected as a whole, or deleted, which disconnects first.
StartDisconnect(c) ==
  /\ \E s \in Sessions, kind \in {"disconnect", "delete"} : Start(c, kind, s, "cancel")
  /\ UNCHANGED <<store, attempt, connecting, cancelled, registered, registry, worker, challenges>>

\* One connection is disconnected; the user and the MCP server know those returned.
StartDrop(c) ==
  /\ \E a \in Attempts :
       /\ attempt[a].pc = "done" /\ attempt[a].result = "connected"
       /\ Called(c)
       /\ command' = [command EXCEPT ![c] = [NoCommand EXCEPT !.pc = "drop", !.kind = "drop", !.todo = {a}]]
  /\ UNCHANGED <<store, attempt, connecting, cancelled, registered, registry, worker, challenges>>

\* update_session stores the session first; a change of the host invalidates
\* its connections, a change of the name does not.
StartUpdate(c) ==
  /\ \E s \in Sessions, h \in Hosts :
       /\ Start(c, "update", s, "cancel") /\ h # target[s]
       /\ target' = [target EXCEPT ![s] = h]
  /\ UNCHANGED <<known, attempt, connecting, cancelled, registered, registry, worker, challenges>>

\* disconnect_session under the lock of the attempts.
CancelAttempts(c) ==
  /\ command[c].pc = "cancel"
  /\ cancelled' = cancelled \cup (connecting \cap Of(command[c].session))
  /\ command' = [command EXCEPT ![c].pc = "drop",
                                ![c].todo = bySession[command[c].session],
                                ![c].seen = Begun \cap Of(command[c].session)]
  /\ UNCHANGED <<store, attempt, connecting, registered, registry, worker, challenges>>

\* disconnect_connection: a connection that is gone already is no error.
Drop(c) ==
  /\ command[c].pc = "drop"
  /\ \E a \in command[c].todo :
       /\ Take(a)
       /\ command' = [command EXCEPT ![c].todo = @ \ {a}]
  /\ UNCHANGED <<store, attempt, connecting, cancelled, registered, worker, challenges>>

EndDisconnect(c) ==
  /\ command[c].pc = "drop" /\ command[c].todo = {}
  /\ target' \in IF command[c].kind = "delete"
                 THEN {target, [target EXCEPT ![command[c].session] = None]} ELSE {target}
  /\ Done(c)
  /\ UNCHANGED <<known, attempt, connecting, cancelled, registered, registry, worker, challenges>>

\* The user has seen the challenge in the answer of an attempt and confirms it,
\* for any session: the command looks the session up.
StartTrust(c) ==
  /\ \E s \in Sessions, a \in Terminal :
       /\ attempt[a].pc = "done" /\ attempt[a].result = "confirm"
       /\ Called(c) /\ target[s] # None
       /\ command' = [command EXCEPT ![c] = [NoCommand EXCEPT !.pc = "check", !.kind = "trust",
                        !.session = s, !.host = target[s], !.of = a]]
  /\ UNCHANGED <<store, attempt, connecting, cancelled, registered, registry, worker, challenges>>

\* trust_host_key takes the challenge, whatever the answer.
CheckChallenge(c) ==
  LET a == command[c].of
  IN /\ command[c].pc = "check"
     /\ challenges' = [challenges EXCEPT ![a] = "none"]
     /\ IF /\ challenges[a] = "fresh"
           /\ attempt[a].session = command[c].session
           /\ attempt[a].host = command[c].host
        THEN Step(c, "learn") ELSE Done(c)
     /\ UNCHANGED <<store, attempt, connecting, cancelled, registered, registry, worker>>

\* The host is the one of the challenge, not the one of the session now.
Learn(c) ==
  LET a == command[c].of
  IN /\ command[c].pc = "learn"
     /\ \/ known' = [known EXCEPT ![attempt[a].host] = @ \cup {attempt[a].key}] /\ Step(c, "done")
        \/ UNCHANGED known /\ Done(c)
     /\ UNCHANGED <<target, attempt, connecting, cancelled, registered, registry, worker, challenges>>

\* forget_host_key: the file, then the challenges of the host.
StartForget(c) ==
  /\ \E s \in Sessions :
       /\ Start(c, "forget", s, "challenges")
       /\ known' = [known EXCEPT ![target[s]] = {}]
  /\ UNCHANGED <<target, attempt, connecting, cancelled, registered, registry, worker, challenges>>

ForgetChallenges(c) ==
  /\ command[c].pc = "challenges"
  /\ challenges' = [a \in Attempts |-> IF attempt[a].host = command[c].host THEN "none" ELSE challenges[a]]
  /\ Done(c)
  /\ UNCHANGED <<store, attempt, connecting, cancelled, registered, registry, worker>>

-----------------------------------------------------------------------------

Init ==
  /\ target = [s \in Sessions |-> CHOOSE h \in Hosts : TRUE]
  /\ known = [h \in Hosts |-> {FirstKey[h]} \ {None}]
  /\ attempt = [a \in Attempts |-> NoAttempt]
  /\ connecting = {} /\ cancelled = {}
  /\ registered = [connection |-> {}, challenge |-> {}]
  /\ connections = {}
  /\ bySession = [s \in Sessions |-> {}]
  /\ worker = {}
  /\ challenges = [a \in Attempts |-> "none"]
  /\ command = [c \in Commands |-> NoCommand]

\* The steps an attempt takes without an answer of the server.
OwnStep(a) == Begin(a) \/ Challenge(a) \/ Register(a) \/ Interrupt(a) \/ Outcome(a)
                \/ Cleanup(a) \/ Finish(a)

ServerStep(a) == Handshake(a) \/ Login(a) \/ Confirm(a) \/ TerminalEnds(a)

Command(c) == StartDisconnect(c) \/ StartDrop(c) \/ StartUpdate(c) \/ CancelAttempts(c) \/ Drop(c)
                \/ EndDisconnect(c) \/ StartTrust(c) \/ CheckChallenge(c) \/ Learn(c)
                \/ StartForget(c) \/ ForgetChallenges(c)

Next ==
  \/ \E a \in Attempts : Find(a) \/ OwnStep(a) \/ ServerStep(a) \/ Expire(a)
  \/ \E c \in Commands : Command(c)

\* Tasks that are ready run; a server may stay silent.
Fairness == \A a \in Attempts : WF_vars(OwnStep(a))

Spec == Init /\ [][Next]_vars /\ Fairness
-----------------------------------------------------------------------------
(* Properties.                                                              *)

AttemptPcs == {"idle", "found", "transport", "challenge", "login", "register", "shell", "result",
               "cleanup", "finish", "done"}
Results == {"none", "failed", "confirm", "connected", "cancelled"}
CommandPcs == {"idle", "cancel", "drop", "check", "learn", "challenges", "done"}
CommandKinds == {"none", "disconnect", "delete", "drop", "update", "trust", "forget"}

AttemptRecords == [pc : AttemptPcs, session : Sessions \cup {None}, host : Hosts \cup {None},
                   key : Keys \cup {None}, result : Results]
CommandRecords == [pc : CommandPcs, kind : CommandKinds, session : Sessions \cup {None},
                   host : Hosts \cup {None}, of : Terminal \cup {"none"},
                   todo : SUBSET Attempts, seen : SUBSET Attempts]

\* The shape of the state; the two tables of the registry list the same
\* connections, the attempts listed are those begun and not finished, a terminal's connection has its task.
TypeOK ==
  /\ target \in [Sessions -> Hosts \cup {None}]
  /\ known \in [Hosts -> SUBSET Keys]
  /\ attempt \in [Attempts -> AttemptRecords]
  /\ connecting = {a \in Begun : attempt[a].pc # "done"}
  /\ cancelled \subseteq connecting
  /\ registered \in [connection : SUBSET Attempts, challenge : SUBSET Terminal]
  /\ connections \subseteq Begun
  /\ bySession = [s \in Sessions |-> connections \cap Of(s)]
  /\ connections \cap Terminal \subseteq worker /\ worker \subseteq Terminal
  /\ challenges \in [Attempts -> {"none", "fresh", "expired"}]
  /\ command \in [Commands -> CommandRecords]

\* When a session has been disconnected, no attempt that had begun before is or
\* ever comes to be registered, however late its server answered
\* (disconnect_session against register_connection_if_current).
DisconnectWins ==
  \A c \in Commands : command[c].pc = "done" => command[c].seen \cap connections = {}

\* An attempt that answers "cancelled" has left neither a connection nor a
\* challenge, at whichever step the cancellation reached it.
CancelledLeavesNothing ==
  \A a \in Attempts :
    attempt[a].pc = "done" /\ attempt[a].result = "cancelled" =>
      a \notin connections /\ challenges[a] = "none"

\* A connection runs only over a key that was known at the start or that its host
\* showed to an attempt whose challenge the user confirmed: no other host's, no changed key, and never by
\* an attempt that has no window to ask in.
VerifiedHost ==
  \A a \in connections :
    \/ attempt[a].key = FirstKey[attempt[a].host]
    \/ \E c \in Commands : /\ command[c].kind = "trust"
                          /\ attempt[command[c].of].host = attempt[a].host
                          /\ attempt[command[c].of].key = attempt[a].key

\* A cancelled attempt ends even if the server never answers; until it has ended
\* it keeps lightweight mode from being entered (has_connecting_sessions).
CancelledEnds ==
  \A a \in Attempts : a \in cancelled ~> a \notin connecting

-----------------------------------------------------------------------------
(* Proofs: a disconnect beats every attempt begun before it, a cancelled       *)
(* attempt leaves nothing, only confirmed keys are connected to.               *)

Waiting == {"transport", "challenge", "login", "register"}

\* What an attempt owns at each step; what it has registered it finds again.
Tidy(a) ==
  LET pc == attempt[a].pc
  IN /\ pc \notin {"idle", "done"} => attempt[a].session \in Sessions /\ attempt[a].host \in Hosts
     /\ pc = "challenge" => attempt[a].key \in Keys /\ a \in Terminal
     /\ attempt[a].result = "confirm" => attempt[a].host \in Hosts /\ attempt[a].key \in Keys
     /\ a \in connections => pc \notin Waiting
     /\ a \in connections /\ pc \in {"shell", "result", "cleanup"} => a \in registered.connection
     /\ a \in connections /\ pc = "result" => a \in cancelled \/ attempt[a].result = "connected"
     /\ a \in connections /\ pc \in {"finish", "done"} => attempt[a].result = "connected"
     /\ challenges[a] # "none" => pc \in {"result", "cleanup", "finish", "done"}
     /\ challenges[a] # "none" /\ pc \in {"result", "cleanup"} => a \in registered.challenge
     /\ challenges[a] # "none" /\ pc \in {"result", "finish", "done"} => attempt[a].result = "confirm"

TidyInv == \A a \in Attempts : Tidy(a)

\* An attempt a disconnect has seen is cancelled as long as it could still
\* register, and a registered one is still to be dropped.
SeenInv ==
  \A c \in Commands :
    /\ command[c].pc = "cancel" => command[c].session \in Sessions
    /\ command[c].pc \in {"check", "learn"} => command[c].kind = "trust"
    /\ \A a \in command[c].seen :
         /\ a \in Begun
         /\ attempt[a].pc \in Waiting => a \in cancelled
         /\ a \in connections => command[c].pc = "drop" /\ a \in command[c].todo

Proven(h, k) ==
  \/ k = FirstKey[h]
  \/ \E c \in Commands : /\ command[c].pc = "done" /\ command[c].kind = "trust"
                         /\ attempt[command[c].of].host = h
                         /\ attempt[command[c].of].key = k

\* Known keys are proven, and so is the key of every attempt that got past it.
KeyInv ==
  /\ \A h \in Hosts : \A k \in known[h] : Proven(h, k)
  /\ \A a \in Attempts :
       attempt[a].pc \in {"login", "register"} \/ a \in connections =>
         Proven(attempt[a].host, attempt[a].key)
  /\ \A c \in Commands :
       command[c].kind = "trust" => /\ command[c].of \in Terminal
                                    /\ attempt[command[c].of].pc = "done"
                                    /\ attempt[command[c].of].result = "confirm"

Inv == TypeOK /\ TidyInv /\ SeenInv /\ KeyInv

-----------------------------------------------------------------------------
(* Records.                                                                 *)

LEMMA NoAttemptFacts ==
  NoAttempt \in AttemptRecords /\ NoAttempt.pc = "idle" /\ NoAttempt.result = "none"
BY DEF NoAttempt, AttemptRecords, AttemptPcs, Results

LEMMA NoCommandFacts ==
  /\ NoCommand \in CommandRecords /\ NoCommand.pc = "idle" /\ NoCommand.kind = "none"
  /\ NoCommand.seen = {} /\ NoCommand.todo = {}
BY DEF NoCommand, CommandRecords, CommandPcs, CommandKinds

LEMMA AttemptIs ==
  ASSUME Inv, NEW a \in Attempts
  PROVE  attempt[a] \in AttemptRecords
BY DEF Inv, TypeOK

LEMMA CommandIs ==
  ASSUME Inv, NEW c \in Commands
  PROVE  command[c] \in CommandRecords
BY DEF Inv, TypeOK

\* What the other variables are to a command that leaves them alone.
LEMMA TypeParts ==
  ASSUME Inv
  PROVE  /\ target \in [Sessions -> Hosts \cup {None}]
         /\ known \in [Hosts -> SUBSET Keys]
         /\ cancelled \subseteq connecting
         /\ bySession = [s \in Sessions |-> connections \cap Of(s)]
         /\ challenges \in [Attempts -> {"none", "fresh", "expired"}]
BY DEF Inv, TypeOK

\* An attempt that only moves on.
LEMMA SetPc ==
  ASSUME NEW t \in AttemptRecords, NEW pc \in AttemptPcs, NEW r, r = [t EXCEPT !.pc = pc]
  PROVE  /\ r \in AttemptRecords /\ r.pc = pc /\ r.result = t.result
         /\ r.session = t.session /\ r.host = t.host /\ r.key = t.key
BY DEF AttemptRecords

LEMMA SetResult ==
  ASSUME NEW t \in AttemptRecords, NEW pc \in AttemptPcs, NEW x \in Results, NEW r,
         r = [t EXCEPT !.pc = pc, !.result = x]
  PROVE  /\ r \in AttemptRecords /\ r.pc = pc /\ r.result = x
         /\ r.session = t.session /\ r.host = t.host /\ r.key = t.key
BY DEF AttemptRecords

\* A proof outlives every step that leaves finished attempts and commands alone.
LEMMA ProvenStays ==
  ASSUME Inv, NEW h, NEW k, Proven(h, k),
         \A a \in Attempts : attempt[a].pc = "done" => attempt'[a] = attempt[a],
         \A c \in Commands : command[c].pc = "done" => command'[c] = command[c]
  PROVE  Proven(h, k)'
<1>1. CASE k = FirstKey[h]
  BY <1>1 DEF Proven
<1>2. CASE k # FirstKey[h]
  <2>1. PICK c \in Commands : /\ command[c].pc = "done" /\ command[c].kind = "trust"
                              /\ attempt[command[c].of].host = h
                              /\ attempt[command[c].of].key = k
    BY <1>2 DEF Proven
  <2>2. command[c].of \in Attempts /\ attempt[command[c].of].pc = "done"
    BY <2>1 DEF Inv, KeyInv, Attempts
  <2>3. command'[c] = command[c] /\ attempt'[command[c].of] = attempt[command[c].of]
    BY <2>1, <2>2
  <2> QED BY <2>1, <2>3 DEF Proven
<1> QED BY <1>1, <1>2

-----------------------------------------------------------------------------
(* Steps of an attempt.                                                     *)

LEMMA FindInv ==
  ASSUME Inv, NEW a \in Attempts, Find(a)
  PROVE  Inv'
<1>1. PICK s \in Sessions : /\ target[s] # None
                            /\ attempt' = [attempt EXCEPT ![a] = [NoAttempt EXCEPT
                                 !.pc = "found", !.session = s, !.host = target[s]]]
  BY DEF Find
<1>2. target[s] \in Hosts
  BY <1>1 DEF Inv, TypeOK
<1>3. /\ attempt'[a].pc = "found" /\ attempt'[a] \in AttemptRecords
      /\ attempt'[a].session = s /\ attempt'[a].host = target[s] /\ attempt'[a].result = "none"
      /\ \A b \in Attempts \ {a} : attempt'[b] = attempt[b]
  BY <1>1, <1>2 DEF Inv, TypeOK, NoAttempt, AttemptRecords, AttemptPcs, Results
<1>4. a \notin connections /\ challenges[a] = "none" /\ a \notin Begun /\ a \notin cancelled
  BY DEF Inv, TypeOK, TidyInv, Tidy, Find, Begun
<1>5. TypeOK'
  BY <1>1, <1>3, <1>4 DEF Inv, TypeOK, Find, Begun, Of, store, registry
<1>6. TidyInv'
  BY <1>2, <1>3, <1>4 DEF Inv, TidyInv, Tidy, Find, registry, Waiting
<1>7. SeenInv'
  BY <1>3, <1>4 DEF Inv, SeenInv, Find, registry, Begun, Waiting
<1>8. KeyInv'
  BY <1>3, <1>4, ProvenStays DEF Inv, KeyInv, Find, store, registry, Attempts
<1> QED BY <1>5, <1>6, <1>7, <1>8 DEF Inv

LEMMA BeginInv ==
  ASSUME Inv, NEW a \in Attempts, Begin(a)
  PROVE  Inv'
<1>1. /\ attempt'[a].pc = "transport" /\ attempt'[a] \in AttemptRecords
      /\ attempt'[a].session = attempt[a].session /\ attempt'[a].host = attempt[a].host
      /\ attempt'[a].result = attempt[a].result /\ attempt'[a].key = attempt[a].key
      /\ \A b \in Attempts \ {a} : attempt'[b] = attempt[b]
  BY SetPc DEF Inv, TypeOK, AttemptPcs, Begin, Go
<1>2. attempt[a].pc = "found" /\ a \notin connections /\ challenges[a] = "none"
  BY DEF Inv, TypeOK, TidyInv, Tidy, Begin, Begun
<1>3. TypeOK'
  BY <1>1, <1>2, SetPc DEF Inv, TypeOK, Begin, Go, Begun, Of, store, registry
<1>4. TidyInv'
  BY <1>1, <1>2 DEF Inv, TidyInv, Tidy, Begin, registry, Waiting
<1>5. SeenInv'
  BY <1>1, <1>2 DEF Inv, SeenInv, Begin, registry, Begun, Waiting
<1>6. KeyInv'
  BY <1>1, <1>2, ProvenStays DEF Inv, KeyInv, Begin, store, registry, Attempts
<1> QED BY <1>3, <1>4, <1>5, <1>6 DEF Inv

\* A step that changes nothing but its attempt, which was begun and is not done.
LEMMA OwnInv ==
  ASSUME Inv, NEW a \in Attempts, NEW r \in AttemptRecords, attempt' = [attempt EXCEPT ![a] = r],
         attempt[a].pc \in Waiting \cup {"shell", "result"},
         r.pc \notin {"idle", "found", "transport", "done"},
         r.pc \in Waiting => attempt[a].pc \in Waiting,
         r.session = attempt[a].session, r.host = attempt[a].host, r.key \in Keys \cup {None},
         Tidy(a)',
         r.pc \in {"login", "register"} => Proven(r.host, r.key),
         a \in connections => r.key = attempt[a].key,
         UNCHANGED <<store, connecting, cancelled, registered, registry, worker, challenges, command>>
  PROVE  Inv'
<1>1. attempt'[a] = r /\ \A b \in Attempts \ {a} : attempt'[b] = attempt[b]
  BY DEF Inv, TypeOK
<1>2. TypeOK'
  BY <1>1 DEF Inv, TypeOK, Begun, Of, store, registry, Waiting
<1>3. TidyInv'
  BY <1>1 DEF Inv, TidyInv, Tidy, registry, Waiting
<1>4. SeenInv'
  BY <1>1 DEF Inv, SeenInv, registry, Begun, Waiting
<1>5. KeyInv'
  BY <1>1, ProvenStays DEF Inv, KeyInv, store, registry, Attempts, Waiting
<1> QED BY <1>2, <1>3, <1>4, <1>5 DEF Inv

LEMMA ReturnFailedInv ==
  ASSUME Inv, NEW a \in Attempts, attempt[a].pc \in Waiting, Return(a, "failed"),
         UNCHANGED <<store, connecting, cancelled, registered, registry, worker, challenges, command>>
  PROVE  Inv'
<1> DEFINE r == [attempt[a] EXCEPT !.pc = "result", !.result = "failed"]
<1>1. /\ r \in AttemptRecords /\ r.pc = "result" /\ r.result = "failed"
      /\ r.session = attempt[a].session /\ r.host = attempt[a].host /\ r.key = attempt[a].key
  BY AttemptIs DEF AttemptRecords, AttemptPcs, Results
<1>2. attempt' = [attempt EXCEPT ![a] = r]
  BY DEF Return, Inv, TypeOK
<1>3. attempt'[a] = r /\ r.key \in Keys \cup {None}
  BY <1>1, <1>2 DEF Inv, TypeOK, AttemptRecords
<1> HIDE DEF r
<1>4. Tidy(a)'
  BY <1>1, <1>3 DEF Inv, TidyInv, Tidy, Waiting, registry
<1> QED BY <1>1, <1>2, <1>3, <1>4, OwnInv DEF Waiting

LEMMA HandshakeInv ==
  ASSUME Inv, NEW a \in Attempts, Handshake(a)
  PROVE  Inv'
<1>1. CASE Return(a, "failed")
  BY <1>1, ReturnFailedInv DEF Handshake, Waiting
<1>2. ASSUME NEW key \in Keys, NEW pc \in {"login", "challenge"},
             attempt' = [attempt EXCEPT ![a].key = key, ![a].pc = pc],
             pc = "login" => known[attempt[a].host] = {key}, pc = "challenge" => a \in Terminal
      PROVE  Inv'
  <2> DEFINE r == [attempt[a] EXCEPT !.key = key, !.pc = pc]
  <2>1. /\ r \in AttemptRecords /\ r.pc = pc /\ r.result = attempt[a].result
        /\ r.session = attempt[a].session /\ r.host = attempt[a].host /\ r.key = key
    BY AttemptIs DEF AttemptRecords, AttemptPcs
  <2>2. attempt' = [attempt EXCEPT ![a] = r] /\ attempt'[a] = r
    BY <1>2 DEF Inv, TypeOK
  <2> HIDE DEF r
  <2>3. Tidy(a)'
    BY <1>2, <2>1, <2>2 DEF Inv, TidyInv, Tidy, Waiting, registry, Handshake
  <2>4. pc = "login" => Proven(r.host, r.key)
    BY <1>2, <2>1 DEF Inv, KeyInv, TidyInv, Tidy, Handshake
  <2>5. a \notin connections
    BY DEF Inv, TidyInv, Tidy, Waiting, Handshake
  <2> QED BY <2>1, <2>2, <2>3, <2>4, <2>5, OwnInv DEF Waiting, Handshake
<1>3. ASSUME NEW key \in Keys,
             \/ Verdict(attempt[a].host, key) = "same" /\ attempt' = [attempt EXCEPT ![a].key = key, ![a].pc = "login"]
             \/ a \in Terminal /\ attempt' = [attempt EXCEPT ![a].key = key, ![a].pc = "challenge"]
      PROVE  Inv'
  BY <1>2, <1>3 DEF Verdict
<1> QED BY <1>1, <1>3 DEF Handshake

LEMMA ChallengeInv ==
  ASSUME Inv, NEW a \in Attempts, Challenge(a)
  PROVE  Inv'
<1>1. /\ attempt'[a].pc = "result" /\ attempt'[a].result = "confirm" /\ attempt'[a] \in AttemptRecords
      /\ attempt'[a].session = attempt[a].session /\ attempt'[a].host = attempt[a].host
      /\ attempt'[a].key = attempt[a].key
      /\ \A b \in Attempts \ {a} : attempt'[b] = attempt[b]
  <2> DEFINE r == [attempt[a] EXCEPT !.pc = "result", !.result = "confirm"]
  <2>1. /\ r \in AttemptRecords /\ r.pc = "result" /\ r.result = "confirm"
        /\ r.session = attempt[a].session /\ r.host = attempt[a].host /\ r.key = attempt[a].key
    BY AttemptIs DEF AttemptRecords, AttemptPcs, Results
  <2>2. attempt' = [attempt EXCEPT ![a] = r]
    BY DEF Challenge, Return, Inv, TypeOK
  <2> HIDE DEF r
  <2> QED BY <2>1, <2>2 DEF Inv, TypeOK
<1>2. /\ attempt[a].pc = "challenge" /\ a \notin connections /\ a \in Terminal
      /\ attempt[a].host \in Hosts /\ attempt[a].key \in Keys /\ attempt[a].session \in Sessions
  BY DEF Inv, TypeOK, TidyInv, Tidy, Challenge, Waiting
<1>3. /\ registered'.challenge = registered.challenge \cup {a}
      /\ registered'.connection = registered.connection
      /\ registered' \in [connection : SUBSET Attempts, challenge : SUBSET Terminal]
  <2>1. registered' = [registered EXCEPT !.challenge = registered.challenge \cup {a}]
    BY DEF Challenge
  <2> QED BY <1>2, <2>1 DEF Inv, TypeOK
<1>4. /\ \A b \in Attempts : challenges'[b] \in {"none", "fresh", "expired"}
      /\ \A b \in Attempts \ {a} : challenges'[b] # "none" => challenges[b] # "none"
      /\ DOMAIN challenges' = Attempts /\ challenges' \in [Attempts -> {"none", "fresh", "expired"}]
  BY DEF Inv, TypeOK, Challenge
<1>5. attempt' \in [Attempts -> AttemptRecords]
  BY <1>1 DEF Inv, TypeOK, Challenge, Return
<1>6. TypeOK'
  <2>1. Begun' = Begun /\ \A s \in Sessions : Of(s)' = Of(s)
    BY <1>1, <1>2 DEF Begun, Of
  <2>2. connecting' = {b \in Begun' : attempt'[b].pc # "done"}
    BY <1>1, <1>2, <2>1 DEF Inv, TypeOK, Begun, Challenge
  <2>3. UNCHANGED <<target, known, connecting, cancelled, connections, bySession, worker, command>>
    BY DEF Challenge, store, registry
  <2> QED BY <1>3, <1>4, <1>5, <2>1, <2>2, <2>3 DEF Inv, TypeOK
<1>7. TidyInv'
  BY <1>1, <1>2, <1>3, <1>4 DEF Inv, TidyInv, Tidy, Challenge, registry, Waiting
<1>8. SeenInv'
  BY <1>1, <1>2 DEF Inv, SeenInv, Challenge, registry, Begun, Waiting
<1>9. KeyInv'
  BY <1>1, <1>2, ProvenStays DEF Inv, KeyInv, Challenge, store, registry, Attempts
<1> QED BY <1>6, <1>7, <1>8, <1>9 DEF Inv

LEMMA LoginInv ==
  ASSUME Inv, NEW a \in Attempts, Login(a)
  PROVE  Inv'
<1>1. CASE Return(a, "failed")
  BY <1>1, ReturnFailedInv DEF Login, Waiting
<1>2. CASE Go(a, "register")
  <2> DEFINE r == [attempt[a] EXCEPT !.pc = "register"]
  <2>1. /\ r \in AttemptRecords /\ r.pc = "register" /\ r.result = attempt[a].result
        /\ r.session = attempt[a].session /\ r.host = attempt[a].host /\ r.key = attempt[a].key
        /\ r.key \in Keys \cup {None}
    BY AttemptIs DEF AttemptRecords, AttemptPcs
  <2>2. attempt' = [attempt EXCEPT ![a] = r] /\ attempt'[a] = r
    BY <1>2 DEF Inv, TypeOK, Go
  <2> HIDE DEF r
  <2>3. Tidy(a)'
    BY <2>1, <2>2 DEF Inv, TidyInv, Tidy, Waiting, registry, Login
  <2>4. Proven(r.host, r.key)
    BY <2>1 DEF Inv, KeyInv, Login
  <2> QED BY <2>1, <2>2, <2>3, <2>4, OwnInv DEF Waiting, Login
<1> QED BY <1>1, <1>2 DEF Login

LEMMA ConfirmInv ==
  ASSUME Inv, NEW a \in Attempts, Confirm(a)
  PROVE  Inv'
<1>1. ASSUME NEW x \in {"connected", "failed"}, Return(a, x),
             x = "failed" /\ a \in connections => a \in cancelled
      PROVE  Inv'
  <2> DEFINE r == [attempt[a] EXCEPT !.pc = "result", !.result = x]
  <2>1. /\ r \in AttemptRecords /\ r.pc = "result" /\ r.result = x
        /\ r.session = attempt[a].session /\ r.host = attempt[a].host /\ r.key = attempt[a].key
        /\ r.key \in Keys \cup {None}
    BY AttemptIs DEF AttemptRecords, AttemptPcs, Results
  <2>2. attempt' = [attempt EXCEPT ![a] = r] /\ attempt'[a] = r
    BY <1>1 DEF Inv, TypeOK, Return
  <2> HIDE DEF r
  <2>3. Tidy(a)'
    BY <1>1, <2>1, <2>2 DEF Inv, TidyInv, Tidy, Waiting, registry, Confirm
  <2> QED BY <2>1, <2>2, <2>3, OwnInv DEF Waiting, Confirm
<1>2. a \in connecting
  BY DEF Inv, TypeOK, Begun, Confirm
<1>3. CASE Current(a) /\ a \in connections
  BY <1>1, <1>3 DEF Confirm
<1>4. CASE ~(Current(a) /\ a \in connections)
  BY <1>1, <1>2, <1>4 DEF Confirm, Current
<1> QED BY <1>3, <1>4

LEMMA InterruptInv ==
  ASSUME Inv, NEW a \in Attempts, Interrupt(a)
  PROVE  Inv'
<1> DEFINE r == [attempt[a] EXCEPT !.pc = "cleanup", !.result = "cancelled"]
<1>1. /\ r \in AttemptRecords /\ r.pc = "cleanup" /\ r.result = "cancelled"
      /\ r.session = attempt[a].session /\ r.host = attempt[a].host /\ r.key = attempt[a].key
      /\ r.key \in Keys \cup {None}
  BY AttemptIs DEF AttemptRecords, AttemptPcs, Results
<1>2. attempt' = [attempt EXCEPT ![a] = r] /\ attempt'[a] = r
  BY DEF Inv, TypeOK, Interrupt
<1> HIDE DEF r
<1>3. Tidy(a)'
  BY <1>1, <1>2 DEF Inv, TidyInv, Tidy, Waiting, registry, Interrupt
<1> QED BY <1>1, <1>2, <1>3, OwnInv DEF Waiting, Interrupt

LEMMA OutcomeInv ==
  ASSUME Inv, NEW a \in Attempts, Outcome(a)
  PROVE  Inv'
<1>1. ASSUME NEW r \in AttemptRecords, attempt' = [attempt EXCEPT ![a] = r],
             r.session = attempt[a].session, r.host = attempt[a].host, r.key = attempt[a].key,
             \/ a \in cancelled /\ r.pc = "cleanup" /\ r.result = "cancelled"
             \/ a \notin cancelled /\ r.pc = "finish" /\ r.result = attempt[a].result
      PROVE  Inv'
  <2>1. attempt'[a] = r /\ r.key \in Keys \cup {None}
    BY <1>1 DEF Inv, TypeOK, AttemptRecords
  <2>2. Tidy(a)'
    BY <1>1, <2>1 DEF Inv, TidyInv, Tidy, Waiting, registry, Outcome
  <2> QED BY <1>1, <2>1, <2>2, OwnInv DEF Waiting, Outcome
<1>2. CASE a \in cancelled
  <2> DEFINE r == [attempt[a] EXCEPT !.pc = "cleanup", !.result = "cancelled"]
  <2>1. r \in AttemptRecords /\ attempt' = [attempt EXCEPT ![a] = r]
    <3>1. r \in AttemptRecords
      BY AttemptIs DEF AttemptRecords, AttemptPcs, Results
    <3> QED BY <1>2, <3>1 DEF Outcome
  <2>2. /\ r.pc = "cleanup" /\ r.result = "cancelled"
        /\ r.session = attempt[a].session /\ r.host = attempt[a].host /\ r.key = attempt[a].key
    BY DEF Inv, TypeOK, AttemptRecords
  <2> HIDE DEF r
  <2> QED BY <1>1, <1>2, <2>1, <2>2
<1>3. CASE a \notin cancelled
  <2> DEFINE r == [attempt[a] EXCEPT !.pc = "finish"]
  <2>1. r \in AttemptRecords /\ attempt' = [attempt EXCEPT ![a] = r]
    BY <1>3 DEF Inv, TypeOK, AttemptRecords, AttemptPcs, Outcome, Go
  <2>2. /\ r.pc = "finish" /\ r.result = attempt[a].result
        /\ r.session = attempt[a].session /\ r.host = attempt[a].host /\ r.key = attempt[a].key
    BY DEF Inv, TypeOK, AttemptRecords
  <2> HIDE DEF r
  <2> QED BY <1>1, <1>3, <2>1, <2>2
<1> QED BY <1>2, <1>3

LEMMA RegisterInv ==
  ASSUME Inv, NEW a \in Attempts, Register(a)
  PROVE  Inv'
<1>1. /\ attempt[a].pc = "register" /\ a \notin connections /\ challenges[a] = "none"
      /\ attempt[a].session \in Sessions /\ a \in connecting
      /\ Proven(attempt[a].host, attempt[a].key)
  BY DEF Inv, TypeOK, TidyInv, Tidy, KeyInv, Register, Waiting, Begun
<1>2. CASE ~Current(a)
  BY <1>1, <1>2, ReturnFailedInv DEF Register, Waiting
<1>3. CASE Current(a)
  <2>1. /\ connections' = connections \cup {a}
        /\ bySession' = [bySession EXCEPT ![attempt[a].session] = @ \cup {a}]
        /\ registered' = [registered EXCEPT !.connection = registered.connection \cup {a}]
        /\ worker' = worker \cup ({a} \cap Terminal)
        /\ IF a \in Terminal THEN Go(a, "shell") ELSE Return(a, "connected")
        /\ UNCHANGED <<store, connecting, cancelled, challenges, command>>
    BY <1>3 DEF Register
  <2>2. /\ attempt'[a] \in AttemptRecords
        /\ \/ attempt'[a].pc = "shell" /\ attempt'[a].result = attempt[a].result
           \/ attempt'[a].pc = "result" /\ attempt'[a].result = "connected"
        /\ attempt'[a].session = attempt[a].session /\ attempt'[a].host = attempt[a].host
        /\ attempt'[a].key = attempt[a].key
        /\ \A b \in Attempts \ {a} : attempt'[b] = attempt[b]
        /\ attempt' \in [Attempts -> AttemptRecords]
    <3>1. CASE a \in Terminal
      <4> DEFINE r == [attempt[a] EXCEPT !.pc = "shell"]
      <4>1. /\ r \in AttemptRecords /\ r.pc = "shell" /\ r.result = attempt[a].result
            /\ r.session = attempt[a].session /\ r.host = attempt[a].host /\ r.key = attempt[a].key
        BY AttemptIs DEF AttemptRecords, AttemptPcs
      <4>2. attempt' = [attempt EXCEPT ![a] = r]
        BY <2>1, <3>1 DEF Go, Inv, TypeOK
      <4> HIDE DEF r
      <4> QED BY <4>1, <4>2 DEF Inv, TypeOK
    <3>2. CASE a \notin Terminal
      <4> DEFINE r == [attempt[a] EXCEPT !.pc = "result", !.result = "connected"]
      <4>1. /\ r \in AttemptRecords /\ r.pc = "result" /\ r.result = "connected"
            /\ r.session = attempt[a].session /\ r.host = attempt[a].host /\ r.key = attempt[a].key
        BY AttemptIs DEF AttemptRecords, AttemptPcs, Results
      <4>2. attempt' = [attempt EXCEPT ![a] = r]
        BY <2>1, <3>2 DEF Return, Inv, TypeOK
      <4> HIDE DEF r
      <4> QED BY <4>1, <4>2 DEF Inv, TypeOK
    <3> QED BY <3>1, <3>2
  <2>3. /\ registered'.connection = registered.connection \cup {a}
        /\ registered'.challenge = registered.challenge
        /\ registered' \in [connection : SUBSET Attempts, challenge : SUBSET Terminal]
    BY <2>1 DEF Inv, TypeOK
  <2>4. Begun' = Begun /\ a \in Begun /\ \A s \in Sessions : Of(s)' = Of(s)
    BY <1>1, <2>2 DEF Begun, Of
  <2>5. bySession' = [s \in Sessions |-> connections' \cap Of(s)']
    <3>1. \A s \in Sessions : bySession'[s] = connections' \cap Of(s)
      BY <1>1, <2>1 DEF Inv, TypeOK, Of
    <3> QED BY <2>1, <2>4, <3>1 DEF Inv, TypeOK
  <2>6. TypeOK'
    <3>1. connecting' = {b \in Begun' : attempt'[b].pc # "done"}
      BY <1>1, <2>1, <2>2 DEF Inv, TypeOK, Begun
    <3>2. connections' \subseteq Begun' /\ connections' \cap Terminal \subseteq worker' /\ worker' \subseteq Terminal
      BY <2>1, <2>4 DEF Inv, TypeOK
    <3>3. UNCHANGED <<target, known, cancelled, challenges, command>>
      BY <2>1 DEF store
    <3> QED BY <2>1, <2>2, <2>3, <2>5, <3>1, <3>2, <3>3 DEF Inv, TypeOK
  <2>7. TidyInv'
    BY <1>1, <2>1, <2>2, <2>3 DEF Inv, TidyInv, Tidy, Waiting
  <2>8. a \notin cancelled
    BY <1>3 DEF Current
  <2>9. SeenInv'
    BY <1>1, <2>1, <2>2, <2>4, <2>8 DEF Inv, SeenInv, Waiting, Begun
  <2>10. KeyInv'
    BY <1>1, <2>1, <2>2, ProvenStays DEF Inv, KeyInv, store, Attempts
  <2> QED BY <2>6, <2>7, <2>9, <2>10 DEF Inv
<1> QED BY <1>2, <1>3

\* What a connection leaving the registry changes.
LEMMA TakeFacts ==
  ASSUME Inv, NEW a \in Attempts, Take(a), NEW S, S = connections \ {a}
  PROVE  /\ connections' = S /\ S \subseteq Begun /\ S \cap Terminal \subseteq worker \ {a}
         /\ bySession' = [s \in Sessions |-> S \cap Of(s)]
BY DEF Inv, TypeOK, Take

LEMMA CleanupInv ==
  ASSUME Inv, NEW a \in Attempts, Cleanup(a)
  PROVE  Inv'
<1>1. /\ attempt'[a].pc = "finish" /\ attempt'[a] \in AttemptRecords
      /\ attempt'[a].session = attempt[a].session /\ attempt'[a].host = attempt[a].host
      /\ attempt'[a].result = attempt[a].result /\ attempt'[a].key = attempt[a].key
      /\ \A b \in Attempts \ {a} : attempt'[b] = attempt[b]
      /\ attempt' \in [Attempts -> AttemptRecords]
  BY SetPc DEF Inv, TypeOK, AttemptPcs, Cleanup, Go
<1>2. attempt[a].pc = "cleanup" /\ Begun' = Begun /\ \A s \in Sessions : Of(s)' = Of(s)
  BY <1>1 DEF Cleanup, Begun, Of
<1>3. /\ a \notin connections' /\ connections' = connections \ {a}
      /\ bySession' = [s \in Sessions |-> connections' \cap Of(s)]
  <2>1. CASE a \in registered.connection
    <3>1. Take(a)
      BY <2>1 DEF Cleanup
    <3> QED BY <1>2, <3>1 DEF Inv, TypeOK, Take
  <2>2. CASE a \notin registered.connection
    BY <1>2, <2>2 DEF Inv, TypeOK, TidyInv, Tidy, Cleanup, registry
  <2> QED BY <2>1, <2>2
<1>4. /\ challenges'[a] = "none" /\ \A b \in Attempts \ {a} : challenges'[b] = challenges[b]
      /\ challenges' \in [Attempts -> {"none", "fresh", "expired"}]
  BY <1>2 DEF Inv, TypeOK, TidyInv, Tidy, Cleanup
<1>5. /\ registered'.connection = registered.connection \ {a}
      /\ registered'.challenge = registered.challenge \ {a}
      /\ registered' \in [connection : SUBSET Attempts, challenge : SUBSET Terminal]
  BY DEF Inv, TypeOK, Cleanup
<1>6. UNCHANGED <<target, known, connecting, cancelled, worker, command>>
  BY DEF Cleanup, store
<1>7. TypeOK'
  BY <1>1, <1>2, <1>3, <1>4, <1>5, <1>6 DEF Inv, TypeOK, Begun
<1>8. TidyInv'
  BY <1>1, <1>2, <1>3, <1>4, <1>5, <1>6 DEF Inv, TidyInv, Tidy, Waiting
<1>9. SeenInv'
  BY <1>1, <1>2, <1>3, <1>6 DEF Inv, SeenInv, Waiting, Begun
<1>10. KeyInv'
  BY <1>1, <1>2, <1>3, <1>6, ProvenStays DEF Inv, KeyInv, Attempts
<1> QED BY <1>7, <1>8, <1>9, <1>10 DEF Inv

LEMMA FinishInv ==
  ASSUME Inv, NEW a \in Attempts, Finish(a)
  PROVE  Inv'
<1> DEFINE kept == attempt[a].result \in {"confirm", "connected"}
<1>1. /\ attempt'[a].pc = "done" /\ attempt'[a] \in AttemptRecords
      /\ attempt'[a].result = attempt[a].result
      /\ kept => /\ attempt'[a].session = attempt[a].session
                 /\ attempt'[a].host = attempt[a].host /\ attempt'[a].key = attempt[a].key
      /\ \A b \in Attempts \ {a} : attempt'[b] = attempt[b]
      /\ attempt' \in [Attempts -> AttemptRecords]
  <2>1. CASE kept
    <3>1. attempt' = [attempt EXCEPT ![a] = [attempt[a] EXCEPT !.pc = "done"]]
      BY <2>1 DEF Finish
    <3> QED BY <3>1, SetPc DEF Inv, TypeOK, AttemptPcs
  <2>2. CASE ~kept
    BY <2>2 DEF Inv, TypeOK, AttemptRecords, AttemptPcs, NoAttempt, Finish
  <2> QED BY <2>1, <2>2
<1>2. attempt[a].pc = "finish" /\ Begun' = Begun /\ a \in Begun /\ (a \in connections => kept)
  BY <1>1 DEF Inv, TidyInv, Tidy, Finish, Begun
<1> HIDE DEF kept
<1>3. \A s \in Sessions : connections \cap Of(s)' = connections \cap Of(s)
  BY <1>1, <1>2 DEF Of
<1>4. /\ registered'.connection = registered.connection \ {a}
      /\ registered'.challenge = registered.challenge \ {a}
      /\ registered' \in [connection : SUBSET Attempts, challenge : SUBSET Terminal]
  BY DEF Inv, TypeOK, Finish
<1>5. /\ connecting' = connecting \ {a} /\ cancelled' = cancelled \ {a}
      /\ UNCHANGED <<target, known, connections, bySession, worker, challenges, command>>
  BY DEF Finish, store, registry
<1>6. TypeOK'
  BY <1>1, <1>2, <1>3, <1>4, <1>5 DEF Inv, TypeOK, Begun
<1>7. TidyInv'
  BY <1>1, <1>2, <1>4, <1>5 DEF Inv, TidyInv, Tidy, Waiting, kept
<1>8. SeenInv'
  BY <1>1, <1>2, <1>5 DEF Inv, SeenInv, Waiting, Begun
<1>9. KeyInv'
  BY <1>1, <1>2, <1>5, ProvenStays DEF Inv, KeyInv, Attempts
<1> QED BY <1>6, <1>7, <1>8, <1>9 DEF Inv

LEMMA TerminalEndsInv ==
  ASSUME Inv, NEW a \in Attempts, TerminalEnds(a)
  PROVE  Inv'
<1>1. /\ connections' = connections \ {a} /\ worker' = worker \ {a}
      /\ bySession' = [s \in Sessions |-> connections' \cap Of(s)]
      /\ connections' \cap Terminal \subseteq worker' /\ connections' \subseteq Begun
  BY TakeFacts DEF TerminalEnds
<1>2. UNCHANGED <<target, known, attempt, connecting, cancelled, registered, challenges, command>>
  BY DEF TerminalEnds, store
<1>3. TypeOK'
  BY <1>1, <1>2 DEF Inv, TypeOK, Begun, Of
<1>4. TidyInv' /\ SeenInv'
  BY <1>1, <1>2 DEF Inv, TidyInv, Tidy, SeenInv, Begun
<1>5. KeyInv'
  BY <1>1, <1>2, ProvenStays DEF Inv, KeyInv
<1> QED BY <1>3, <1>4, <1>5 DEF Inv

LEMMA ExpireInv ==
  ASSUME Inv, NEW a \in Attempts, Expire(a)
  PROVE  Inv'
<1>1. /\ \A b \in Attempts : challenges'[b] # "none" => challenges[b] # "none"
      /\ challenges' \in [Attempts -> {"none", "fresh", "expired"}]
      /\ UNCHANGED <<target, known, attempt, connecting, cancelled, registered, connections,
                     bySession, worker, command>>
  BY DEF Inv, TypeOK, Expire, store, registry
<1>2. TypeOK'
  BY <1>1 DEF Inv, TypeOK, Begun, Of
<1>3. TidyInv' /\ SeenInv'
  BY <1>1 DEF Inv, TidyInv, Tidy, SeenInv, Begun
<1>4. KeyInv'
  BY <1>1, ProvenStays DEF Inv, KeyInv
<1> QED BY <1>2, <1>3, <1>4 DEF Inv

-----------------------------------------------------------------------------
(* Steps of a command.                                                      *)

\* A command that changes nothing but itself, and is not done before.
LEMMA CommandInv ==
  ASSUME Inv, NEW c \in Commands, NEW r \in CommandRecords, command' = [command EXCEPT ![c] = r],
         command[c].pc # "done",
         r.pc = "cancel" => r.session \in Sessions,
         r.pc \in {"check", "learn"} => r.kind = "trust",
         \A a \in r.seen :
           /\ a \in Begun
           /\ attempt[a].pc \in Waiting => a \in cancelled'
           /\ a \in connections' => r.pc = "drop" /\ a \in r.todo,
         r.kind = "trust" =>
           r.of \in Terminal /\ attempt[r.of].pc = "done" /\ attempt[r.of].result = "confirm",
         target' \in [Sessions -> Hosts \cup {None}],
         known' \in [Hosts -> SUBSET Keys],
         \A h \in Hosts : \A k \in known'[h] : k \in known[h] \/ Proven(h, k)',
         cancelled \subseteq cancelled' /\ cancelled' \subseteq connecting,
         connections' \subseteq connections,
         bySession' = [s \in Sessions |-> connections' \cap Of(s)],
         challenges' \in [Attempts -> {"none", "fresh", "expired"}],
         \A a \in Attempts : challenges'[a] # "none" => challenges[a] # "none",
         UNCHANGED <<attempt, connecting, registered, worker>>
  PROVE  Inv'
<1>1. command'[c] = r /\ \A d \in Commands \ {c} : command'[d] = command[d]
  BY DEF Inv, TypeOK
<1>2. TypeOK'
  <2>1. command' \in [Commands -> CommandRecords]
    BY DEF Inv, TypeOK
  <2>2. Begun' = Begun /\ \A s \in Sessions : Of(s)' = Of(s)
    BY DEF Begun, Of
  <2> QED BY <2>1, <2>2 DEF Inv, TypeOK
<1>3. TidyInv'
  BY DEF Inv, TidyInv, Tidy, Waiting
<1>4. SeenInv'
  BY <1>1 DEF Inv, SeenInv, Begun, Waiting
<1>5. KeyInv'
  <2>1. ASSUME NEW h, NEW k, Proven(h, k)
        PROVE  Proven(h, k)'
    BY <1>1, <2>1, ProvenStays
  <2>2. \A h \in Hosts : \A k \in known'[h] : Proven(h, k)'
    BY <2>1 DEF Inv, KeyInv
  <2>3. (\A a \in Attempts :
           attempt[a].pc \in {"login", "register"} \/ a \in connections =>
             Proven(attempt[a].host, attempt[a].key))'
    <3> SUFFICES ASSUME NEW a \in Attempts,
                        attempt[a].pc \in {"login", "register"} \/ a \in connections
                 PROVE  Proven(attempt[a].host, attempt[a].key)'
      OBVIOUS
    <3>1. PICK h, k : h = attempt[a].host /\ k = attempt[a].key
      OBVIOUS
    <3>2. Proven(h, k)
      BY <3>1 DEF Inv, KeyInv
    <3>3. Proven(h, k)'
      BY <3>2, <2>1
    <3> QED BY <3>1, <3>3 DEF Proven
  <2>4. (\A d \in Commands : command[d].kind = "trust" =>
           /\ command[d].of \in Terminal /\ attempt[command[d].of].pc = "done"
           /\ attempt[command[d].of].result = "confirm")'
    BY <1>1 DEF Inv, KeyInv
  <2> QED BY <2>2, <2>3, <2>4 DEF KeyInv
<1> QED BY <1>2, <1>3, <1>4, <1>5 DEF Inv

\* A command that has only begun.
LEMMA OnlyCommand ==
  ASSUME Inv, NEW c \in Commands, NEW r \in CommandRecords, command' = [command EXCEPT ![c] = r],
         command[c].pc # "done", r.pc # "cancel", r.seen = {},
         r.pc \in {"check", "learn"} => r.kind = "trust",
         r.kind = "trust" =>
           r.of \in Terminal /\ attempt[r.of].pc = "done" /\ attempt[r.of].result = "confirm",
         UNCHANGED <<store, attempt, connecting, cancelled, registered, registry, worker, challenges>>
  PROVE  Inv'
<1>1. UNCHANGED <<target, known, attempt, connecting, cancelled, registered, connections, bySession,
                  worker, challenges>>
  BY DEF store, registry
<1>2. /\ target' \in [Sessions -> Hosts \cup {None}]
      /\ known' \in [Hosts -> SUBSET Keys]
      /\ cancelled \subseteq cancelled' /\ cancelled' \subseteq connecting
      /\ connections' \subseteq connections
      /\ bySession' = [s \in Sessions |-> connections' \cap Of(s)]
      /\ challenges' \in [Attempts -> {"none", "fresh", "expired"}]
  BY <1>1, TypeParts
<1>3. /\ \A h \in Hosts : \A k \in known'[h] : k \in known[h] \/ Proven(h, k)'
      /\ \A a \in Attempts : challenges'[a] # "none" => challenges[a] # "none"
  BY <1>1
<1> QED BY <1>1, <1>2, <1>3, CommandInv

LEMMA CalledIdle ==
  ASSUME NEW c \in Commands, Called(c)
  PROVE  command[c].pc = "idle"
<1>1. c >= c
  BY CommandsAssumption
<1> QED BY <1>1 DEF Called

LEMMA StartInv ==
  ASSUME Inv, NEW c \in Commands, NEW s \in Sessions, NEW kind \in CommandKinds \ {"trust"},
         NEW pc \in {"cancel", "challenges"}, NEW h \in Hosts \cup {None},
         command' = [command EXCEPT ![c] = [NoCommand EXCEPT !.pc = pc, !.kind = kind, !.session = s,
                                                             !.host = h]],
         command[c].pc = "idle",
         target' \in [Sessions -> Hosts \cup {None}],
         known' \in [Hosts -> SUBSET Keys], \A g \in Hosts : known'[g] \subseteq known[g],
         UNCHANGED <<attempt, connecting, cancelled, registered, registry, worker, challenges>>
  PROVE  Inv'
<1> DEFINE r == [NoCommand EXCEPT !.pc = pc, !.kind = kind, !.session = s, !.host = h]
<1>1. /\ r \in CommandRecords /\ r.pc = pc /\ r.kind = kind /\ r.session = s /\ r.seen = {}
      /\ command' = [command EXCEPT ![c] = r]
  BY NoCommandFacts DEF CommandRecords, CommandPcs
<1> HIDE DEF r
<1>2. /\ cancelled \subseteq cancelled' /\ cancelled' \subseteq connecting
      /\ connections' \subseteq connections
      /\ bySession' = [q \in Sessions |-> connections' \cap Of(q)]
      /\ challenges' \in [Attempts -> {"none", "fresh", "expired"}]
  BY DEF Inv, TypeOK, registry
<1> QED BY <1>1, <1>2, CommandInv DEF Inv, TypeOK

LEMMA StartDisconnectInv ==
  ASSUME Inv, NEW c \in Commands, StartDisconnect(c)
  PROVE  Inv'
<1>1. PICK s \in Sessions, kind \in {"disconnect", "delete"} : Start(c, kind, s, "cancel")
  BY DEF StartDisconnect
<1>2. kind \in CommandKinds \ {"trust"} /\ command[c].pc = "idle"
  BY <1>1, CalledIdle DEF CommandKinds, Start
<1>3. target[s] \in Hosts \cup {None}
  BY DEF Inv, TypeOK
<1> QED BY <1>1, <1>2, <1>3, StartInv DEF Start, StartDisconnect, Inv, TypeOK, store

LEMMA StartUpdateInv ==
  ASSUME Inv, NEW c \in Commands, StartUpdate(c)
  PROVE  Inv'
<1>1. PICK s \in Sessions, h \in Hosts : /\ Start(c, "update", s, "cancel")
                                         /\ target' = [target EXCEPT ![s] = h]
  BY DEF StartUpdate
<1>2. "update" \in CommandKinds \ {"trust"} /\ command[c].pc = "idle"
  BY <1>1, CalledIdle DEF CommandKinds, Start
<1>3. target[s] \in Hosts \cup {None} /\ target' \in [Sessions -> Hosts \cup {None}]
  BY <1>1 DEF Inv, TypeOK
<1> QED BY <1>1, <1>2, <1>3, StartInv DEF Start, StartUpdate, Inv, TypeOK

LEMMA StartForgetInv ==
  ASSUME Inv, NEW c \in Commands, StartForget(c)
  PROVE  Inv'
<1>1. PICK s \in Sessions : /\ Start(c, "forget", s, "challenges")
                            /\ known' = [known EXCEPT ![target[s]] = {}]
  BY DEF StartForget
<1>2. "forget" \in CommandKinds \ {"trust"} /\ command[c].pc = "idle"
  BY <1>1, CalledIdle DEF CommandKinds, Start
<1>3. /\ target[s] \in Hosts \cup {None}
      /\ known' \in [Hosts -> SUBSET Keys] /\ \A g \in Hosts : known'[g] \subseteq known[g]
  BY <1>1 DEF Inv, TypeOK
<1> QED BY <1>1, <1>2, <1>3, StartInv DEF Start, StartForget, Inv, TypeOK

LEMMA StartDropInv ==
  ASSUME Inv, NEW c \in Commands, StartDrop(c)
  PROVE  Inv'
<1>1. PICK a \in Attempts : /\ Called(c)
                            /\ command' = [command EXCEPT ![c] = [NoCommand EXCEPT
                                 !.pc = "drop", !.kind = "drop", !.todo = {a}]]
  BY DEF StartDrop
<1> DEFINE r == [NoCommand EXCEPT !.pc = "drop", !.kind = "drop", !.todo = {a}]
<1>2. r \in CommandRecords /\ r.pc = "drop" /\ r.kind = "drop" /\ r.seen = {}
  BY NoCommandFacts DEF CommandRecords, CommandPcs, CommandKinds
<1>3. command' = [command EXCEPT ![c] = r] /\ command[c].pc = "idle"
  BY <1>1, CalledIdle
<1> HIDE DEF r
<1> QED BY <1>2, <1>3, OnlyCommand DEF StartDrop

LEMMA StartTrustInv ==
  ASSUME Inv, NEW c \in Commands, StartTrust(c)
  PROVE  Inv'
<1>1. PICK s \in Sessions, a \in Terminal :
        /\ attempt[a].pc = "done" /\ attempt[a].result = "confirm" /\ Called(c)
        /\ command' = [command EXCEPT ![c] = [NoCommand EXCEPT !.pc = "check", !.kind = "trust",
                        !.session = s, !.host = target[s], !.of = a]]
  BY DEF StartTrust
<1> DEFINE r == [NoCommand EXCEPT !.pc = "check", !.kind = "trust", !.session = s,
                                  !.host = target[s], !.of = a]
<1>2. r \in CommandRecords /\ r.pc = "check" /\ r.kind = "trust" /\ r.seen = {} /\ r.of = a
  BY NoCommandFacts DEF CommandRecords, CommandPcs, CommandKinds, Inv, TypeOK
<1>3. command' = [command EXCEPT ![c] = r] /\ command[c].pc = "idle"
  BY <1>1, CalledIdle
<1> HIDE DEF r
<1> QED BY <1>1, <1>2, <1>3, OnlyCommand DEF StartTrust

LEMMA CancelAttemptsInv ==
  ASSUME Inv, NEW c \in Commands, CancelAttempts(c)
  PROVE  Inv'
<1> DEFINE s == command[c].session
           S == connections \cap Of(s)
           B == Begun \cap Of(s)
<1>1. /\ s \in Sessions /\ bySession[s] = S /\ command[c] \in CommandRecords
      /\ S \in SUBSET Attempts /\ B \in SUBSET Attempts
  BY DEF Inv, TypeOK, SeenInv, CancelAttempts, Of
<1>2. PICK r : r = [command[c] EXCEPT !.pc = "drop", !.todo = S, !.seen = B]
  OBVIOUS
<1>3. command' = [command EXCEPT ![c] = r] /\ command[c].pc = "cancel"
  BY <1>1, <1>2 DEF CancelAttempts
<1>4. /\ cancelled' = cancelled \cup (connecting \cap Of(s))
      /\ UNCHANGED <<target, known, attempt, connecting, registered, connections, bySession, worker,
                     challenges>>
  BY DEF CancelAttempts, store, registry
<1> HIDE DEF S, B
<1>5. /\ r \in CommandRecords /\ r.pc = "drop" /\ r.kind = command[c].kind /\ r.of = command[c].of
      /\ r.todo = S /\ r.seen = B
  <2>1. /\ r.pc = "drop" /\ r.todo = S /\ r.seen = B /\ r.kind = command[c].kind
        /\ r.of = command[c].of /\ r.session = command[c].session /\ r.host = command[c].host
    BY <1>1, <1>2 DEF CommandRecords
  <2>2. r = [pc |-> r.pc, kind |-> r.kind, session |-> r.session, host |-> r.host, of |-> r.of,
             todo |-> r.todo, seen |-> r.seen]
    BY <1>1, <1>2 DEF CommandRecords
  <2> QED BY <1>1, <2>1, <2>2 DEF CommandRecords, CommandPcs
<1> USE DEF S, B
<1> HIDE DEF s
<1>6. \A a \in r.seen : attempt[a].pc \in Waiting => a \in cancelled'
  BY <1>4, <1>5 DEF Inv, TypeOK, Waiting
<1>7. r.kind = "trust" => /\ r.of \in Terminal /\ attempt[r.of].pc = "done"
                          /\ attempt[r.of].result = "confirm"
  BY <1>5 DEF Inv, KeyInv
<1> QED BY <1>3, <1>4, <1>5, <1>6, <1>7, CommandInv DEF Inv, TypeOK

LEMMA DropInv ==
  ASSUME Inv, NEW c \in Commands, Drop(c)
  PROVE  Inv'
<1>1. PICK a \in command[c].todo :
        Take(a) /\ command' = [command EXCEPT ![c].todo = @ \ {a}]
  BY DEF Drop
<1> DEFINE r == [command[c] EXCEPT !.todo = command[c].todo \ {a}]
<1>2. /\ r \in CommandRecords /\ r.pc = "drop" /\ r.kind = command[c].kind /\ r.of = command[c].of
      /\ r.todo = command[c].todo \ {a} /\ r.seen = command[c].seen
  BY <1>1, CommandIs DEF CommandRecords, Drop
<1>3. command' = [command EXCEPT ![c] = r] /\ command[c].pc = "drop"
  BY <1>1 DEF Inv, TypeOK, Drop
<1>4. /\ connections' = connections \ {a}
      /\ bySession' = [q \in Sessions |-> connections' \cap Of(q)]
  BY <1>1 DEF Inv, TypeOK, Take
<1> HIDE DEF r
<1>5. \A b \in r.seen : /\ b \in Begun
                        /\ attempt[b].pc \in Waiting => b \in cancelled'
                        /\ b \in connections' => b \in r.todo
  BY <1>2, <1>4 DEF Inv, SeenInv, Drop
<1>6. r.kind = "trust" => /\ r.of \in Terminal /\ attempt[r.of].pc = "done"
                          /\ attempt[r.of].result = "confirm"
  BY <1>2 DEF Inv, KeyInv
<1> QED BY <1>2, <1>3, <1>4, <1>5, <1>6, CommandInv DEF Drop, Inv, TypeOK, store

\* A command that is done keeps of its record only what it has seen.
LEMMA DoneInv ==
  ASSUME Inv, NEW c \in Commands, Done(c), command[c].pc \notin {"done", "cancel"},
         command[c].pc = "drop" => command[c].todo = {},
         target' \in [Sessions -> Hosts \cup {None}],
         known' = known,
         challenges' \in [Attempts -> {"none", "fresh", "expired"}],
         \A a \in Attempts : challenges'[a] # "none" => challenges[a] # "none",
         UNCHANGED <<attempt, connecting, cancelled, registered, registry, worker>>
  PROVE  Inv'
<1> DEFINE r == [NoCommand EXCEPT !.pc = "done", !.seen = command[c].seen]
<1>1. r \in CommandRecords /\ r.pc = "done" /\ r.kind = "none" /\ r.seen = command[c].seen
  BY NoCommandFacts DEF Inv, TypeOK, CommandRecords, CommandPcs
<1>2. command' = [command EXCEPT ![c] = r]
  BY DEF Done
<1> HIDE DEF r
<1>3. \A a \in r.seen : a \in Begun /\ (attempt[a].pc \in Waiting => a \in cancelled)
                       /\ a \notin connections
  BY <1>1 DEF Inv, SeenInv
<1> QED BY <1>1, <1>2, <1>3, CommandInv DEF Inv, TypeOK, registry

LEMMA EndDisconnectInv ==
  ASSUME Inv, NEW c \in Commands, EndDisconnect(c)
  PROVE  Inv'
<1>1. target' \in [Sessions -> Hosts \cup {None}]
  BY DEF Inv, TypeOK, EndDisconnect
<1> QED BY <1>1, DoneInv DEF EndDisconnect, Inv, TypeOK

\* A command for a host key that goes on.
LEMMA StepInv ==
  ASSUME Inv, NEW c \in Commands, NEW pc \in {"learn", "done"}, Step(c, pc),
         command[c].pc \in {"check", "learn"},
         target' = target,
         known' \in [Hosts -> SUBSET Keys],
         \A h \in Hosts : \A k \in known'[h] : k \in known[h] \/ Proven(h, k)',
         challenges' \in [Attempts -> {"none", "fresh", "expired"}],
         \A a \in Attempts : challenges'[a] # "none" => challenges[a] # "none",
         UNCHANGED <<attempt, connecting, cancelled, registered, registry, worker>>
  PROVE  Inv'
<1> DEFINE r == [command[c] EXCEPT !.pc = pc]
<1>1. /\ r \in CommandRecords /\ r.pc = pc /\ r.kind = command[c].kind /\ r.of = command[c].of
      /\ r.seen = command[c].seen
  BY CommandIs DEF CommandRecords, CommandPcs
<1>2. command' = [command EXCEPT ![c] = r]
  BY DEF Step, Inv, TypeOK
<1> HIDE DEF r
<1>3. \A a \in r.seen : a \in Begun /\ (attempt[a].pc \in Waiting => a \in cancelled)
                       /\ a \notin connections
  BY <1>1 DEF Inv, SeenInv
<1>4. r.kind = "trust" /\
        r.of \in Terminal /\ attempt[r.of].pc = "done" /\ attempt[r.of].result = "confirm"
  BY <1>1 DEF Inv, KeyInv, SeenInv
<1> QED BY <1>1, <1>2, <1>3, <1>4, CommandInv DEF Inv, TypeOK, registry

LEMMA CheckChallengeInv ==
  ASSUME Inv, NEW c \in Commands, CheckChallenge(c)
  PROVE  Inv'
<1>1. /\ challenges' \in [Attempts -> {"none", "fresh", "expired"}]
      /\ \A a \in Attempts : challenges'[a] # "none" => challenges[a] # "none"
  BY DEF Inv, TypeOK, CheckChallenge
<1>2. CASE Step(c, "learn")
  BY <1>1, <1>2, StepInv DEF CheckChallenge, Inv, TypeOK, store
<1>3. CASE Done(c)
  BY <1>1, <1>3, DoneInv DEF CheckChallenge, Inv, TypeOK, store
<1> QED BY <1>2, <1>3 DEF CheckChallenge

LEMMA ForgetChallengesInv ==
  ASSUME Inv, NEW c \in Commands, ForgetChallenges(c)
  PROVE  Inv'
<1>1. /\ challenges' \in [Attempts -> {"none", "fresh", "expired"}]
      /\ \A a \in Attempts : challenges'[a] # "none" => challenges[a] # "none"
  BY DEF Inv, TypeOK, ForgetChallenges
<1>2. /\ command[c].pc = "challenges" /\ Done(c) /\ target' = target /\ known' = known
      /\ UNCHANGED <<attempt, connecting, cancelled, registered, registry, worker>>
  BY DEF ForgetChallenges, store
<1>3. target' \in [Sessions -> Hosts \cup {None}]
  BY <1>2, TypeParts
<1> QED BY <1>1, <1>2, <1>3, DoneInv

LEMMA LearnInv ==
  ASSUME Inv, NEW c \in Commands, Learn(c)
  PROVE  Inv'
<1>1. CASE UNCHANGED known /\ Done(c)
  <2>1. /\ command[c].pc = "learn" /\ known' = known /\ target' = target /\ challenges' = challenges
        /\ UNCHANGED <<attempt, connecting, cancelled, registered, registry, worker>>
    BY <1>1 DEF Learn
  <2>2. /\ target' \in [Sessions -> Hosts \cup {None}]
        /\ challenges' \in [Attempts -> {"none", "fresh", "expired"}]
        /\ \A a \in Attempts : challenges'[a] # "none" => challenges[a] # "none"
    BY <2>1, TypeParts
  <2> QED BY <1>1, <2>1, <2>2, DoneInv
<1>2. CASE /\ known' = [known EXCEPT ![attempt[command[c].of].host] = @ \cup {attempt[command[c].of].key}]
           /\ Step(c, "done")
  <2> DEFINE h == attempt[command[c].of].host
             k == attempt[command[c].of].key
  <2>1. /\ command[c].kind = "trust" /\ command[c].of \in Attempts
        /\ attempt[command[c].of].result = "confirm"
    BY DEF Inv, SeenInv, KeyInv, Learn, Attempts
  <2>2. h \in Hosts /\ k \in Keys
    BY <2>1 DEF Inv, TidyInv, Tidy
  <2>3. /\ command'[c].pc = "done" /\ command'[c].kind = "trust" /\ command'[c].of = command[c].of
        /\ attempt' = attempt
    BY <1>2, <2>1 DEF Inv, TypeOK, CommandRecords, Step, Learn
  <2>4. \A g \in Hosts : \A j \in known'[g] : j \in known[g] \/ (g = h /\ j = k)
    BY <1>2, <2>2 DEF Inv, TypeOK
  <2>5. \A g, j : g = h /\ j = k => Proven(g, j)'
    BY <2>3 DEF Proven
  <2>6. known' \in [Hosts -> SUBSET Keys]
    BY <1>2, <2>2 DEF Inv, TypeOK
  <2> HIDE DEF h, k
  <2>7. \A g \in Hosts : \A j \in known'[g] : j \in known[g] \/ Proven(g, j)'
    BY <2>4, <2>5
  <2>8. /\ command[c].pc = "learn" /\ target' = target /\ challenges' = challenges
        /\ UNCHANGED <<attempt, connecting, cancelled, registered, registry, worker>>
    BY DEF Learn
  <2>9. /\ challenges' \in [Attempts -> {"none", "fresh", "expired"}]
        /\ \A a \in Attempts : challenges'[a] # "none" => challenges[a] # "none"
    BY <2>8, TypeParts
  <2> QED BY <1>2, <2>6, <2>7, <2>8, <2>9, StepInv
<1> QED BY <1>1, <1>2 DEF Learn

-----------------------------------------------------------------------------
(* The specification.                                                       *)

LEMMA InitInv == Init => Inv
<1> SUFFICES ASSUME Init PROVE Inv
  OBVIOUS
<1>1. \A a \in Attempts : attempt[a] = NoAttempt
  BY DEF Init
<1>2. \A c \in Commands : command[c] = NoCommand
  BY DEF Init
<1>3. Begun = {}
  BY <1>1, NoAttemptFacts DEF Begun
<1>4. TypeOK
  <2>1. target \in [Sessions -> Hosts \cup {None}]
    BY DEF Init
  <2>2. known \in [Hosts -> SUBSET Keys]
    BY FirstKeyAssumption DEF Init
  <2>3. attempt \in [Attempts -> AttemptRecords] /\ command \in [Commands -> CommandRecords]
    BY NoAttemptFacts, NoCommandFacts DEF Init
  <2> QED BY <1>3, <2>1, <2>2, <2>3 DEF Init, TypeOK
<1>5. TidyInv
  BY <1>1, NoAttemptFacts DEF Init, TidyInv, Tidy
<1>6. SeenInv
  BY <1>2, NoCommandFacts DEF SeenInv
<1>7. KeyInv
  BY <1>1, <1>2, NoAttemptFacts, NoCommandFacts, FirstKeyAssumption DEF Init, KeyInv, Proven
<1> QED BY <1>4, <1>5, <1>6, <1>7 DEF Inv

LEMMA NextInv ==
  ASSUME Inv, [Next]_vars
  PROVE  Inv'
<1>1. CASE UNCHANGED vars
  BY <1>1 DEF Inv, TypeOK, TidyInv, Tidy, SeenInv, KeyInv, Proven, Begun, Of, vars
<1>2. ASSUME NEW a \in Attempts, Find(a) \/ OwnStep(a) \/ ServerStep(a) \/ Expire(a)
      PROVE  Inv'
  BY <1>2, FindInv, BeginInv, ChallengeInv, RegisterInv, InterruptInv, OutcomeInv, CleanupInv,
     FinishInv, HandshakeInv, LoginInv, ConfirmInv, TerminalEndsInv, ExpireInv
     DEF OwnStep, ServerStep
<1>3. ASSUME NEW c \in Commands, Command(c)
      PROVE  Inv'
  BY <1>3, StartDisconnectInv, StartDropInv, StartUpdateInv, CancelAttemptsInv, DropInv,
     EndDisconnectInv, StartTrustInv, CheckChallengeInv, LearnInv, StartForgetInv, ForgetChallengesInv
     DEF Command
<1> QED BY <1>1, <1>2, <1>3 DEF Next

LEMMA InvHolds == Spec => []Inv
BY InitInv, NextInv, PTL DEF Spec

\* The shape of the state: the two tables of the registry list the same
\* connections, and the attempts listed as connecting are those that are.
THEOREM ConnectionTypeCorrect == Spec => []TypeOK
BY InvHolds, PTL DEF Inv

\* Whatever the order of the steps, a session that has been disconnected has no
\* connection whose attempt began before (disconnect_session).
THEOREM DisconnectedStaysOut == Spec => []DisconnectWins
<1>1. Inv => DisconnectWins
  BY DEF Inv, SeenInv, DisconnectWins
<1> QED BY <1>1, InvHolds, PTL

\* An attempt that answers "cancelled" has left neither a connection nor a
\* challenge (cleanup_cancelled_connection).
THEOREM CancelledIsGone == Spec => []CancelledLeavesNothing
<1>1. Inv => CancelledLeavesNothing
  BY DEF Inv, TidyInv, Tidy, CancelledLeavesNothing
<1> QED BY <1>1, InvHolds, PTL

\* Every connection runs over a key that was in the known_hosts file or that the
\* user confirmed for that host (check_server_key, trust_host_key).
THEOREM OnlyVerifiedHosts == Spec => []VerifiedHost
<1>1. Inv => VerifiedHost
  BY DEF Inv, TypeOK, KeyInv, Proven, VerifiedHost, Begun
<1> QED BY <1>1, InvHolds, PTL
=============================================================================
