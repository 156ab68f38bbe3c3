------------------------------ MODULE MCAgents ------------------------------
(***************************************************************************)
(* What runs for an agent or through the broker: the shared connections    *)
(* and the transfer links of the MCP server, a connection of the broker    *)
(* service and the bridge of one of its channels.  They share no state: a  *)
(* behaviour of this instance is one of the component it starts with, the  *)
(* others stay in their initial states and owe no steps.                   *)
(***************************************************************************)
EXTENDS McpConnections, FiniteSetTheorems, SequenceTheorems, WellFoundedInduction, TLAPS

CONSTANTS
  Downloads, Uploads, Handlers, MaxTickets, MaxActiveTransfers,  \* of the links
  MaxRevision, MaxChannels, Total, Window,                       \* of the broker
  MaxOutput, Batch, MaxPending, Queue, MaxTyped, Limit           \* of a channel

ASSUME LinksAssumption == Downloads \cap Uploads = {} /\ None \notin Downloads \cup Uploads
ASSUME ChannelAssumption == MaxOutput \in Nat /\ Batch \in Nat \ {0} /\ Limit \in Nat

VARIABLES component,
  ticket, late, revoked, handler, shutdown, stored,
  revision, client, serving, used, noticed, remote, channels,
  typed, toTarget, printed, toDesktop, ended, closed,
  kind, step, cause, server, output, erred, network, linked, kept,
  pending, batch, due, shown, errors, truncated,
  controls, inputs, writer, got, room, caller, registered, window

Links == INSTANCE McpTransfers
Brokered == INSTANCE BrokerConnection
Bridge == INSTANCE ChannelBridge
Channel == INSTANCE SshChannel WITH printed <- output, open <- kept, typed <- inputs

linkVars == <<ticket, late, revoked, handler, shutdown, stored>>
brokerVars == <<revision, client, serving, used, noticed, remote, channels>>
bridgeVars == <<typed, toTarget, printed, toDesktop, ended, closed>>
channelVars ==
  <<kind, step, cause, server, output, erred, network, linked, kept, pending, batch, due, shown,
    errors, truncated, controls, inputs, writer, got, room, caller, registered, window>>

In(c) == component = c

MCInit ==
  /\ component \in {"cache", "links", "brokered", "bridge", "channel"}
  /\ Init /\ Links!Init /\ Bridge!Init /\ Channel!Init
  /\ Brokered!Init /\ (In("brokered") \/ revision = 1)

MCNext ==
  /\ UNCHANGED component
  /\ \/ In("cache") /\ Next /\ UNCHANGED <<linkVars, brokerVars, bridgeVars, channelVars>>
     \/ In("links") /\ Links!Next /\ UNCHANGED <<vars, brokerVars, bridgeVars, channelVars>>
     \/ In("brokered") /\ Brokered!Next /\ UNCHANGED <<vars, linkVars, bridgeVars, channelVars>>
     \/ In("bridge") /\ Bridge!Next /\ UNCHANGED <<vars, linkVars, brokerVars, channelVars>>
     \/ In("channel") /\ Channel!Next /\ UNCHANGED <<vars, linkVars, brokerVars, bridgeVars>>

\* In the initial state of a component none of the actions it is fair to is
\* enabled, so that its fairness asks nothing of the behaviours of another.
MCSpec ==
  /\ MCInit /\ [][MCNext]_<<component, vars, linkVars, brokerVars, bridgeVars, channelVars>>
  /\ Fairness /\ Links!Fairness /\ Brokered!Fairness /\ Bridge!Fairness /\ Channel!Fairness
-----------------------------------------------------------------------------
\* The links of MCP agents (mcp_transfer): no upload is stored twice; and the channels
\* of a connection (terminal_io.rs): no output of a terminal is lost or told after its
\* exit, an agent knows when the output of its command was cut.
ChannelTrue == Channel!OutputKept /\ Channel!ExitAfterOutput /\ Channel!CutTold
AgentsServed == Links!UploadOnce /\ (In("channel") => ChannelTrue)

\* A connection through the broker (service.rs, proxy.rs) ends with its record and
\* its desktop, and one side that does not read does not stop the other, there or in
\* the worker of a terminal (terminal_io.rs).
BrokeredEnds ==
  /\ Brokered!StaleCloses /\ Brokered!LeftCloses
  /\ Bridge!TypedArrives /\ Bridge!DesktopCloses /\ Channel!OutputFlows

\* Idle connections, links without a token and channels of a sample come to an end, and
\* so does what runs through the broker.
AgentsEnd == IdleCloses /\ Links!ClearedEnds /\ Channel!SampleCloses /\ BrokeredEnds

\* Not in the configuration, for it does not hold: the promise of the upload page
\* that a failed upload can be repeated (mcp_transfer/http.rs:636).
LinksRetryable == Links!Retryable

\* Nor do these of a terminal: that its window gets the last output whatever ends it
\* (terminal_io.rs:333), that a disconnect ends beside a server that reads no input.
TailShown == Channel!TailShown
DisconnectEnds == Channel!DisconnectEnds
-----------------------------------------------------------------------------
(* Proofs, for every finite set of calls and every set of connections.       *)

Steps == {"idle", "gate", "lookup", "expire", "validate", "connect", "lock", "work"}
Entry == [conn : Connections, users : Nat, elapsed : BOOLEAN]
CallType == call \in [Calls -> [step : Steps, lease : Connections \cup {None}, stale : Connections \cup {None}]]

\* A call holds its lease while it validates it and while it works, and an expired
\* connection until it has disconnected it.
LeaseSteps ==
  \A c \in Calls : /\ call[c].step \in {"validate", "lock", "work"} => call[c].lease # None
                   /\ call[c].lease # None => call[c].step \in {"validate", "lock", "work"}
                   /\ call[c].stale # None => call[c].step = "expire"

\* The gate admits one call at a time to the cache; what that call found there is still so.
GateHeld ==
  \A c \in Calls : /\ call[c].step \in {"lookup", "validate", "expire", "connect"} => gate = c
                   /\ call[c].step \in {"expire", "connect"} => entry = None
                   /\ call[c].step = "validate" /\ entry # None => entry.conn = call[c].lease

\* The cached connection is watched, and nothing closes it.
EntryWatched ==
  entry # None => /\ watcher[entry.conn] \in {"look", "used", "timed"}
                  /\ \A c \in Calls : call[c].stale # entry.conn

CacheInv == TypeOK /\ CallType /\ LeaseSteps /\ GateHeld /\ EntryWatched /\ UsersCounted /\ ClosingUnused

Holders(k) == {c \in Calls : call[c].lease = k}

LEMMA HoldersFinite ==
  ASSUME NEW k
  PROVE  IsFiniteSet(Holders(k)) /\ Cardinality(Holders(k)) \in Nat /\ Cardinality(Holders(k))' \in Nat
         /\ (Cardinality(Holders(k)) = 0 <=> Holders(k) = {})
<1>1. Holders(k) \subseteq Calls /\ Holders(k)' \subseteq Calls
  BY DEF Holders
<1>2. IsFiniteSet(Holders(k)) /\ IsFiniteSet(Holders(k)')
  BY <1>1, CallsAssumption, FS_Subset
<1> QED
  BY <1>2, FS_CardinalityType, FS_EmptySet

LEMMA CountIs ==
  UsersCounted <=> (entry # None => entry.users = Cardinality(Holders(entry.conn)))
BY DEF UsersCounted, Holders

\* The steps of a call.
LEMMA GotoDoes ==
  ASSUME CallType, NEW c \in Calls, NEW st \in Steps, Goto(c, st)
  PROVE  /\ CallType' /\ \A d \in Calls \ {c} : call'[d] = call[d]
         /\ call'[c].step = st /\ call'[c].lease = call[c].lease /\ call'[c].stale = call[c].stale
         /\ \A k : Holders(k)' = Holders(k)
<1> DEFINE n == [call[c] EXCEPT !.step = st]
<1>1. /\ n \in [step : Steps, lease : Connections \cup {None}, stale : Connections \cup {None}]
      /\ n.step = st /\ n.lease = call[c].lease /\ n.stale = call[c].stale
  BY DEF CallType
<1>2. call' = [call EXCEPT ![c] = n]
  BY DEF Goto
<1> HIDE DEF n
<1>3. call'[c] = n /\ CallType' /\ \A d \in Calls \ {c} : call'[d] = call[d]
  BY <1>1, <1>2 DEF CallType
<1>4. \A d \in Calls : call'[d].lease = call[d].lease
  BY <1>1, <1>3
<1> QED
  BY <1>1, <1>3, <1>4 DEF Holders

\* A call that takes a lease, or gives up an expired connection.
CallSet == [step : Steps, lease : Connections \cup {None}, stale : Connections \cup {None}]
LEMMA CallBecomes ==
  ASSUME CallType, NEW c \in Calls, NEW n \in CallSet, call' = [call EXCEPT ![c] = n]
  PROVE  CallType' /\ call'[c] = n /\ \A d \in Calls \ {c} : call'[d] = call[d]
BY DEF CallType, CallSet

\* The invariant of a step that leaves the leases and the cached connection.
LEMMA SameLeases ==
  ASSUME CacheInv, CallType', UNCHANGED <<entry>>, \A k : Holders(k)' = Holders(k)
  PROVE  UsersCounted'
BY CountIs DEF CacheInv, UsersCounted, Holders

-----------------------------------------------------------------------------
LEMMA GotoStep ==
  ASSUME CacheInv, NEW c \in Calls, Begin(c) \/ Enter(c) \/ Missing(c) \/ Read(c) \/ Operate(c)
  PROVE  CacheInv'
<1> USE DEF CacheInv
<1>1. UNCHANGED <<entry, open, watcher, signal>> /\ gate' \in {gate, c} /\ operation' \in {operation, c}
  BY DEF Begin, Enter, Missing, Read, Operate
<1>2. PICK st \in {"gate", "lookup", "connect", "work"} :
        /\ Goto(c, st) /\ (st = "lookup" => gate = None /\ gate' = c) /\ (st # "lookup" => gate' = gate)
        /\ st = "gate" => call[c].step = "idle"
        /\ st = "lookup" => call[c].step = "gate"
        /\ st = "connect" => call[c].step = "lookup" /\ entry = None
        /\ st = "work" => call[c].step = "lock"
  BY DEF Begin, Enter, Missing, Read, Operate
<1>3. st \in Steps
  BY DEF Steps
<1>4. /\ CallType' /\ \A d \in Calls \ {c} : call'[d] = call[d]
      /\ call'[c].step = st /\ call'[c].lease = call[c].lease /\ call'[c].stale = call[c].stale
      /\ \A k : Holders(k)' = Holders(k)
  BY <1>2, <1>3, GotoDoes
<1>5. \A d \in Calls : call'[d].lease = call[d].lease /\ call'[d].stale = call[d].stale
  BY <1>4
<1>6. TypeOK'
  BY <1>1 DEF TypeOK
<1>7. LeaseSteps'
  <2> SUFFICES ASSUME NEW d \in Calls
               PROVE  /\ call'[d].step \in {"validate", "lock", "work"} => call'[d].lease # None
                      /\ call'[d].lease # None => call'[d].step \in {"validate", "lock", "work"}
                      /\ call'[d].stale # None => call'[d].step = "expire"
    BY DEF LeaseSteps
  <2> QED
    BY <1>2, <1>4 DEF LeaseSteps
<1>8. GateHeld'
  <2> SUFFICES ASSUME NEW d \in Calls
               PROVE  /\ call'[d].step \in {"lookup", "validate", "expire", "connect"} => gate' = d
                      /\ call'[d].step \in {"expire", "connect"} => entry' = None
                      /\ call'[d].step = "validate" /\ entry' # None => entry'.conn = call'[d].lease
    BY DEF GateHeld
  <2>1. CASE d = c
    BY <1>1, <1>2, <1>4, <2>1 DEF GateHeld
  <2>2. CASE d # c
    BY <1>1, <1>2, <1>4, <2>2, NoneAssumption DEF GateHeld
  <2> QED
    BY <2>1, <2>2
<1>9. EntryWatched' /\ UsersCounted' /\ ClosingUnused'
  BY <1>1, <1>4, <1>5, SameLeases DEF EntryWatched, ClosingUnused
<1> QED
  BY <1>4, <1>6, <1>7, <1>8, <1>9

LEMMA ReuseStep ==
  ASSUME CacheInv, NEW c \in Calls, Reuse(c)
  PROVE  CacheInv'
<1> USE DEF CacheInv
<1>1. call[c].step = "lookup" /\ entry # None /\ UNCHANGED <<open, gate, operation, watcher>>
  BY DEF Reuse
<1>2. PICK k \in Connections : k = entry.conn /\ entry \in Entry /\ entry.users \in Nat
  BY <1>1 DEF TypeOK, Entry
<1>3. /\ entry' \in Entry /\ entry' # None /\ entry'.conn = k /\ entry'.users = entry.users + 1
      /\ signal' \in [Connections -> BOOLEAN]
  BY <1>1, <1>2, NoneAssumption DEF Reuse, Entry, TypeOK
<1>4. call[c].lease = None /\ call[c].stale = None
  BY <1>1 DEF LeaseSteps
<1>6. /\ CallType' /\ \A d \in Calls \ {c} : call'[d] = call[d]
      /\ call'[c].step = "validate" /\ call'[c].lease = k /\ call'[c].stale = None
  <2> DEFINE n == [call[c] EXCEPT !.step = "validate", !.lease = k]
  <2>1. n \in CallSet /\ n.step = "validate" /\ n.lease = k /\ n.stale = None
    BY <1>2, <1>4 DEF CallType, CallSet, Steps
  <2>2. call' = [call EXCEPT ![c] = n]
    BY <1>2 DEF Reuse
  <2> HIDE DEF n
  <2> QED
    BY <2>1, <2>2, CallBecomes
<1>7. TypeOK'
  BY <1>1, <1>3 DEF TypeOK, Entry
<1>8. LeaseSteps' /\ GateHeld'
  BY <1>1, <1>2, <1>3, <1>6, NoneAssumption DEF LeaseSteps, GateHeld
<1>9. EntryWatched'
  BY <1>1, <1>3, <1>6, <1>2, NoneAssumption DEF EntryWatched
<1>10. UsersCounted'
  <2>1. Holders(k)' = Holders(k) \cup {c} /\ c \notin Holders(k)
    BY <1>2, <1>4, <1>6, NoneAssumption DEF Holders
  <2>2. Cardinality(Holders(k)') = Cardinality(Holders(k)) + 1
    BY <2>1, HoldersFinite, FS_AddElement
  <2>3. Cardinality(Holders(k)') = entry'.users
    BY <1>1, <1>2, <1>3, <2>2, CountIs
  <2> QED
    BY <1>3, <2>3 DEF UsersCounted, Holders
<1>11. ClosingUnused'
  <2> SUFFICES ASSUME NEW l \in Connections, watcher[l] = "closing" \/ (\E d \in Calls : call'[d].stale = l),
                      NEW e \in Calls
               PROVE  call'[e].lease # l
    BY <1>1 DEF ClosingUnused
  <2>1. watcher[l] = "closing" \/ (\E d \in Calls : call[d].stale = l)
    BY <1>6, NoneAssumption
  <2>2. l # k /\ call[e].lease # l
    BY <1>1, <1>2, <2>1 DEF ClosingUnused, EntryWatched
  <2> QED
    BY <1>6, <2>2
<1> QED
  BY <1>6, <1>7, <1>8, <1>9, <1>10, <1>11

LEMMA ExpiredStep ==
  ASSUME CacheInv, NEW c \in Calls, Expired(c)
  PROVE  CacheInv'
<1> USE DEF CacheInv
<1>1. /\ call[c].step = "lookup" /\ entry # None /\ entry.users = 0 /\ entry' = None
      /\ UNCHANGED <<open, gate, operation, watcher>>
  BY DEF Expired
<1>2. PICK k \in Connections : k = entry.conn /\ signal' \in [Connections -> BOOLEAN]
  BY <1>1 DEF TypeOK, Expired
<1>3. call[c].lease = None
  BY <1>1 DEF LeaseSteps
<1>5. /\ CallType' /\ \A d \in Calls \ {c} : call'[d] = call[d]
      /\ call'[c].step = "expire" /\ call'[c].lease = None /\ call'[c].stale = k
  <2> DEFINE n == [call[c] EXCEPT !.step = "expire", !.stale = k]
  <2>1. n \in CallSet /\ n.step = "expire" /\ n.lease = None /\ n.stale = k
    BY <1>2, <1>3 DEF CallType, CallSet, Steps
  <2>2. call' = [call EXCEPT ![c] = n]
    BY <1>2 DEF Expired
  <2> HIDE DEF n
  <2> QED
    BY <2>1, <2>2, CallBecomes
<1>6. \A d \in Calls : call[d].lease # k
  <2>1. Cardinality(Holders(k)) = 0
    BY <1>1, <1>2, CountIs
  <2>2. Holders(k) = {}
    BY <2>1, HoldersFinite
  <2> QED
    BY <2>2 DEF Holders
<1>7. TypeOK'
  BY <1>1, <1>2 DEF TypeOK
<1>8. LeaseSteps' /\ GateHeld' /\ EntryWatched' /\ UsersCounted'
  BY <1>1, <1>5 DEF LeaseSteps, GateHeld, EntryWatched, UsersCounted
<1>9. ClosingUnused'
  BY <1>1, <1>2, <1>3, <1>5, <1>6, NoneAssumption DEF ClosingUnused
<1> QED
  BY <1>5, <1>7, <1>8, <1>9

LEMMA ExpireStep ==
  ASSUME CacheInv, NEW c \in Calls, Expire(c)
  PROVE  CacheInv'
<1> USE DEF CacheInv
<1>1. call[c].step = "expire" /\ UNCHANGED <<entry, gate, operation, watcher, signal>> /\ open' \subseteq open
  BY DEF Expire
<1>2. call[c].lease = None
  BY <1>1 DEF LeaseSteps
<1>4. /\ CallType' /\ \A d \in Calls \ {c} : call'[d] = call[d]
      /\ call'[c].step = "connect" /\ call'[c].lease = None /\ call'[c].stale = None
  <2> DEFINE n == [call[c] EXCEPT !.step = "connect", !.stale = None]
  <2>1. n \in CallSet /\ n.step = "connect" /\ n.lease = None /\ n.stale = None
    BY <1>2 DEF CallType, CallSet, Steps
  <2>2. call' = [call EXCEPT ![c] = n]
    BY DEF Expire
  <2> HIDE DEF n
  <2> QED
    BY <2>1, <2>2, CallBecomes
<1>5. TypeOK'
  BY <1>1 DEF TypeOK
<1>6. LeaseSteps' /\ GateHeld' /\ EntryWatched'
  BY <1>1, <1>4 DEF LeaseSteps, GateHeld, EntryWatched
<1>7. UsersCounted' /\ ClosingUnused'
  <2>1. \A d \in Calls : call'[d].lease = call[d].lease /\ call'[d].stale \in {None, call[d].stale}
    BY <1>2, <1>4
  <2> QED
    BY <1>1, <1>4, <2>1, SameLeases, NoneAssumption DEF ClosingUnused, Holders
<1> QED
  BY <1>4, <1>5, <1>6, <1>7

\* The end of a lease: the entry counts one user less if it is of the same connection.
LEMMA LeaseEnds ==
  ASSUME CacheInv, NEW c \in Calls, call' = [call EXCEPT ![c] = Idle], entry' = Dropped(call[c].lease, entry)
  PROVE  /\ entry' \in Entry \cup {None} /\ (entry' = None <=> entry = None)
         /\ entry # None => entry'.conn = entry.conn
         /\ CallType' /\ (\A d \in Calls \ {c} : call'[d] = call[d])
         /\ call'[c].step = "idle" /\ call'[c].lease = None /\ call'[c].stale = None
         /\ UsersCounted'
<1> USE DEF CacheInv
<1>1. Idle \in CallSet /\ Idle.step = "idle" /\ Idle.lease = None /\ Idle.stale = None
  BY DEF Idle, CallSet, Steps
<1>2. /\ CallType' /\ (\A d \in Calls \ {c} : call'[d] = call[d])
      /\ call'[c].step = "idle" /\ call'[c].lease = None /\ call'[c].stale = None
  BY <1>1, CallBecomes
<1>3. CASE entry = None
  BY <1>2, <1>3 DEF Dropped, UsersCounted
<1>4. CASE entry # None
  <2>1. PICK k \in Connections : k = entry.conn /\ entry \in Entry /\ entry.users \in Nat
    BY <1>4 DEF TypeOK, Entry
  <2>2. entry.users = Cardinality(Holders(k))
    BY <1>4, <2>1, CountIs
  <2>3. CASE call[c].lease = k
    <3>1. Holders(k)' = Holders(k) \ {c} /\ c \in Holders(k)
      BY <1>2, <2>1, <2>3, NoneAssumption DEF Holders
    <3>2. Cardinality(Holders(k)') = entry.users - 1
      BY <2>2, <3>1, HoldersFinite, FS_RemoveElement
    <3>3. entry.users - 1 \in Nat
      BY <2>1, <2>2, <3>1, HoldersFinite
    <3> DEFINE n == [entry EXCEPT !.users = @ - 1, !.elapsed = IF entry.users = 1 THEN FALSE ELSE @]
    <3>4. n \in Entry /\ n.conn = k /\ n.users = entry.users - 1
      BY <2>1, <3>3 DEF Entry
    <3>5. entry' = n
      BY <1>4, <2>1, <2>3, NoneAssumption DEF Dropped
    <3> HIDE DEF n
    <3>6. entry' \in Entry /\ entry' # None /\ entry'.conn = k /\ entry'.users = entry.users - 1
      BY <3>4, <3>5, NoneAssumption DEF Entry
    <3>7. UsersCounted'
      BY <3>2, <3>6 DEF UsersCounted, Holders
    <3> QED
      BY <1>2, <1>4, <2>1, <3>6, <3>7
  <2>4. CASE call[c].lease # k
    <3>1. entry' = entry
      BY <1>4, <2>1, <2>4 DEF Dropped
    <3>2. Holders(k)' = Holders(k)
      BY <1>2, <2>1, <2>4, NoneAssumption DEF Holders
    <3>3. UsersCounted'
      BY <2>1, <2>2, <3>1, <3>2 DEF UsersCounted, Holders
    <3> QED
      BY <1>2, <1>4, <2>1, <3>1, <3>3
  <2> QED
    BY <2>3, <2>4
<1> QED
  BY <1>3, <1>4

LEMMA LeaveStep ==
  ASSUME CacheInv, NEW c \in Calls, Leave(c) \/ Cancelled(c)
  PROVE  CacheInv'
<1> USE DEF CacheInv
<1>1. /\ call' = [call EXCEPT ![c] = Idle] /\ entry' = Dropped(call[c].lease, entry)
      /\ UNCHANGED <<open, watcher>> /\ operation' \in {operation, None} /\ gate' \in {gate, None}
      /\ gate' # gate => gate = c
  BY DEF Leave, Cancelled
<1>2. /\ entry' \in Entry \cup {None} /\ (entry' = None <=> entry = None)
      /\ entry # None => entry'.conn = entry.conn
      /\ CallType' /\ (\A d \in Calls \ {c} : call'[d] = call[d])
      /\ call'[c].step = "idle" /\ call'[c].lease = None /\ call'[c].stale = None
      /\ UsersCounted'
  BY <1>1, LeaseEnds
<1>3. signal' \in [Connections -> BOOLEAN]
  BY DEF Leave, Cancelled, Woken, TypeOK
<1>4. TypeOK'
  BY <1>1, <1>2, <1>3 DEF TypeOK, Entry
<1>5. LeaseSteps' /\ GateHeld'
  BY <1>1, <1>2 DEF LeaseSteps, GateHeld
<1>6. EntryWatched'
  <2> SUFFICES ASSUME entry' # None
               PROVE  /\ watcher[entry.conn] \in {"look", "used", "timed"}
                      /\ \A d \in Calls : call'[d].stale # entry.conn
    BY <1>1, <1>2 DEF EntryWatched
  <2>1. entry # None /\ entry.conn \in Connections
    BY <1>2 DEF TypeOK
  <2> QED
    BY <1>2, <2>1, NoneAssumption DEF EntryWatched
<1>7. ClosingUnused'
  <2>1. \A d \in Calls : /\ call'[d].lease \in {None, call[d].lease} /\ call'[d].stale \in {None, call[d].stale}
    BY <1>2
  <2> QED
    BY <1>1, <2>1, NoneAssumption DEF ClosingUnused
<1> QED
  BY <1>2, <1>4, <1>5, <1>6, <1>7

\* The lease was on a connection that is gone; nothing else of it is cached.
LEMMA ValidateStep ==
  ASSUME CacheInv, NEW c \in Calls, Validate(c)
  PROVE  CacheInv'
<1> USE DEF CacheInv
<1>1. call[c].step = "validate" /\ UNCHANGED <<open, operation, watcher>> /\ gate = c
      /\ call[c].lease \in Connections /\ call[c].stale = None
  BY DEF Validate, GateHeld, LeaseSteps, CallType
<1>2. CASE call[c].lease \in open
  <2>1. gate' = None /\ Goto(c, "lock") /\ UNCHANGED <<entry, signal>>
    BY <1>2 DEF Validate
  <2>2. /\ CallType' /\ \A d \in Calls \ {c} : call'[d] = call[d]
        /\ call'[c].step = "lock" /\ call'[c].lease = call[c].lease /\ call'[c].stale = call[c].stale
        /\ \A k : Holders(k)' = Holders(k)
    BY <2>1, GotoDoes DEF Steps
  <2>3. \A d \in Calls : call'[d].lease = call[d].lease /\ call'[d].stale = call[d].stale
    BY <2>2
  <2>4. TypeOK' /\ LeaseSteps' /\ GateHeld'
    BY <1>1, <2>1, <2>2 DEF TypeOK, LeaseSteps, GateHeld
  <2>5. EntryWatched' /\ UsersCounted' /\ ClosingUnused'
    BY <1>1, <2>1, <2>2, <2>3, SameLeases DEF EntryWatched, ClosingUnused
  <2> QED
    BY <2>2, <2>4, <2>5
<1>3. CASE call[c].lease \notin open
  <2> DEFINE n == [call[c] EXCEPT !.step = "connect", !.lease = None]
  <2>1. n \in CallSet /\ n.step = "connect" /\ n.lease = None /\ n.stale = None
    BY <1>1 DEF CallType, CallSet, Steps
  <2>2. call' = [call EXCEPT ![c] = n] /\ UNCHANGED gate
    BY <1>3 DEF Validate
  <2> HIDE DEF n
  <2>3. /\ CallType' /\ \A d \in Calls \ {c} : call'[d] = call[d]
        /\ call'[c].step = "connect" /\ call'[c].lease = None /\ call'[c].stale = None
    BY <2>1, <2>2, CallBecomes
  <2>4. entry' = None
    BY <1>1, <1>3 DEF Validate, GateHeld
  <2>5. signal' \in [Connections -> BOOLEAN]
    BY <1>1, <1>3 DEF Validate, TypeOK
  <2>6. TypeOK' /\ LeaseSteps' /\ GateHeld'
    BY <1>1, <2>2, <2>3, <2>4, <2>5 DEF TypeOK, LeaseSteps, GateHeld
  <2>7. EntryWatched' /\ UsersCounted' /\ ClosingUnused'
    <3>1. \A d \in Calls : call'[d].lease \in {None, call[d].lease} /\ call'[d].stale \in {None, call[d].stale}
      BY <2>3
    <3> QED
      BY <1>1, <2>4, <3>1, NoneAssumption DEF EntryWatched, UsersCounted, ClosingUnused
  <2> QED
    BY <2>3, <2>6, <2>7
<1> QED
  BY <1>2, <1>3

LEMMA ConnectStep ==
  ASSUME CacheInv, NEW c \in Calls, Connect(c)
  PROVE  CacheInv'
<1> USE DEF CacheInv
<1>1. call[c].step = "connect" /\ gate' = None /\ gate = c /\ entry = None /\ UNCHANGED operation
      /\ call[c].lease = None /\ call[c].stale = None
  BY DEF Connect, GateHeld, LeaseSteps
<1>2. ASSUME NEW k \in Connections,
             New(k), open' = open \cup {k}, entry' = [conn |-> k, users |-> 1, elapsed |-> FALSE],
             call' = [call EXCEPT ![c].step = "lock", ![c].lease = k], watcher' = [watcher EXCEPT ![k] = "look"],
             signal' = signal
      PROVE  CacheInv'
  <2> DEFINE n == [call[c] EXCEPT !.step = "lock", !.lease = k]
  <2>1. n \in CallSet /\ n.step = "lock" /\ n.lease = k /\ n.stale = None
    BY <1>1 DEF CallType, CallSet, Steps
  <2>2. call' = [call EXCEPT ![c] = n]
    BY <1>2
  <2> HIDE DEF n
  <2>3. /\ CallType' /\ \A d \in Calls \ {c} : call'[d] = call[d]
        /\ call'[c].step = "lock" /\ call'[c].lease = k /\ call'[c].stale = None
    BY <2>1, <2>2, CallBecomes
  <2>4. entry' \in Entry /\ entry' # None /\ entry'.conn = k /\ entry'.users = 1
    <3> DEFINE e == [conn |-> k, users |-> 1, elapsed |-> FALSE]
    <3>1. e \in Entry /\ e.conn = k /\ e.users = 1
      BY DEF Entry
    <3>2. entry' = e
      BY <1>2
    <3> HIDE DEF e
    <3> QED
      BY <3>1, <3>2, NoneAssumption DEF Entry
  <2>5. watcher'[k] = "look" /\ (\A l \in Connections \ {k} : watcher'[l] = watcher[l])
        /\ \A d \in Calls : call[d].lease # k /\ call[d].stale # k
    BY <1>2 DEF TypeOK, New
  <2>6. TypeOK'
    BY <1>1, <1>2, <2>4 DEF TypeOK, Entry
  <2>7. LeaseSteps' /\ GateHeld'
    BY <1>1, <2>3, NoneAssumption DEF LeaseSteps, GateHeld
  <2>8. EntryWatched'
    BY <2>3, <2>4, <2>5, NoneAssumption DEF EntryWatched
  <2>9. UsersCounted'
    <3>1. Holders(k)' = {c}
      BY <2>3, <2>5 DEF Holders
    <3>2. Cardinality(Holders(k)') = 1
      BY <3>1, FS_Singleton
    <3> QED
      BY <2>4, <3>2 DEF UsersCounted, Holders
  <2>10. ClosingUnused'
    <3> SUFFICES ASSUME NEW l \in Connections, watcher'[l] = "closing" \/ (\E d \in Calls : call'[d].stale = l),
                        NEW e \in Calls
                 PROVE  call'[e].lease # l
      BY DEF ClosingUnused
    <3>1. l # k /\ (watcher[l] = "closing" \/ (\E d \in Calls : call[d].stale = l))
      BY <2>3, <2>5, NoneAssumption
    <3> QED
      BY <2>3, <3>1 DEF ClosingUnused
  <2> QED
    BY <2>3, <2>6, <2>7, <2>8, <2>9, <2>10
<1>3. CASE call' = [call EXCEPT ![c] = Idle] /\ UNCHANGED <<open, entry, watcher, signal>>
  <2>1. Idle \in CallSet /\ Idle.step = "idle" /\ Idle.lease = None /\ Idle.stale = None
    BY DEF Idle, CallSet, Steps
  <2>2. /\ CallType' /\ (\A d \in Calls \ {c} : call'[d] = call[d])
        /\ call'[c].step = "idle" /\ call'[c].lease = None /\ call'[c].stale = None
    BY <1>3, <2>1, CallBecomes
  <2>3. \A d \in Calls : call'[d].lease = call[d].lease /\ call'[d].stale = call[d].stale
    BY <1>1, <2>2
  <2>4. TypeOK' /\ LeaseSteps' /\ GateHeld'
    BY <1>1, <1>3, <2>2 DEF TypeOK, LeaseSteps, GateHeld
  <2>5. EntryWatched' /\ UsersCounted' /\ ClosingUnused'
    BY <1>1, <1>3, <2>3 DEF EntryWatched, UsersCounted, ClosingUnused
  <2> QED
    BY <2>2, <2>4, <2>5
<1> QED
  BY <1>1, <1>2, <1>3 DEF Connect

-----------------------------------------------------------------------------
(* The tasks of the connections.                                             *)

LEMMA TaskStep ==
  ASSUME CacheInv, NEW k \in Connections, Wake(k) \/ Deadline(k) \/ CloseIdle(k)
  PROVE  CacheInv'
<1> USE DEF CacheInv
<1>1. UNCHANGED <<entry, call, gate, operation>> /\ open' \subseteq open
  BY DEF Wake, Deadline, CloseIdle
<1>2. PICK what \in {"look", "none"} :
        /\ watcher' = [watcher EXCEPT ![k] = what] /\ signal' \in [Connections -> BOOLEAN]
        /\ what = "none" => watcher[k] = "closing"
  BY DEF Wake, Deadline, CloseIdle, Ends, TypeOK
<1>3. watcher'[k] = what /\ \A l \in Connections \ {k} : watcher'[l] = watcher[l]
  BY <1>2 DEF TypeOK
<1>4. TypeOK' /\ CallType' /\ LeaseSteps' /\ GateHeld'
  BY <1>1, <1>2 DEF TypeOK, CallType, LeaseSteps, GateHeld
<1>5. EntryWatched'
  BY <1>1, <1>2, <1>3 DEF EntryWatched, TypeOK
<1>6. UsersCounted' /\ ClosingUnused'
  BY <1>1, <1>2, <1>3 DEF UsersCounted, ClosingUnused
<1> QED
  BY <1>4, <1>5, <1>6

LEMMA LookStep ==
  ASSUME CacheInv, NEW k \in Connections, Look(k)
  PROVE  CacheInv'
<1> USE DEF CacheInv
<1>1. UNCHANGED <<open, call, gate, operation>> /\ watcher[k] = "look"
  BY DEF Look
<1>2. ASSUME entry # None, entry.conn = k, ~(entry.users > 0), entry' = None, Waits(k, "closing")
      PROVE  CacheInv'
  <2>1. watcher' = [watcher EXCEPT ![k] = "closing"] /\ UNCHANGED signal
    BY <1>2 DEF Waits
  <2>2. watcher'[k] = "closing" /\ \A l \in Connections \ {k} : watcher'[l] = watcher[l]
    BY <2>1 DEF TypeOK
  <2>3. \A d \in Calls : call[d].lease # k
    <3>1. entry.users \in Nat /\ entry.users = Cardinality(Holders(k))
      BY <1>2, CountIs DEF TypeOK
    <3>2. Holders(k) = {}
      BY <1>2, <3>1, HoldersFinite
    <3> QED
      BY <3>2 DEF Holders
  <2>4. TypeOK' /\ CallType' /\ LeaseSteps' /\ GateHeld'
    BY <1>1, <1>2, <2>1 DEF TypeOK, CallType, LeaseSteps, GateHeld
  <2>5. EntryWatched' /\ UsersCounted' /\ ClosingUnused'
    BY <1>1, <1>2, <2>2, <2>3 DEF EntryWatched, UsersCounted, ClosingUnused
  <2> QED
    BY <2>4, <2>5
<1>3. ASSUME UNCHANGED entry,
             NEW what \in {"none", "used", "timed"}, watcher' = [watcher EXCEPT ![k] = what],
             signal' \in [Connections -> BOOLEAN], what = "none" => entry = None \/ entry.conn # k
      PROVE  CacheInv'
  <2>1. watcher'[k] = what /\ \A l \in Connections \ {k} : watcher'[l] = watcher[l]
    BY <1>3 DEF TypeOK
  <2>2. TypeOK' /\ CallType' /\ LeaseSteps' /\ GateHeld'
    BY <1>1, <1>3 DEF TypeOK, CallType, LeaseSteps, GateHeld
  <2>3. EntryWatched'
    BY <1>1, <1>3, <2>1 DEF EntryWatched, TypeOK
  <2>4. UsersCounted' /\ ClosingUnused'
    BY <1>1, <1>3, <2>1 DEF UsersCounted, ClosingUnused
  <2> QED
    BY <2>2, <2>3, <2>4
<1>4. \/ /\ UNCHANGED entry
         /\ \E what \in {"none", "used", "timed"} :
              /\ watcher' = [watcher EXCEPT ![k] = what] /\ signal' \in [Connections -> BOOLEAN]
              /\ what = "none" => entry = None \/ entry.conn # k
      \/ entry # None /\ entry.conn = k /\ ~(entry.users > 0) /\ entry' = None /\ Waits(k, "closing")
  BY DEF Look, Waits, Ends, TypeOK
<1> QED
  BY <1>2, <1>3, <1>4

LEMMA WorldStep ==
  ASSUME CacheInv, Disconnected \/ IdleElapses
  PROVE  CacheInv'
<1> USE DEF CacheInv
<1>1. CASE Disconnected
  BY <1>1 DEF Disconnected, TypeOK, CallType, LeaseSteps, GateHeld, EntryWatched, UsersCounted, ClosingUnused
<1>2. CASE IdleElapses
  <2>1. entry # None /\ entry' = [entry EXCEPT !.elapsed = TRUE] /\ UNCHANGED <<open, call, gate, operation, watcher, signal>>
    BY <1>2 DEF IdleElapses
  <2>2. entry' \in Entry /\ entry' # None /\ entry'.conn = entry.conn /\ entry'.users = entry.users
    BY <2>1, NoneAssumption DEF TypeOK, Entry
  <2> QED
    BY <2>1, <2>2 DEF TypeOK, Entry, CallType, LeaseSteps, GateHeld, EntryWatched, UsersCounted, ClosingUnused
<1> QED
  BY <1>1, <1>2

LEMMA CacheInit ==
  ASSUME Init
  PROVE  CacheInv
<1>1. \A c \in Calls : call[c].step = "idle" /\ call[c].lease = None /\ call[c].stale = None
  BY DEF Init, Idle
<1>2. TypeOK /\ CallType
  BY DEF Init, TypeOK, CallType, Idle, Steps
<1>3. entry = None /\ \A k \in Connections : watcher[k] = "none"
  BY DEF Init
<1> QED
  BY <1>1, <1>2, <1>3, NoneAssumption DEF CacheInv, LeaseSteps, GateHeld, EntryWatched, UsersCounted, ClosingUnused

LEMMA CacheNext ==
  ASSUME CacheInv, Next
  PROVE  CacheInv'
BY GotoStep, ReuseStep, ExpiredStep, ExpireStep, LeaveStep, ValidateStep, ConnectStep, TaskStep, LookStep, WorldStep DEF Next

LEMMA CacheStutters ==
  ASSUME CacheInv, UNCHANGED vars
  PROVE  CacheInv'
BY DEF vars, CacheInv, TypeOK, CallType, LeaseSteps, GateHeld, EntryWatched, UsersCounted, ClosingUnused

\* Every lease counts and none is on a connection that is closed for being idle, however
\* many calls come and go; and a new connection replaces no cached one.
THEOREM LeasesAreKept == Spec => []LeasesKept
<1>1. CacheInv /\ [Next]_vars => CacheInv'
  BY CacheNext, CacheStutters
<1>2. CacheInv => LeasesKept
  BY DEF CacheInv, GateHeld, LeasesKept, NothingReplaced
<1> QED
  BY <1>1, <1>2, CacheInit, PTL DEF Spec
-----------------------------------------------------------------------------
(* The links: a ticket of an upload has one handler from its begin until    *)
(* that handler returns, and the handler that stored a file finishes it.    *)

LinkSteps == {"idle", "authorize", "connect", "info", "stream", "disconnect", "finish"}
Handling == [step : LinkSteps, ticket : Links!Tickets \cup {None}, head : BOOLEAN, permit : BOOLEAN,
             task : BOOLEAN, ok : BOOLEAN]

LinkType ==
  /\ ticket \in [Links!Tickets -> {"unused", "ready", "active", "gone"}]
  /\ handler \in [Handlers -> Handling] /\ stored \in [Links!Tickets -> Nat]

\* A handler has a ticket while it runs; that of a HEAD is of a download.
Ticketed ==
  \A h \in Handlers : /\ handler[h].step = "idle" <=> handler[h].ticket = None
                      /\ handler[h].head => handler[h].ticket \in Downloads

\* A ticket of an upload that can begin has no handler and stored nothing; one that has
\* begun has one handler at most.
Exclusive(t) ==
  /\ ticket[t] \in {"unused", "ready"} => stored[t] = 0 /\ \A h \in Handlers : handler[h].ticket # t
  /\ \A h, g \in Handlers : handler[h].ticket = t /\ handler[g].ticket = t => h = g

\* After a file was stored its handler only finishes, and knows of it.
StoredOnce(t) ==
  /\ stored[t] \in {0, 1}
  /\ stored[t] = 1 => \A h \in Handlers :
       handler[h].ticket = t => handler[h].ok /\ handler[h].step \in {"disconnect", "finish"}

LinkInv == LinkType /\ Ticketed /\ \A t \in Uploads : Exclusive(t) /\ StoredOnce(t)

\* Tickets that are issued, swept or cleared.
LEMMA LinkStore ==
  ASSUME LinkInv, UNCHANGED <<handler, stored>>,
         (\E t \in Links!Tickets : Links!Issue(t)) \/ Links!TimePasses \/ Links!Clear \/ Links!Page
  PROVE  LinkInv'
<1>1. /\ ticket' \in [Links!Tickets -> {"unused", "ready", "active", "gone"}]
      /\ \A t \in Links!Tickets : ticket'[t] \in {"unused", "ready"} => ticket[t] \in {"unused", "ready"}
  BY DEF LinkInv, LinkType, Links!Issue, Links!TimePasses, Links!Clear, Links!Page, Links!Swept
<1>2. Uploads \subseteq Links!Tickets
  BY DEF Links!Tickets
<1>. QED BY <1>1, <1>2 DEF LinkInv, LinkType, Ticketed, Exclusive, StoredOnce

\* A handler that goes on to its next step, or returns.
LEMMA LinkMove ==
  ASSUME LinkInv, NEW h \in Handlers, NEW r \in Handling, handler' = [handler EXCEPT ![h] = r],
         UNCHANGED <<ticket, stored>>,
         \/ r = Links!Idle
         \/ /\ r.ticket = handler[h].ticket /\ r.ok = handler[h].ok /\ r.head = handler[h].head
            /\ r.step # "idle" /\ handler[h].step # "idle"
            /\ handler[h].step \in {"disconnect", "finish"} => r.step \in {"disconnect", "finish"}
  PROVE  LinkInv'
<1>1. LinkType' /\ handler'[h] = r /\ \A g \in Handlers \ {h} : handler'[g] = handler[g]
  BY DEF LinkInv, LinkType
<1>2. r = Links!Idle => r.ticket = None /\ r.step = "idle" /\ ~r.head
  BY DEF Links!Idle
<1>3. Ticketed'
  BY <1>1, <1>2 DEF LinkInv, Ticketed
<1>4. ASSUME NEW t \in Uploads PROVE Exclusive(t)' /\ StoredOnce(t)'
  <2>1. t # None
    BY LinksAssumption
  <2>2. \A g \in Handlers : handler'[g].ticket = t =>
          /\ handler[g].ticket = t /\ handler'[g].ok = handler[g].ok
          /\ handler[g].step \in {"disconnect", "finish"} => handler'[g].step \in {"disconnect", "finish"}
    BY <1>1, <1>2, <2>1
  <2>. QED BY <2>2 DEF LinkInv, Exclusive, StoredOnce
<1>. QED BY <1>1, <1>3, <1>4 DEF LinkInv

LEMMA KeptDoes ==
  ASSUME LinkInv, NEW h \in Handlers, handler[h].step # "idle", NEW s \in LinkSteps \ {"idle"}, Links!Kept(h, s),
         handler[h].step \in {"disconnect", "finish"} => s \in {"disconnect", "finish"},
         UNCHANGED <<ticket, stored>>
  PROVE  LinkInv'
<1>. DEFINE r == [handler[h] EXCEPT !.step = s]
<1>1. /\ r \in Handling /\ r.ticket = handler[h].ticket /\ r.ok = handler[h].ok /\ r.head = handler[h].head
      /\ r.step = s
  BY DEF LinkInv, LinkType, Handling
<1>2. handler' = [handler EXCEPT ![h] = r]
  BY DEF Links!Kept
<1>. HIDE DEF r
<1>. QED BY <1>1, <1>2, LinkMove

LEMMA IdleHandling == Links!Idle \in Handling
BY DEF Links!Idle, Handling, LinkSteps

LEMMA LinkReturns ==
  ASSUME LinkInv, NEW h \in Handlers, Links!Returns(h), UNCHANGED <<ticket, stored>>
  PROVE  LinkInv'
BY LinkMove, IdleHandling DEF Links!Returns

LEMMA LinkSteady ==
  ASSUME LinkInv, NEW h \in Handlers,
         Links!Authorize(h) \/ Links!Connect(h) \/ Links!Info(h) \/ Links!Disconnect(h) \/ Links!ClientGone(h)
  PROVE  LinkInv'
<1>0. UNCHANGED <<ticket, stored>>
  BY DEF Links!Authorize, Links!Connect, Links!Info, Links!Disconnect, Links!ClientGone
<1>1. CASE Links!Returns(h)
  BY <1>0, <1>1, LinkReturns
<1>2. CASE \E s \in LinkSteps \ {"idle"} :
             /\ Links!Kept(h, s) /\ handler[h].step # "idle"
             /\ handler[h].step \in {"disconnect", "finish"} => s \in {"disconnect", "finish"}
  BY <1>0, <1>2, KeptDoes
<1>3. CASE handler[h].step = "info" /\ handler' = [handler EXCEPT ![h].step = "stream", ![h].task = TRUE]
  <2>. DEFINE r == [handler[h] EXCEPT !.step = "stream", !.task = TRUE]
  <2>1. /\ r \in Handling /\ r.ticket = handler[h].ticket /\ r.ok = handler[h].ok /\ r.head = handler[h].head
        /\ r.step = "stream"
    BY DEF LinkInv, LinkType, Handling, LinkSteps
  <2>2. handler' = [handler EXCEPT ![h] = r]
    BY <1>3
  <2>. HIDE DEF r
  <2>. QED BY <1>0, <1>3, <2>1, <2>2, LinkMove
<1>. QED BY <1>1, <1>2, <1>3 DEF Links!Authorize, Links!Connect, Links!Info, Links!Disconnect, Links!ClientGone,
              Links!Fails, LinkSteps

\* A ticket that a request takes: a HEAD takes that of a download, which has other handlers.
LEMMA LinkTakes ==
  ASSUME LinkInv, NEW h \in Handlers, NEW t \in Links!Tickets, NEW r \in Handling, handler' = [handler EXCEPT ![h] = r],
         handler[h].step = "idle", r.ticket = t, r.step # "idle", r.head => t \in Downloads, UNCHANGED stored,
         ticket' \in [Links!Tickets -> {"unused", "ready", "active", "gone"}],
         \A u \in Links!Tickets : ticket'[u] \in {"unused", "ready"} => ticket[u] \in {"unused", "ready"},
         t \in Uploads => ticket[t] = "ready" /\ ticket'[t] = "active"
  PROVE  LinkInv'
<1>1. LinkType' /\ handler'[h] = r /\ \A g \in Handlers \ {h} : handler'[g] = handler[g]
  BY DEF LinkInv, LinkType
<1>2. t # None /\ Uploads \subseteq Links!Tickets
  BY LinksAssumption DEF Links!Tickets
<1>3. Ticketed'
  BY <1>1, <1>2 DEF LinkInv, Ticketed
<1>4. ASSUME NEW u \in Uploads PROVE Exclusive(u)' /\ StoredOnce(u)'
  <2>1. CASE u # t
    <3>1. \A g \in Handlers : handler'[g].ticket = u => g # h /\ handler'[g] = handler[g]
      BY <1>1, <2>1
    <3>. QED BY <1>2, <3>1 DEF LinkInv, Exclusive, StoredOnce
  <2>2. CASE u = t
    <3>1. stored[t] = 0 /\ \A g \in Handlers : handler[g].ticket # t
      BY <2>2 DEF LinkInv, Exclusive
    <3>2. \A g \in Handlers : handler'[g].ticket = t => g = h
      BY <1>1, <3>1
    <3>. QED BY <2>2, <3>1, <3>2 DEF Exclusive, StoredOnce
  <2>. QED BY <2>1, <2>2
<1>. QED BY <1>1, <1>3, <1>4 DEF LinkInv

LEMMA LinkHead ==
  ASSUME LinkInv, NEW h \in Handlers, NEW t \in Downloads, Links!Head(h, t)
  PROVE  LinkInv'
<1>. DEFINE r == [Links!Idle EXCEPT !.step = "authorize", !.ticket = t, !.head = TRUE, !.permit = TRUE]
<1>1. t \in Links!Tickets /\ t \notin Uploads
  BY LinksAssumption DEF Links!Tickets
<1>2. r \in Handling /\ r.ticket = t /\ r.step = "authorize"
  BY <1>1, IdleHandling DEF Handling, LinkSteps
<1>3. handler' = [handler EXCEPT ![h] = r] /\ handler[h].step = "idle" /\ ticket' = Links!Swept(ticket) /\ UNCHANGED stored
  BY DEF Links!Head
<1>4. /\ ticket' \in [Links!Tickets -> {"unused", "ready", "active", "gone"}]
      /\ \A u \in Links!Tickets : ticket'[u] \in {"unused", "ready"} => ticket[u] \in {"unused", "ready"}
  BY <1>3 DEF LinkInv, LinkType, Links!Swept
<1>. HIDE DEF r
<1>. QED BY <1>1, <1>2, <1>3, <1>4, LinkTakes

LEMMA LinkBegin ==
  ASSUME LinkInv, NEW h \in Handlers, NEW t \in Links!Tickets, Links!Begin(h, t)
  PROVE  LinkInv'
<1>. DEFINE free == Links!FreePermits > 0
            r == [Links!Idle EXCEPT !.ticket = t, !.step = IF free THEN "authorize" ELSE "finish", !.permit = free]
<1>1. free \in BOOLEAN
  OBVIOUS
<1>3. handler' = [handler EXCEPT ![h] = r] /\ handler[h].step = "idle" /\ UNCHANGED stored
      /\ ticket[t] = "ready" /\ ticket' = [Links!Swept(ticket) EXCEPT ![t] = "active"]
  BY DEF Links!Begin, Links!In
<1>. HIDE DEF free
<1>2. r \in Handling /\ r.ticket = t /\ r.step # "idle" /\ ~r.head
  BY <1>1, IdleHandling DEF Handling, LinkSteps, Links!Idle
<1>. HIDE DEF r
<1>4. /\ ticket' \in [Links!Tickets -> {"unused", "ready", "active", "gone"}] /\ ticket'[t] = "active"
      /\ \A u \in Links!Tickets : ticket'[u] \in {"unused", "ready"} => ticket[u] \in {"unused", "ready"}
  BY <1>3 DEF LinkInv, LinkType, Links!Swept
<1>. QED BY <1>2, <1>3, <1>4, LinkTakes

LEMMA LinkStreamed ==
  ASSUME LinkInv, NEW h \in Handlers, NEW ok \in BOOLEAN, Links!Streamed(h, ok)
  PROVE  LinkInv'
<1>. DEFINE r == [handler[h] EXCEPT !.step = "disconnect", !.ok = ok]
            t == handler[h].ticket
            n == IF ok /\ t \in Uploads THEN 1 ELSE 0
<1>1. r \in Handling /\ r.ticket = t /\ r.ok = ok /\ r.head = handler[h].head /\ r.step = "disconnect"
  BY DEF LinkInv, LinkType, Handling, LinkSteps
<1>2. /\ handler' = [handler EXCEPT ![h] = r] /\ handler[h].step = "stream" /\ UNCHANGED ticket
      /\ stored' = [stored EXCEPT ![t] = @ + n]
  BY DEF Links!Streamed
<1>3. t \in Links!Tickets /\ t # None /\ n \in {0, 1}
  BY <1>2 DEF LinkInv, LinkType, Ticketed, Handling
<1>4. (n = 1 => ok) /\ (t \in Uploads /\ ok => n = 1)
  OBVIOUS
<1>. HIDE DEF r, n
<1>5. LinkType' /\ handler'[h] = r /\ \A g \in Handlers \ {h} : handler'[g] = handler[g]
  BY <1>1, <1>2, <1>3 DEF LinkInv, LinkType
<1>6. stored'[t] = stored[t] + n /\ \A u \in Links!Tickets \ {t} : stored'[u] = stored[u]
  BY <1>2, <1>3 DEF LinkInv, LinkType
<1>7. Ticketed'
  BY <1>1, <1>2, <1>5 DEF LinkInv, Ticketed
<1>8. \A g \in Handlers : handler'[g].ticket = handler[g].ticket
  BY <1>1, <1>5
<1>9. ASSUME NEW u \in Uploads PROVE Exclusive(u)' /\ StoredOnce(u)'
  <2>0. u \in Links!Tickets
    BY DEF Links!Tickets
  <2>1. CASE u # t
    <3>1. stored'[u] = stored[u] /\ \A g \in Handlers : handler'[g].ticket = u => handler'[g] = handler[g]
      BY <1>1, <1>5, <1>6, <2>0, <2>1
    <3>. QED BY <1>2, <1>8, <3>1 DEF LinkInv, Exclusive, StoredOnce
  <2>2. CASE u = t
    <3>1. stored[t] = 0
      BY <1>2, <2>2 DEF LinkInv, StoredOnce
    <3>2. ticket[t] \notin {"unused", "ready"}
      BY <2>2 DEF LinkInv, Exclusive
    <3>3. stored'[t] = n
      BY <1>3, <1>6, <3>1
    <3>4. \A g \in Handlers : handler[g].ticket = t => g = h
      BY <2>2 DEF LinkInv, Exclusive
    <3>5. Exclusive(u)'
      BY <1>2, <1>8, <2>2, <3>2, <3>4 DEF Exclusive
    <3>6. StoredOnce(u)'
      BY <1>1, <1>3, <1>4, <1>5, <1>8, <2>2, <3>3, <3>4 DEF StoredOnce
    <3>. QED BY <3>5, <3>6
  <2>. QED BY <2>1, <2>2
<1>. QED BY <1>5, <1>7, <1>9 DEF LinkInv

LEMMA LinkFinish ==
  ASSUME LinkInv, NEW h \in Handlers, Links!Finish(h)
  PROVE  LinkInv'
<1>. DEFINE t == handler[h].ticket
<1>1. /\ handler' = [handler EXCEPT ![h] = Links!Idle] /\ handler[h].step = "finish" /\ UNCHANGED stored
      /\ \/ UNCHANGED ticket
         \/ ticket' = [ticket EXCEPT ![t] = Links!Finished(h)]
  BY DEF Links!Finish, Links!Returns
<1>2. t \in Links!Tickets /\ t # None
  BY <1>1 DEF LinkInv, LinkType, Ticketed, Handling
<1>3. CASE UNCHANGED ticket
  BY <1>1, <1>3, LinkReturns DEF Links!Returns
<1>4. CASE ticket' = [ticket EXCEPT ![t] = Links!Finished(h)]
  <2>1. Links!Finished(h) \in {"gone", "ready"} /\ (handler[h].ok /\ t \in Uploads => Links!Finished(h) = "gone")
    BY DEF Links!Finished
  <2>2. LinkType' /\ handler'[h] = Links!Idle /\ \A g \in Handlers \ {h} : handler'[g] = handler[g]
    BY <1>1, <1>2, <1>4, <2>1, IdleHandling DEF LinkInv, LinkType
  <2>3. Links!Idle.ticket = None /\ Links!Idle.step = "idle" /\ ~Links!Idle.head
    BY DEF Links!Idle
  <2>4. Ticketed'
    BY <2>2, <2>3 DEF LinkInv, Ticketed
  <2>5. ticket'[t] = Links!Finished(h) /\ \A u \in Links!Tickets \ {t} : ticket'[u] = ticket[u]
    BY <1>2, <1>4 DEF LinkInv, LinkType
  <2>6. ASSUME NEW u \in Uploads PROVE Exclusive(u)' /\ StoredOnce(u)'
    <3>0. u \in Links!Tickets /\ u # None
      BY LinksAssumption DEF Links!Tickets
    <3>1. \A g \in Handlers : handler'[g].ticket = u => g # h /\ handler'[g] = handler[g]
      BY <2>2, <2>3, <3>0
    <3>2. Exclusive(u) /\ StoredOnce(u)
      BY DEF LinkInv
    <3>3. StoredOnce(u)'
      BY <1>1, <3>1, <3>2 DEF StoredOnce
    <3>4. Exclusive(u)'
      <4>1. CASE u # t
        BY <1>1, <2>5, <3>0, <3>1, <3>2, <4>1 DEF Exclusive
      <4>2. CASE u = t
        <5>1. \A g \in Handlers : handler'[g].ticket # u
          BY <3>1, <3>2, <4>2 DEF Exclusive
        <5>2. stored[u] # 0 => handler[h].ok
          BY <3>2, <4>2 DEF StoredOnce
        <5>. QED BY <1>1, <2>1, <2>5, <4>2, <5>1, <5>2 DEF Exclusive
      <4>. QED BY <4>1, <4>2
    <3>. QED BY <3>3, <3>4
  <2>. QED BY <2>2, <2>4, <2>6 DEF LinkInv
<1>. QED BY <1>1, <1>3, <1>4

LEMMA LinkStarts == Links!Init => LinkInv
<1>. SUFFICES ASSUME Links!Init PROVE LinkInv
  OBVIOUS
<1>1. \A h \in Handlers : handler[h].step = "idle" /\ handler[h].ticket = None /\ ~handler[h].head
  BY DEF Links!Init, Links!Idle
<1>2. LinkType
  BY IdleHandling DEF Links!Init, LinkType
<1>3. \A t \in Uploads : t \in Links!Tickets /\ t # None /\ stored[t] = 0
  BY LinksAssumption DEF Links!Init, Links!Tickets
<1>. QED BY <1>1, <1>2, <1>3 DEF LinkInv, Ticketed, Exclusive, StoredOnce

LEMMA LinkNext == LinkInv /\ Links!Next => LinkInv'
<1>. SUFFICES ASSUME LinkInv, Links!Next PROVE LinkInv'
  OBVIOUS
<1>1. CASE (\E t \in Links!Tickets : Links!Issue(t)) \/ Links!TimePasses \/ Links!Clear \/ Links!Page
  BY <1>1, LinkStore DEF Links!Issue, Links!TimePasses, Links!Clear, Links!Page
<1>2. ASSUME NEW h \in Handlers, (\E ok \in BOOLEAN : Links!Streamed(h, ok)) \/ Links!Stop(h) PROVE LinkInv'
  BY <1>2, LinkStreamed DEF Links!Stop
<1>3. ASSUME NEW h \in Handlers, (\E t \in Downloads : Links!Head(h, t)) \/ (\E t \in Links!Tickets : Links!Begin(h, t))
      PROVE  LinkInv'
  BY <1>3, LinkHead, LinkBegin
<1>4. ASSUME NEW h \in Handlers, Links!Authorize(h) \/ Links!Connect(h) \/ Links!Info(h) \/ Links!Disconnect(h)
                                 \/ Links!ClientGone(h) \/ Links!Finish(h)
      PROVE  LinkInv'
  BY <1>4, LinkSteady, LinkFinish
<1>. QED BY <1>1, <1>2, <1>3, <1>4, Zenon DEF Links!Next

LEMMA LinkStutter == LinkInv /\ UNCHANGED linkVars => LinkInv'
BY DEF linkVars, LinkInv, LinkType, Ticketed, Exclusive, StoredOnce

LEMMA LinkTrue == LinkInv => Links!UploadOnce
BY DEF LinkInv, StoredOnce, Links!UploadOnce
-----------------------------------------------------------------------------
(* What messages bring: the concatenation of their units, which FlattenSeq  *)
(* computes by a recursive function.                                        *)

Less == {p \in Nat \X Nat : p[1] < p[2]}

\* Every set of numbers that is not empty has a least one.
LEMMA LeastNumber ==
  ASSUME NEW S \in SUBSET Nat, S # {}
  PROVE  \E n \in S : \A m \in S : n <= m
<1>1. Less = OpToRel(<, Nat)
  BY Zenon DEF Less, OpToRel
<1>2. IsWellFoundedOn(Less, Nat)
  BY <1>1, NatLessThanWellFounded, Zenon
<1>3. PICK n \in S : \A m \in S : ~(<<m, n>> \in Less)
  BY <1>2, WFMin, Zenon
<1>4. \A m \in S : m < n => <<m, n>> \in Less
  BY SMT DEF Less
<1>5. \A m \in S : ~(m < n)
  BY <1>3, <1>4, Zenon
<1>. QED BY <1>5, SMT

\* The concatenations of the first n sequences of s.
Runs(s, n, f) == f = [i \in 1..n |-> IF i = 1 THEN s[i] ELSE f[i - 1] \o s[i]]

LEMMA RunsExists ==
  ASSUME NEW s, NEW n \in Nat
  PROVE  \E f : Runs(s, n, f)
<1>. DEFINE Bad == {k \in Nat : ~\E f : Runs(s, k, f)}
<1>. SUFFICES ASSUME Bad # {} PROVE FALSE
  OBVIOUS
<1>1. PICK k \in Bad : \A j \in Bad : k <= j
  BY LeastNumber
<1>2. k # 0
  <2>. DEFINE f == [i \in {} |-> {}]
  <2>1. 1..0 = {}
    OBVIOUS
  <2>2. f = [i \in {} |-> IF i = 1 THEN s[i] ELSE f[i - 1] \o s[i]]
    OBVIOUS
  <2>. HIDE DEF f
  <2>3. Runs(s, 0, f)
    BY <2>1, <2>2, Zenon DEF Runs
  <2>. QED BY <2>3, Zenon
<1>3. PICK f : Runs(s, k - 1, f)
  BY <1>1, <1>2
<1>. DEFINE g == [i \in 1..k |-> IF i = 1 THEN s[i] ELSE f[i - 1] \o s[i]]
<1>4. \A i \in 1..k - 1 : f[i] = g[i]
  <2>1. \A i \in 1..k - 1 : i \in 1..k
    BY <1>1
  <2>2. \A i \in 1..k - 1 : f[i] = IF i = 1 THEN s[i] ELSE f[i - 1] \o s[i]
    BY <1>3, Zenon DEF Runs
  <2>. QED BY <2>1, <2>2
<1>5. g = [i \in 1..k |-> IF i = 1 THEN s[i] ELSE g[i - 1] \o s[i]]
  <2>1. \A i \in 1..k : i # 1 => i - 1 \in 1..k - 1
    BY <1>1
  <2>. QED BY <1>4, <2>1
<1>. HIDE DEF g
<1>. QED BY <1>1, <1>5 DEF Runs

LEMMA RunsStep ==
  ASSUME NEW s, NEW n \in Nat, NEW f, Runs(s, n, f), NEW i \in 1..n
  PROVE  f[i] = IF i = 1 THEN s[i] ELSE f[i - 1] \o s[i]
BY DEF Runs

LEMMA RunsOne ==
  ASSUME NEW s, NEW n \in Nat \ {0}, NEW f, Runs(s, n, f)
  PROVE  f[1] = s[1]
<1>1. 1 \in 1..n
  OBVIOUS
<1>. QED BY <1>1, Zenon DEF Runs

LEMMA RunsMore ==
  ASSUME NEW s, NEW k \in Nat, NEW i \in 1..k, NEW f, Runs(s, k + 1, f)
  PROVE  f[i + 1] = f[i] \o s[i + 1]
<1>1. \A j \in 1..k + 1 : f[j] = IF j = 1 THEN s[j] ELSE f[j - 1] \o s[j]
  BY Zenon DEF Runs
<1>2. ASSUME NEW j, j = i + 1 PROVE f[j] = f[i] \o s[j]
  <2>1. j \in 1..k + 1 /\ j # 1 /\ j - 1 = i
    BY <1>2
  <2>. QED BY <1>1, <2>1, Zenon
<1>. QED BY <1>2, Zenon

\* They depend on no later sequence.
LEMMA RunsAgree ==
  ASSUME NEW s, NEW t, NEW n \in Nat, NEW m \in Nat, n <= m, NEW f, NEW g, Runs(s, n, f), Runs(t, m, g),
         \A i \in 1..n : s[i] = t[i]
  PROVE  \A i \in 1..n : f[i] = g[i]
<1>. DEFINE Bad == {i \in 1..n : f[i] # g[i]}
<1>. SUFFICES ASSUME Bad # {} PROVE FALSE
  OBVIOUS
<1>0. Bad \in SUBSET Nat
  OBVIOUS
<1>1. PICK i \in Bad : \A j \in Bad : i <= j
  BY <1>0, LeastNumber
<1>2. i # 1 => f[i - 1] = g[i - 1]
  BY <1>1
<1>3. i \in 1..n /\ i \in 1..m
  OBVIOUS
<1>4. f[i] = (IF i = 1 THEN s[i] ELSE f[i - 1] \o s[i]) /\ g[i] = (IF i = 1 THEN t[i] ELSE g[i - 1] \o t[i])
  BY <1>3, RunsStep
<1>. QED BY <1>2, <1>3, <1>4

Brings(s, n, S) == \A i \in 1..n : s[i] \in Seq(S)

LEMMA RunsType ==
  ASSUME NEW S, NEW s, NEW n \in Nat, NEW f, Runs(s, n, f), Brings(s, n, S)
  PROVE  \A i \in 1..n : f[i] \in Seq(S)
<1>. DEFINE Bad == {i \in 1..n : f[i] \notin Seq(S)}
<1>. SUFFICES ASSUME Bad # {} PROVE FALSE
  OBVIOUS
<1>0. Bad \in SUBSET Nat
  OBVIOUS
<1>1. PICK i \in Bad : \A j \in Bad : i <= j
  BY <1>0, LeastNumber
<1>2. i # 1 => f[i - 1] \in Seq(S)
  BY <1>1
<1>3. f[i] = IF i = 1 THEN s[i] ELSE f[i - 1] \o s[i]
  BY RunsStep
<1>4. s[i] \in Seq(S) /\ f[i] \notin Seq(S)
  BY DEF Brings
<1>5. i # 1 => f[i - 1] \o s[i] \in Seq(S)
  BY <1>2, <1>4, ConcatProperties
<1>. QED BY <1>3, <1>4, <1>5

\* Without the first sequence each is what follows it.
Shifted(s, t, k) == \A i \in 1..k : t[i] = s[i + 1]
Follows(s, f, g, i) == f[i + 1] = s[1] \o g[i]

LEMMA RunsFirst ==
  ASSUME NEW S, NEW s, NEW t, NEW k \in Nat, NEW f, NEW g, Runs(s, k + 1, f), Runs(t, k, g),
         Brings(s, k + 1, S), Shifted(s, t, k)
  PROVE  \A i \in 1..k : Follows(s, f, g, i)
<1>. DEFINE Bad == {i \in 1..k : ~Follows(s, f, g, i)}
<1>. SUFFICES ASSUME Bad # {} PROVE FALSE
  OBVIOUS
<1>0. Bad \in SUBSET Nat
  OBVIOUS
<1>1. PICK i \in Bad : \A j \in Bad : i <= j
  BY <1>0, LeastNumber
<1>2. i \in 1..k /\ ~Follows(s, f, g, i)
  BY <1>1
<1>3. i - 1 \in 1..k => Follows(s, f, g, i - 1)
  BY <1>1, <1>2
<1>. HIDE DEF Bad
<1>4. k + 1 \in Nat /\ i + 1 \in 1..k + 1 /\ 1 \in 1..k + 1 /\ i + 1 # 1 /\ i + 1 - 1 = i /\ i - 1 + 1 = i
  BY <1>2
<1>5. f[1] = s[1]
  BY RunsOne
<1>6. f[i + 1] = f[i] \o s[i + 1]
  BY <1>2, RunsMore
<1>7. g[i] = IF i = 1 THEN s[i + 1] ELSE g[i - 1] \o s[i + 1]
  BY <1>2, Zenon DEF Runs, Shifted
<1>8. CASE i = 1
  <2>1. f[i + 1] = s[1] \o s[i + 1] /\ g[i] = s[i + 1]
    BY <1>5, <1>6, <1>7, <1>8, Zenon
  <2>. QED BY <1>2, <2>1, Zenon DEF Follows
<1>9. CASE i # 1
  <2>1. i - 1 \in 1..k
    BY <1>2, <1>9
  <2>2. s[1] \in Seq(S) /\ s[i + 1] \in Seq(S)
    BY <1>4 DEF Brings
  <2>3. Brings(t, k, S)
    BY DEF Brings, Shifted
  <2>4. g[i - 1] \in Seq(S)
    BY <2>1, <2>3, RunsType
  <2>5. f[i] = s[1] \o g[i - 1]
    BY <1>3, <1>4, <2>1, Zenon DEF Follows
  <2>6. f[i + 1] = s[1] \o (g[i - 1] \o s[i + 1])
    <3>1. \A u, v, w \in Seq(S) : (u \o v) \o w = u \o (v \o w)
      BY ConcatAssociative
    <3>2. (s[1] \o g[i - 1]) \o s[i + 1] = s[1] \o (g[i - 1] \o s[i + 1])
      BY <2>2, <2>4, <3>1, Zenon
    <3>. QED BY <1>6, <2>5, <3>2, Zenon
  <2>7. g[i] = g[i - 1] \o s[i + 1]
    BY <1>7, <1>9, Zenon
  <2>. QED BY <1>2, <2>6, <2>7, Zenon DEF Follows
<1>. QED BY <1>8, <1>9

LEMMA FlattenIs ==
  ASSUME NEW s, NEW n \in Nat \ {0}, Len(s) = n, NEW f, Runs(s, n, f)
  PROVE  Channel!FlattenSeq(s) = f[n]
<1>. DEFINE g == CHOOSE h : h = [i \in 1..Len(s) |-> IF i = 1 THEN s[i] ELSE h[i - 1] \o s[i]]
<1>1. Runs(s, n, g)
  BY Zenon DEF Runs
<1>2. Channel!FlattenSeq(s) = g[n]
  BY DEF Channel!FlattenSeq
<1>. HIDE DEF g
<1>3. g[n] = f[n]
  BY <1>1, RunsAgree
<1>. QED BY <1>2, <1>3

Types == {"success", "failure", "data", "extended", "exit", "close"}
Messages == [type : Types, units : Seq(Nat)]

Part(m, type) == IF m.type = type THEN m.units ELSE <<>>
Parts(q, type) == [i \in DOMAIN q |-> Part(q[i], type)]
Of(q, type) == Channel!FlattenSeq(Parts(q, type))

LEMMA ArrivedIs == \A q : Channel!Arrived(q) = Of(q, "data")
BY Zenon DEF Channel!Arrived, Of, Parts, Part

LEMMA PartType == \A m \in Messages : \A type : Part(m, type) \in Seq(Nat)
<1>1. \A m \in Messages : m.units \in Seq(Nat)
  BY Zenon DEF Messages
<1>2. <<>> \in Seq(Nat)
  BY EmptySeq
<1>. QED BY <1>1, <1>2, Zenon DEF Part

LEMMA PartsAre ==
  ASSUME NEW q \in Seq(Messages), NEW type
  PROVE  /\ Len(Parts(q, type)) = Len(q) /\ Brings(Parts(q, type), Len(q), Nat)
         /\ \A i \in 1..Len(q) : Parts(q, type)[i] = Part(q[i], type)
<1>1. DOMAIN q = 1..Len(q) /\ Len(q) \in Nat /\ \A i \in 1..Len(q) : q[i] \in Messages
  OBVIOUS
<1>2. Parts(q, type) = [i \in 1..Len(q) |-> Part(q[i], type)]
  BY <1>1, Zenon DEF Parts
<1>3. \A i \in 1..Len(q) : Part(q[i], type) \in Seq(Nat)
  BY <1>1, PartType, Zenon
<1>4. \A i \in 1..Len(q) : Parts(q, type)[i] = Part(q[i], type)
  BY <1>2, Zenon
<1>5. Len(Parts(q, type)) = Len(q)
  <2>. DEFINE p(i) == Part(q[i], type)
  <2>. HIDE DEF p
  <2>1. Len([i \in 1..Len(q) |-> p(i)]) = Len(q)
    BY <1>1
  <2>. QED BY <1>2, <2>1 DEF p
<1>. QED BY <1>3, <1>4, <1>5, Zenon DEF Brings

LEMMA OfEmpty == \A type : Of(<<>>, type) = <<>>
<1>. SUFFICES ASSUME NEW type PROVE Of(<<>>, type) = <<>>
  OBVIOUS
<1>1. Parts(<<>>, type) = <<>>
  BY DEF Parts
<1>. QED BY <1>1 DEF Of, Channel!FlattenSeq

\* What a sequence of messages brings is the last of the concatenations.
LEMMA OfIs ==
  ASSUME NEW q \in Seq(Messages), NEW type, q # <<>>
  PROVE  \E f : /\ Runs(Parts(q, type), Len(q), f) /\ Of(q, type) = f[Len(q)]
                /\ \A i \in 1..Len(q) : f[i] \in Seq(Nat)
<1>1. Len(q) \in Nat \ {0}
  BY EmptySeq
<1>2. PICK f : Runs(Parts(q, type), Len(q), f)
  BY <1>1, RunsExists
<1>3. Of(q, type) = f[Len(q)]
  BY <1>1, <1>2, PartsAre, FlattenIs DEF Of
<1>4. \A i \in 1..Len(q) : f[i] \in Seq(Nat)
  BY <1>1, <1>2, PartsAre, RunsType
<1>. QED BY <1>2, <1>3, <1>4

LEMMA OfType ==
  ASSUME NEW q \in Seq(Messages), NEW type
  PROVE  Of(q, type) \in Seq(Nat)
<1>1. CASE q = <<>>
  BY <1>1, OfEmpty, EmptySeq
<1>2. CASE q # <<>>
  <2>1. Len(q) \in 1..Len(q)
    BY <1>2
  <2>. QED BY <1>2, <2>1, OfIs
<1>. QED BY <1>1, <1>2

LEMMA OfAppend ==
  ASSUME NEW q \in Seq(Messages), NEW m \in Messages, NEW type
  PROVE  Of(Append(q, m), type) = Of(q, type) \o Part(m, type)
<1>. DEFINE r == Append(q, m)
<1>1. /\ r \in Seq(Messages) /\ r # <<>> /\ Len(r) = Len(q) + 1 /\ Len(q) \in Nat
      /\ \A i \in 1..Len(q) : r[i] = q[i]
      /\ r[Len(q) + 1] = m
  BY AppendProperties, LenProperties
<1>. HIDE DEF r
<1>2. PICK g : Runs(Parts(r, type), Len(q) + 1, g) /\ Of(r, type) = g[Len(q) + 1]
  BY <1>1, OfIs
<1>3. Part(m, type) \in Seq(Nat)
  BY PartType
<1>4. Parts(r, type)[Len(q) + 1] = Part(m, type)
  BY <1>1, PartsAre
<1>5. CASE q = <<>>
  <2>1. Len(q) = 0
    BY <1>5
  <2>2. g[1] = Parts(r, type)[1]
    BY <1>1, <1>2, RunsOne
  <2>3. Of(q, type) \o Part(m, type) = Part(m, type)
    BY <1>3, <1>5, OfEmpty, ConcatEmptySeq
  <2>. QED BY <1>2, <1>4, <2>1, <2>2, <2>3 DEF r
<1>6. CASE q # <<>>
  <2>1. Len(q) \in Nat \ {0}
    BY <1>6, EmptySeq
  <2>2. PICK f : Runs(Parts(q, type), Len(q), f) /\ Of(q, type) = f[Len(q)]
    BY <1>6, OfIs
  <2>3. \A i \in 1..Len(q) : Parts(q, type)[i] = Parts(r, type)[i]
    BY <1>1, PartsAre
  <2>4. f[Len(q)] = g[Len(q)]
    <3>1. Len(q) \in 1..Len(q) /\ Len(q) + 1 \in Nat /\ Len(q) <= Len(q) + 1 /\ Len(q) \in Nat
      BY <2>1
    <3>. QED BY <1>2, <2>2, <2>3, <3>1, RunsAgree
  <2>5. Len(q) \in 1..Len(q)
    BY <2>1
  <2>6. g[Len(q) + 1] = g[Len(q)] \o Part(m, type)
    <3>1. Runs(Parts(r, type), Len(q) + 1, g) /\ Len(q) \in Nat
      BY <1>1, <1>2
    <3>2. g[Len(q) + 1] = g[Len(q)] \o Parts(r, type)[Len(q) + 1]
      BY <2>5, <3>1, RunsMore
    <3>. QED BY <1>4, <3>2, Zenon
  <2>. QED BY <1>2, <2>2, <2>4, <2>6 DEF r
<1>. QED BY <1>5, <1>6

LEMMA OfFirst ==
  ASSUME NEW q \in Seq(Messages), q # <<>>, NEW type
  PROVE  Of(q, type) = Part(Head(q), type) \o Of(Tail(q), type)
<1>1. /\ Tail(q) \in Seq(Messages) /\ Head(q) = q[1] /\ Len(q) \in Nat \ {0} /\ Len(Tail(q)) = Len(q) - 1
      /\ \A i \in 1..Len(q) - 1 : Tail(q)[i] = q[i + 1]
  BY EmptySeq, HeadTailProperties
<1>. DEFINE k == Len(q) - 1
<1>2. k \in Nat /\ k + 1 = Len(q)
  BY <1>1
<1>3. PICK f : Runs(Parts(q, type), Len(q), f) /\ Of(q, type) = f[Len(q)]
  BY OfIs
<1>4. Parts(q, type)[1] = Part(Head(q), type)
  BY <1>1, PartsAre
<1>5. CASE Tail(q) = <<>>
  <2>1. Len(q) = 1
    <3>1. Len(Tail(q)) = 0
      BY <1>5, EmptySeq
    <3>2. Len(q) - 1 = 0 /\ Len(q) \in Nat
      BY <1>1, <3>1, Zenon
    <3>. QED BY <3>2
  <2>2. f[1] = Parts(q, type)[1]
    BY <1>1, <1>3, RunsOne
  <2>3. Part(Head(q), type) \o Of(Tail(q), type) = Part(Head(q), type)
    <3>1. Part(Head(q), type) \in Seq(Nat)
      BY PartType, HeadTailProperties
    <3>2. Of(Tail(q), type) = <<>>
      BY <1>5, OfEmpty, Zenon
    <3>. QED BY <3>1, <3>2, ConcatEmptySeq
  <2>. QED BY <1>3, <1>4, <2>1, <2>2, <2>3
<1>6. CASE Tail(q) # <<>>
  <2>1. PICK g : Runs(Parts(Tail(q), type), k, g) /\ Of(Tail(q), type) = g[k]
    BY <1>1, <1>6, OfIs
  <2>2. Brings(Parts(q, type), k + 1, Nat)
    BY <1>2, PartsAre
  <2>3. Shifted(Parts(q, type), Parts(Tail(q), type), k)
    <3>1. \A i \in 1..k : Parts(Tail(q), type)[i] = Part(Tail(q)[i], type)
      BY <1>1, PartsAre
    <3>2. \A i \in 1..k : Parts(q, type)[i + 1] = Part(q[i + 1], type)
      BY <1>2, PartsAre
    <3>. QED BY <1>1, <3>1, <3>2 DEF Shifted
  <2>4. k \in 1..k
    BY <1>1, <1>6, EmptySeq
  <2>. HIDE DEF k
  <2>5. Follows(Parts(q, type), f, g, k)
    BY <1>2, <1>3, <2>1, <2>2, <2>3, <2>4, RunsFirst
  <2>. QED BY <1>2, <1>3, <1>4, <2>1, <2>5, Zenon DEF Follows
<1>. QED BY <1>5, <1>6
-----------------------------------------------------------------------------
(* What a reader has seen, what is kept for it and what is on its way.       *)

\* The units of a message of the output, and of a sequence of messages.
Got(m) == Part(m, "data")
Brought(q) == Of(q, "data")

\* What an exit in the queue q tells: with what came before it all of u was seen.
Exits(seen, q, u) == \A i \in 1..Len(q) : q[i].type = "exit" => seen \o Brought(SubSeq(q, 1, i)) = u
HasExit(q) == \E i \in 1..Len(q) : q[i].type = "exit"

Flow(seen, p, n, u)  == Exits(seen, p, u) /\ Exits(seen \o Brought(p), n, u)
Whole(seen, p, n, u) == (seen \o Brought(p)) \o Brought(n) = u

Joins == \A s, t, v \in Seq(Nat) : (s \o t) \o v = s \o (t \o v)
Neutral == \A s \in Seq(Nat) : s \o <<>> = s /\ <<>> \o s = s
Closed == \A s, t \in Seq(Nat) : s \o t \in Seq(Nat)

LEMMA Sequences == Joins /\ Neutral /\ Closed /\ <<>> \in Seq(Nat)
<1>1. Joins
  <2>. DEFINE S == Nat
  <2>. HIDE DEF S
  <2>1. \A s, t, v \in Seq(S) : (s \o t) \o v = s \o (t \o v)
    BY ConcatAssociative
  <2>. QED BY <2>1, Zenon DEF Joins, S
<1>2. Neutral
  BY ConcatEmptySeq DEF Neutral
<1>3. Closed
  BY ConcatProperties DEF Closed
<1>. QED BY <1>1, <1>2, <1>3, EmptySeq

LEMMA Joined ==
  ASSUME NEW s \in Seq(Nat), NEW t \in Seq(Nat), NEW v \in Seq(Nat)
  PROVE  (s \o t) \o v = s \o (t \o v)
BY Sequences, Zenon DEF Joins

LEMMA JoinedUnits ==
  ASSUME NEW s \in Seq(Nat), NEW t \in Seq(Nat)
  PROVE  /\ s \o t \in Seq(Nat) /\ Len(s \o t) = Len(s) + Len(t)
         /\ \A i \in 1..Len(s) + Len(t) : (s \o t)[i] = IF i <= Len(s) THEN s[i] ELSE t[i - Len(s)]
<1>. DEFINE S == Nat
<1>. HIDE DEF S
<1>1. s \in Seq(S) /\ t \in Seq(S)
  BY DEF S
<1>2. /\ s \o t \in Seq(S) /\ Len(s \o t) = Len(s) + Len(t)
      /\ \A i \in 1..Len(s) + Len(t) : (s \o t)[i] = IF i <= Len(s) THEN s[i] ELSE t[i - Len(s)]
  BY <1>1, ConcatProperties
<1>. QED BY <1>2, Zenon DEF S

LEMMA BroughtFacts ==
  /\ Brought(<<>>) = <<>>
  /\ \A q \in Seq(Messages) : Brought(q) \in Seq(Nat)
  /\ \A q \in Seq(Messages), m \in Messages : Brought(Append(q, m)) = Brought(q) \o Got(m)
  /\ \A q \in Seq(Messages) : q # <<>> => Brought(q) = Got(Head(q)) \o Brought(Tail(q))
  /\ \A m \in Messages : Got(m) \in Seq(Nat) /\ (m.type # "data" => Got(m) = <<>>) /\ (m.type = "data" => Got(m) = m.units)
<1>1. Brought(<<>>) = <<>>
  BY OfEmpty DEF Brought
<1>2. \A q \in Seq(Messages) : Brought(q) \in Seq(Nat)
  BY OfType DEF Brought
<1>3. \A q \in Seq(Messages), m \in Messages : Brought(Append(q, m)) = Brought(q) \o Got(m)
  BY OfAppend DEF Brought, Got
<1>4. \A q \in Seq(Messages) : q # <<>> => Brought(q) = Got(Head(q)) \o Brought(Tail(q))
  BY OfFirst DEF Brought, Got
<1>5. \A m \in Messages : Got(m) \in Seq(Nat) /\ (m.type # "data" => Got(m) = <<>>) /\ (m.type = "data" => Got(m) = m.units)
  BY PartType, Zenon DEF Got, Part
<1>. QED BY <1>1, <1>2, <1>3, <1>4, <1>5

LEMMA ExitsTail ==
  ASSUME NEW seen \in Seq(Nat), NEW q \in Seq(Messages), NEW u, q # <<>>, Exits(seen, q, u)
  PROVE  Exits(seen \o Got(Head(q)), Tail(q), u)
<1>. SUFFICES ASSUME NEW i \in 1..Len(Tail(q)), Tail(q)[i].type = "exit"
              PROVE  (seen \o Got(Head(q))) \o Brought(SubSeq(Tail(q), 1, i)) = u
  BY DEF Exits
<1>1. /\ Len(q) \in Nat \ {0} /\ Len(Tail(q)) = Len(q) - 1 /\ Tail(q)[i] = q[i + 1] /\ Tail(q) \in Seq(Messages)
      /\ Head(q) \in Messages
  BY HeadTailProperties, EmptySeq
<1>. DEFINE r == SubSeq(q, 1, i + 1)
<1>2. i + 1 \in 1..Len(q) /\ 1 \in 1..Len(q) /\ i \in Nat \ {0}
  BY <1>1
<1>3. r \in Seq(Messages) /\ Len(r) = i + 1 /\ \A j \in 1..i + 1 : r[j] = q[j]
  BY <1>1, <1>2
<1>4. r # <<>> /\ Head(r) = Head(q)
  BY <1>1, <1>2, <1>3
<1>5. Tail(r) = SubSeq(Tail(q), 1, i)
  <2>1. Len(Tail(r)) = i /\ Tail(r) \in Seq(Messages) /\ \A j \in 1..i : Tail(r)[j] = q[j + 1]
    BY <1>2, <1>3, <1>4, HeadTailProperties
  <2>2. /\ SubSeq(Tail(q), 1, i) \in Seq(Messages) /\ Len(SubSeq(Tail(q), 1, i)) = i
        /\ \A j \in 1..i : SubSeq(Tail(q), 1, i)[j] = q[j + 1]
    BY <1>1, <1>2, HeadTailProperties
  <2>. HIDE DEF r
  <2>. QED BY <2>1, <2>2, SeqEqual
<1>6. seen \o Brought(r) = u
  BY <1>1, <1>2 DEF Exits
<1>. HIDE DEF r
<1>7. Brought(r) = Got(Head(q)) \o Brought(Tail(r)) /\ Tail(r) \in Seq(Messages)
  BY <1>3, <1>4, BroughtFacts, HeadTailProperties
<1>8. Got(Head(q)) \in Seq(Nat) /\ Brought(Tail(r)) \in Seq(Nat)
  BY <1>1, <1>7, BroughtFacts
<1>9. (seen \o Got(Head(q))) \o Brought(Tail(r)) = seen \o (Got(Head(q)) \o Brought(Tail(r)))
  BY <1>8, Sequences, Zenon DEF Joins
<1>. QED BY <1>5, <1>6, <1>7, <1>9, Zenon

LEMMA ExitsHead ==
  ASSUME NEW seen \in Seq(Nat), NEW q \in Seq(Messages), NEW u, q # <<>>, Exits(seen, q, u), Head(q).type = "exit"
  PROVE  seen = u
<1>1. Len(q) \in Nat \ {0} /\ Head(q) = q[1] /\ Head(q) \in Messages
  BY EmptySeq, HeadTailProperties
<1>2. 1 \in 1..Len(q)
  BY <1>1
<1>3. seen \o Brought(SubSeq(q, 1, 1)) = u
  BY <1>1, <1>2 DEF Exits
<1>4. SubSeq(q, 1, 1) = Append(<<>>, Head(q))
  <2>1. SubSeq(q, 1, 1) \in Seq(Messages) /\ Len(SubSeq(q, 1, 1)) = 1 /\ SubSeq(q, 1, 1)[1] = Head(q)
    BY <1>1, <1>2
  <2>2. /\ Append(<<>>, Head(q)) \in Seq(Messages) /\ Len(Append(<<>>, Head(q))) = 1
        /\ Append(<<>>, Head(q))[1] = Head(q)
    BY <1>1
  <2>3. \A i \in 1..1 : i = 1
    OBVIOUS
  <2>. QED BY <2>1, <2>2, <2>3, SeqEqual
<1>5. Brought(SubSeq(q, 1, 1)) = <<>> \o Got(Head(q)) /\ Got(Head(q)) = <<>>
  BY <1>1, <1>4, BroughtFacts, EmptySeq
<1>6. <<>> \o Got(Head(q)) = <<>>
  BY <1>5, Sequences, Zenon DEF Neutral
<1>7. seen \o <<>> = seen
  BY Sequences, Zenon DEF Neutral
<1>. QED BY <1>3, <1>5, <1>6, <1>7, Zenon

LEMMA ExitsCut ==
  ASSUME NEW seen, NEW q \in Seq(Messages), NEW u, NEW k \in 0..Len(q), Exits(seen, q, u)
  PROVE  Exits(seen, SubSeq(q, 1, k), u)
<1>. DEFINE r == SubSeq(q, 1, k)
<1>1. Len(r) = k /\ \A i \in 1..k : r[i] = q[i] /\ i \in 1..Len(q)
  OBVIOUS
<1>2. ASSUME NEW i \in 1..k PROVE SubSeq(r, 1, i) = SubSeq(q, 1, i)
  <2>1. i \in 1..Len(q) /\ i \in Nat /\ k \in Nat
    OBVIOUS
  <2>2. r \in Seq(Messages)
    OBVIOUS
  <2>3. /\ SubSeq(r, 1, i) \in Seq(Messages) /\ Len(SubSeq(r, 1, i)) = i
        /\ \A j \in 1..i : SubSeq(r, 1, i)[j] = q[j]
    BY <1>1, <2>1, <2>2
  <2>4. /\ SubSeq(q, 1, i) \in Seq(Messages) /\ Len(SubSeq(q, 1, i)) = i
        /\ \A j \in 1..i : SubSeq(q, 1, i)[j] = q[j]
    BY <2>1
  <2>. HIDE DEF r
  <2>. QED BY <2>3, <2>4, SeqEqual
<1>. HIDE DEF r
<1>3. Exits(seen, r, u)
  BY <1>1, <1>2 DEF Exits
<1>. QED BY <1>3 DEF r

LEMMA ExitsAppend ==
  ASSUME NEW seen \in Seq(Nat), NEW q \in Seq(Messages), NEW u, NEW m \in Messages, Exits(seen, q, u),
         m.type = "exit" => seen \o Brought(q) = u
  PROVE  Exits(seen, Append(q, m), u)
<1>. DEFINE r == Append(q, m)
<1>1. /\ r \in Seq(Messages) /\ Len(r) = Len(q) + 1 /\ Len(q) \in Nat /\ r[Len(q) + 1] = m
      /\ \A i \in 1..Len(q) : r[i] = q[i]
  BY AppendProperties
<1>2. Brought(r) = Brought(q) \o Got(m)
  BY BroughtFacts
<1>. HIDE DEF r
<1>3. ASSUME NEW i \in 1..Len(r), r[i].type = "exit" PROVE seen \o Brought(SubSeq(r, 1, i)) = u
  <2>1. CASE i = Len(q) + 1
    <3>1. SubSeq(r, 1, i) = r
      BY <1>1, <2>1, SubSeqFull
    <3>2. m.type = "exit"
      BY <1>1, <1>3, <2>1
    <3>3. Got(m) = <<>> /\ Brought(q) \in Seq(Nat)
      BY <3>2, BroughtFacts
    <3>4. Brought(q) \o <<>> = Brought(q)
      BY <3>3, Sequences, Zenon DEF Neutral
    <3>. QED BY <1>2, <3>1, <3>2, <3>3, <3>4, Zenon
  <2>2. CASE i # Len(q) + 1
    <3>1. i \in 1..Len(q)
      BY <1>1, <2>2
    <3>2. SubSeq(r, 1, i) = SubSeq(q, 1, i)
      <4>1. /\ SubSeq(r, 1, i) \in Seq(Messages) /\ Len(SubSeq(r, 1, i)) = i
            /\ \A j \in 1..i : SubSeq(r, 1, i)[j] = q[j]
        BY <1>1, <3>1
      <4>2. /\ SubSeq(q, 1, i) \in Seq(Messages) /\ Len(SubSeq(q, 1, i)) = i
            /\ \A j \in 1..i : SubSeq(q, 1, i)[j] = q[j]
        BY <3>1
      <4>. QED BY <4>1, <4>2, SeqEqual
    <3>. QED BY <1>1, <1>3, <3>1, <3>2 DEF Exits
  <2>. QED BY <2>1, <2>2
<1>4. Exits(seen, r, u)
  BY <1>3, Zenon DEF Exits
<1>. QED BY <1>4, Zenon DEF r

LEMMA NoExits ==
  ASSUME NEW seen, NEW q, NEW u, ~HasExit(q)
  PROVE  Exits(seen, q, u)
BY DEF HasExit, Exits

\* The other side sends what is no output.
LEMMA FlowSend ==
  ASSUME NEW s \in Seq(Nat), NEW p \in Seq(Messages), NEW n \in Seq(Messages), NEW u, NEW m \in Messages, m.type # "data"
  PROVE  /\ Whole(s, p, n, u) => Whole(s, p, Append(n, m), u)
         /\ Flow(s, p, n, u) /\ (m.type = "exit" => Whole(s, p, n, u)) => Flow(s, p, Append(n, m), u)
<1>1. Got(m) = <<>> /\ Brought(n) \in Seq(Nat) /\ Brought(p) \in Seq(Nat) /\ Brought(Append(n, m)) = Brought(n) \o Got(m)
  BY BroughtFacts
<1>2. Brought(Append(n, m)) = Brought(n)
  BY <1>1, Sequences, Zenon DEF Neutral
<1>3. s \o Brought(p) \in Seq(Nat)
  BY <1>1, Sequences, Zenon DEF Closed
<1>4. Flow(s, p, n, u) /\ (m.type = "exit" => Whole(s, p, n, u)) => Exits(s \o Brought(p), Append(n, m), u)
  BY <1>3, ExitsAppend DEF Flow, Whole
<1>. QED BY <1>2, <1>4, Zenon DEF Flow, Whole

\* A message that is kept for the reader.
LEMMA FlowKeep ==
  ASSUME NEW s \in Seq(Nat), NEW p \in Seq(Messages), NEW n \in Seq(Messages), NEW u, n # <<>>
  PROVE  /\ Whole(s, p, n, u) => Whole(s, Append(p, Head(n)), Tail(n), u)
         /\ Flow(s, p, n, u) => Flow(s, Append(p, Head(n)), Tail(n), u)
<1>. DEFINE m == Head(n)
            q == Append(p, m)
<1>1. m \in Messages /\ Tail(n) \in Seq(Messages) /\ q \in Seq(Messages)
  BY HeadTailProperties, AppendProperties
<1>2. Brought(q) = Brought(p) \o Got(m) /\ Brought(n) = Got(m) \o Brought(Tail(n))
  BY <1>1, BroughtFacts
<1>3. Got(m) \in Seq(Nat) /\ Brought(p) \in Seq(Nat) /\ Brought(Tail(n)) \in Seq(Nat) /\ s \o Brought(p) \in Seq(Nat)
  BY <1>1, BroughtFacts, Sequences DEF Closed
<1>4. s \o Brought(q) = (s \o Brought(p)) \o Got(m)
  <2>1. s \o (Brought(p) \o Got(m)) = (s \o Brought(p)) \o Got(m)
    BY <1>3, Joined
  <2>. QED BY <1>2, <2>1, Zenon
<1>5. ((s \o Brought(p)) \o Got(m)) \o Brought(Tail(n)) = (s \o Brought(p)) \o Brought(n)
  <2>1. ((s \o Brought(p)) \o Got(m)) \o Brought(Tail(n)) = (s \o Brought(p)) \o (Got(m) \o Brought(Tail(n)))
    BY <1>3, Joined, ZenonT(40)
  <2>. QED BY <1>2, <2>1, Zenon
<1>6. Flow(s, p, n, u) => Exits(s \o Brought(q), Tail(n), u)
  BY <1>3, <1>4, ExitsTail DEF Flow
<1>7. Flow(s, p, n, u) => Exits(s, q, u)
  <2>. SUFFICES ASSUME Flow(s, p, n, u), m.type = "exit" PROVE s \o Brought(p) = u
    BY <1>1, ExitsAppend DEF Flow
  <2>. QED BY <1>3, ExitsHead DEF Flow
<1>. QED BY <1>4, <1>5, <1>6, <1>7, Zenon DEF Flow, Whole

\* An answer that is taken away.
LEMMA FlowDrop ==
  ASSUME NEW s \in Seq(Nat), NEW p \in Seq(Messages), NEW n \in Seq(Messages), NEW u, n # <<>>, Head(n).type # "data"
  PROVE  /\ Whole(s, p, n, u) => Whole(s, p, Tail(n), u)
         /\ Flow(s, p, n, u) => Flow(s, p, Tail(n), u)
<1>1. Head(n) \in Messages /\ Tail(n) \in Seq(Messages)
  BY HeadTailProperties
<1>2. Got(Head(n)) = <<>> /\ Brought(Tail(n)) \in Seq(Nat) /\ Brought(p) \in Seq(Nat)
      /\ Brought(n) = Got(Head(n)) \o Brought(Tail(n))
  BY <1>1, BroughtFacts
<1>3. Brought(n) = Brought(Tail(n)) /\ s \o Brought(p) \in Seq(Nat)
  BY <1>2, Sequences, Zenon DEF Neutral, Closed
<1>4. (s \o Brought(p)) \o Got(Head(n)) = s \o Brought(p)
  BY <1>2, <1>3, Sequences, Zenon DEF Neutral
<1>5. Flow(s, p, n, u) => Exits(s \o Brought(p), Tail(n), u)
  BY <1>3, <1>4, ExitsTail DEF Flow
<1>. QED BY <1>3, <1>5, Zenon DEF Flow, Whole

\* The reader takes the first message, of those that were kept or of the network.
LEMMA FlowRead ==
  ASSUME NEW s \in Seq(Nat), NEW p \in Seq(Messages), NEW n \in Seq(Messages), NEW u
  PROVE  /\ p # <<>> => /\ Whole(s, p, n, u) => Whole(s \o Got(Head(p)), Tail(p), n, u)
                        /\ Flow(s, p, n, u) => Flow(s \o Got(Head(p)), Tail(p), n, u)
         /\ p = <<>> /\ n # <<>> => /\ Whole(s, p, n, u) => Whole(s \o Got(Head(n)), p, Tail(n), u)
                                    /\ Flow(s, p, n, u) => Flow(s \o Got(Head(n)), p, Tail(n), u)
<1>1. ASSUME p # <<>>
      PROVE  /\ Whole(s, p, n, u) => Whole(s \o Got(Head(p)), Tail(p), n, u)
             /\ Flow(s, p, n, u) => Flow(s \o Got(Head(p)), Tail(p), n, u)
  <2>1. Head(p) \in Messages /\ Tail(p) \in Seq(Messages)
    BY <1>1, HeadTailProperties
  <2>2. Got(Head(p)) \in Seq(Nat) /\ Brought(Tail(p)) \in Seq(Nat) /\ Brought(p) = Got(Head(p)) \o Brought(Tail(p))
    BY <1>1, <2>1, BroughtFacts
  <2>3. s \o Brought(p) = (s \o Got(Head(p))) \o Brought(Tail(p))
    <3>1. (s \o Got(Head(p))) \o Brought(Tail(p)) = s \o (Got(Head(p)) \o Brought(Tail(p)))
      BY <2>2, Joined
    <3>. QED BY <2>2, <3>1, Zenon
  <2>4. Flow(s, p, n, u) => Exits(s \o Got(Head(p)), Tail(p), u)
    BY <1>1, ExitsTail DEF Flow
  <2>. QED BY <2>3, <2>4, Zenon DEF Flow, Whole
<1>2. ASSUME p = <<>>, n # <<>>
      PROVE  /\ Whole(s, p, n, u) => Whole(s \o Got(Head(n)), p, Tail(n), u)
             /\ Flow(s, p, n, u) => Flow(s \o Got(Head(n)), p, Tail(n), u)
  <2>1. Head(n) \in Messages /\ Tail(n) \in Seq(Messages) /\ Brought(p) = <<>>
    BY <1>2, HeadTailProperties, BroughtFacts
  <2>2. Got(Head(n)) \in Seq(Nat) /\ Brought(Tail(n)) \in Seq(Nat) /\ Brought(n) = Got(Head(n)) \o Brought(Tail(n))
    BY <1>2, <2>1, BroughtFacts
  <2>3. s \o Got(Head(n)) \in Seq(Nat)
    BY <2>2, Sequences, Zenon DEF Closed
  <2>4. s \o Brought(p) = s /\ (s \o Got(Head(n))) \o Brought(p) = s \o Got(Head(n))
    BY <2>1, <2>3, Sequences, Zenon DEF Neutral
  <2>5. s \o Brought(n) = (s \o Got(Head(n))) \o Brought(Tail(n))
    <3>1. (s \o Got(Head(n))) \o Brought(Tail(n)) = s \o (Got(Head(n)) \o Brought(Tail(n)))
      BY <2>2, Joined
    <3>. QED BY <2>2, <3>1, Zenon
  <2>6. Flow(s, p, n, u) => Exits(s \o Got(Head(n)), Tail(n), u)
    BY <1>2, <2>4, ExitsTail DEF Flow
  <2>7. ~HasExit(p)
    BY <1>2 DEF HasExit
  <2>. QED BY <2>4, <2>5, <2>6, <2>7, NoExits, Zenon DEF Flow, Whole
<1>. QED BY <1>1, <1>2

\* The exit is read when everything before it was.
LEMMA FlowExit ==
  ASSUME NEW s \in Seq(Nat), NEW p \in Seq(Messages), NEW n \in Seq(Messages), NEW u, Flow(s, p, n, u),
         \/ p # <<>> /\ Head(p).type = "exit"
         \/ p = <<>> /\ n # <<>> /\ Head(n).type = "exit"
  PROVE  s = u
<1>1. CASE p # <<>> /\ Head(p).type = "exit"
  BY <1>1, ExitsHead DEF Flow
<1>2. CASE p = <<>> /\ n # <<>> /\ Head(n).type = "exit"
  <2>1. s \o Brought(p) = s
    BY <1>2, BroughtFacts, Sequences DEF Neutral
  <2>. QED BY <1>2, <2>1, ExitsHead DEF Flow
<1>. QED BY <1>1, <1>2

LEMMA FlowCut ==
  ASSUME NEW s, NEW p, NEW n \in Seq(Messages), NEW u, NEW k \in 0..Len(n), Flow(s, p, n, u)
  PROVE  Flow(s, p, SubSeq(n, 1, k), u)
BY ExitsCut DEF Flow

LEMMA FlowNoExit ==
  ASSUME NEW s, NEW p, NEW n, NEW u, ~HasExit(p), ~HasExit(n)
  PROVE  Flow(s, p, n, u)
BY NoExits DEF Flow

\* What is printed later follows what was printed.
LEMMA UnitsJoin ==
  ASSUME NEW o \in Nat, NEW k \in Nat
  PROVE  /\ Channel!Units(0, o) \in Seq(Nat) /\ Channel!Units(o, k) \in Seq(Nat) /\ Len(Channel!Units(o, k)) = k
         /\ Channel!Units(0, o) \o Channel!Units(o, k) = Channel!Units(0, o + k)
<1>. DEFINE a == Channel!Units(0, o)
            b == Channel!Units(o, k)
            c == Channel!Units(0, o + k)
<1>1. a = [i \in 1..o |-> i] /\ b = [i \in 1..k |-> o + i] /\ c = [i \in 1..o + k |-> i]
  BY DEF Channel!Units
<1>2. /\ a \in Seq(Nat) /\ Len(a) = o /\ \A i \in 1..o : a[i] = i
      /\ b \in Seq(Nat) /\ Len(b) = k /\ \A i \in 1..k : b[i] = o + i
      /\ c \in Seq(Nat) /\ Len(c) = o + k /\ \A i \in 1..o + k : c[i] = i
  BY <1>1
<1>. HIDE DEF a, b, c
<1>3. /\ a \o b \in Seq(Nat) /\ Len(a \o b) = o + k
      /\ \A i \in 1..o + k : (a \o b)[i] = IF i <= o THEN a[i] ELSE b[i - o]
  BY <1>2, JoinedUnits, ZenonT(40)
<1>4. \A i \in 1..o + k : (a \o b)[i] = c[i]
  <2>. SUFFICES ASSUME NEW i \in 1..o + k PROVE (a \o b)[i] = i
    BY <1>2
  <2>1. CASE i <= o
    BY <1>2, <1>3, <2>1
  <2>2. CASE ~(i <= o)
    <3>1. i - o \in 1..k
      BY <2>2
    <3>. QED BY <1>2, <1>3, <2>2, <3>1
  <2>. QED BY <2>1, <2>2
<1>5. a \o b = c
  BY <1>2, <1>3, <1>4, SeqEqual
<1>. QED BY <1>2, <1>5 DEF a, b, c

LEMMA FlowPrint ==
  ASSUME NEW s \in Seq(Nat), NEW p \in Seq(Messages), NEW n \in Seq(Messages), NEW o \in Nat, NEW k \in Nat,
         NEW m \in Messages, m.type = "data", m.units = Channel!Units(o, k), Whole(s, p, n, Channel!Units(0, o))
  PROVE  Whole(s, p, Append(n, m), Channel!Units(0, o + k))
<1>1. Got(m) = Channel!Units(o, k) /\ Got(m) \in Seq(Nat) /\ Brought(Append(n, m)) = Brought(n) \o Got(m)
      /\ Brought(n) \in Seq(Nat) /\ Brought(p) \in Seq(Nat)
  BY BroughtFacts
<1>2. s \o Brought(p) \in Seq(Nat)
  BY <1>1, Sequences, Zenon DEF Closed
<1>3. (s \o Brought(p)) \o (Brought(n) \o Got(m)) = ((s \o Brought(p)) \o Brought(n)) \o Got(m)
  BY <1>1, <1>2, Sequences, ZenonT(40) DEF Joins
<1>4. Channel!Units(0, o) \o Channel!Units(o, k) = Channel!Units(0, o + k)
  BY UnitsJoin
<1>. QED BY <1>1, <1>3, <1>4, Zenon DEF Whole
-----------------------------------------------------------------------------
(* A channel: what it has shown and what is still to come.                   *)

Reading == {"pty", "shell", "sftp", "runs"}
Seen == shown \o batch
Printed == Channel!Units(0, output)
Count(s, q, type) == Len(s) + Len(Of(q, type))
NoExtended(q) == \A i \in 1..Len(q) : q[i].type # "extended"

ChannelType ==
  /\ kind \in {"none", "terminal", "sample", "command"} /\ linked \in BOOLEAN /\ truncated \in BOOLEAN
  /\ output \in Nat /\ erred \in Nat /\ network \in Seq(Messages) /\ pending \in Seq(Messages)
  /\ batch \in Seq(Nat) /\ shown \in Seq(Nat) /\ errors \in Seq(Nat)

\* A channel that was not opened brought nothing; the steps of the others.
Unopened ==
  /\ network = <<>> /\ pending = <<>> /\ batch = <<>> /\ shown = <<>> /\ errors = <<>> /\ ~truncated
  /\ output = 0 /\ erred = 0 /\ cause = "none" /\ ~kept

Stepping ==
  /\ kind = "none" <=> step = "none"
  /\ step = "none" => Unopened
  /\ kind = "terminal" => step \in Reading \cup {"ended", "over", "failed"}
  /\ kind \in {"sample", "command"} => step \in {"collect", "closing", "over"} /\ pending = <<>>
  /\ cause # "none" => step \in {"ended", "over"}
  /\ step = "pty" => server \in {"pty", "idle"}

\* Nothing comes after an exit, and nothing of a second stream from a terminal.
Exited == HasExit(pending) \/ HasExit(network) => server = "exited"
OneStream == kind = "terminal" => NoExtended(pending) /\ NoExtended(network)

\* What a terminal printed is seen, kept or on its way, and all of it before the exit.
TerminalKept ==
  kind = "terminal" /\ step \in Reading =>
    /\ Flow(Seen, pending, network, Printed)
    /\ linked => Whole(Seen, pending, network, Printed)

Told == cause = "exit" => server = "exited" /\ shown = Printed

\* An agent has, or will get, what its command printed, unless something was cut.
CommandKept ==
  kind = "command" /\ linked =>
    /\ Count(shown, network, "data") <= output /\ Count(errors, network, "extended") <= erred
    /\ truncated <=> Count(shown, network, "data") < output \/ Count(errors, network, "extended") < erred

ChannelInv == ChannelType /\ Stepping /\ Exited /\ OneStream /\ TerminalKept /\ Told /\ CommandKept

-----------------------------------------------------------------------------
LEMMA QueueFacts ==
  ASSUME NEW q \in Seq(Messages)
  PROVE  /\ q # <<>> => /\ Head(q) \in Messages /\ Tail(q) \in Seq(Messages)
                        /\ HasExit(Tail(q)) \/ Head(q).type = "exit" => HasExit(q)
                        /\ NoExtended(q) => NoExtended(Tail(q)) /\ Head(q).type # "extended"
         /\ \A m \in Messages : /\ Append(q, m) \in Seq(Messages)
                                /\ HasExit(Append(q, m)) => HasExit(q) \/ m.type = "exit"
                                /\ NoExtended(q) /\ m.type # "extended" => NoExtended(Append(q, m))
         /\ \A k \in 0..Len(q) : /\ SubSeq(q, 1, k) \in Seq(Messages)
                                 /\ HasExit(SubSeq(q, 1, k)) => HasExit(q)
                                 /\ NoExtended(q) => NoExtended(SubSeq(q, 1, k))
<1>1. ASSUME q # <<>>
      PROVE  /\ Head(q) \in Messages /\ Tail(q) \in Seq(Messages)
             /\ HasExit(Tail(q)) \/ Head(q).type = "exit" => HasExit(q)
             /\ NoExtended(q) => NoExtended(Tail(q)) /\ Head(q).type # "extended"
  <2>1. /\ Head(q) \in Messages /\ Tail(q) \in Seq(Messages) /\ Head(q) = q[1] /\ Len(q) \in Nat \ {0}
        /\ \A i \in 1..Len(Tail(q)) : Tail(q)[i] = q[i + 1] /\ i + 1 \in 1..Len(q)
    BY <1>1, HeadTailProperties, EmptySeq
  <2>2. 1 \in 1..Len(q)
    BY <2>1
  <2>. QED BY <2>1, <2>2 DEF HasExit, NoExtended
<1>2. ASSUME NEW m \in Messages
      PROVE  /\ Append(q, m) \in Seq(Messages)
             /\ HasExit(Append(q, m)) => HasExit(q) \/ m.type = "exit"
             /\ NoExtended(q) /\ m.type # "extended" => NoExtended(Append(q, m))
  <2>1. /\ Append(q, m) \in Seq(Messages)
        /\ \A i \in 1..Len(Append(q, m)) : IF i \in 1..Len(q) THEN Append(q, m)[i] = q[i] ELSE Append(q, m)[i] = m
    BY AppendProperties
  <2>. QED BY <2>1 DEF HasExit, NoExtended
<1>3. ASSUME NEW k \in 0..Len(q)
      PROVE  /\ SubSeq(q, 1, k) \in Seq(Messages)
             /\ HasExit(SubSeq(q, 1, k)) => HasExit(q)
             /\ NoExtended(q) => NoExtended(SubSeq(q, 1, k))
  <2>1. /\ SubSeq(q, 1, k) \in Seq(Messages)
        /\ \A i \in 1..Len(SubSeq(q, 1, k)) : SubSeq(q, 1, k)[i] = q[i] /\ i \in 1..Len(q)
    OBVIOUS
  <2>. QED BY <2>1 DEF HasExit, NoExtended
<1>. QED BY <1>1, <1>2, <1>3

LEMMA SeenType == ChannelType => Seen \in Seq(Nat) /\ Printed \in Seq(Nat)
BY JoinedUnits, UnitsJoin DEF ChannelType, Seen, Printed

LEMMA ChannelInit == Channel!Init => ChannelInv
<1>. SUFFICES ASSUME Channel!Init PROVE ChannelInv
  OBVIOUS
<1>1. /\ kind = "none" /\ step = "none" /\ cause = "none" /\ output = 0 /\ erred = 0 /\ network = <<>> /\ linked = TRUE
      /\ kept = FALSE /\ pending = <<>> /\ batch = <<>> /\ shown = <<>> /\ errors = <<>> /\ truncated = FALSE
  BY DEF Channel!Init
<1>2. ~HasExit(<<>>)
  BY DEF HasExit
<1>3. ChannelType
  BY <1>1, EmptySeq DEF ChannelType
<1>4. Stepping
  BY <1>1 DEF Stepping, Unopened
<1>5. Exited
  BY <1>1, <1>2, Zenon DEF Exited
<1>6. OneStream /\ TerminalKept /\ Told /\ CommandKept
  BY <1>1 DEF OneStream, TerminalKept, Told, CommandKept
<1>. QED BY <1>3, <1>4, <1>5, <1>6 DEF ChannelInv

\* A step of the client that takes no message, or of its caller.
LEMMA ChannelMoves ==
  ASSUME ChannelInv, UNCHANGED <<kind, server, output, erred, network, pending, batch, shown, errors, truncated>>,
         linked' \in BOOLEAN, linked' => linked, ~kept => ~kept',
         \/ UNCHANGED <<step, cause>>
         \/ /\ step # "none" /\ step' # "none" /\ step' # "pty" /\ (step' \in Reading => step \in Reading)
            /\ kind = "terminal" => step' \in Reading \cup {"ended", "over", "failed"}
            /\ kind \in {"sample", "command"} => step' \in {"collect", "closing", "over"}
            /\ cause' # "none" => step' \in {"ended", "over"}
            /\ cause' = "exit" => cause = "exit"
  PROVE  ChannelInv'
<1>1. ChannelType' /\ Exited' /\ OneStream'
  BY DEF ChannelInv, ChannelType, Exited, OneStream
<1>2. Stepping'
  <2>1. Unopened => cause = "none" /\ (cause' = cause => Unopened')
    BY DEF Unopened
  <2>2. CASE UNCHANGED <<step, cause>>
    BY <2>1, <2>2 DEF ChannelInv, Stepping
  <2>3. CASE ~UNCHANGED <<step, cause>>
    BY <2>3 DEF ChannelInv, Stepping
  <2>. QED BY <2>2, <2>3
<1>3. Seen' = Seen /\ Printed' = Printed
  <2>1. shown' = shown /\ batch' = batch /\ output' = output
    OBVIOUS
  <2>. QED BY <2>1, Zenon DEF Seen, Printed
<1>4. (step' \in Reading => step \in Reading) /\ (cause' = "exit" => cause = "exit")
  BY Zenon
<1>5. kind' = kind /\ server' = server /\ pending' = pending /\ network' = network /\ shown' = shown
  OBVIOUS
<1>7. TerminalKept'
  BY <1>3, <1>4, <1>5, Zenon DEF ChannelInv, TerminalKept
<1>8. Told'
  BY <1>3, <1>4, <1>5, Zenon DEF ChannelInv, Told
<1>6. CommandKept'
  BY <1>3 DEF ChannelInv, CommandKept
<1>. QED BY <1>1, <1>2, <1>6, <1>7, <1>8 DEF ChannelInv

LEMMA KindOf ==
  ASSUME ChannelInv
  PROVE  /\ step \in Reading \cup {"ended", "failed"} => kind = "terminal"
         /\ step \in {"collect", "closing"} => kind \in {"sample", "command"}
         /\ step \in Reading \cup {"failed", "collect", "closing"} => cause = "none"
         /\ linked \in BOOLEAN
BY DEF ChannelInv, ChannelType, Stepping, Reading

LEMMA OnlyFalls ==
  ASSUME ChannelInv, linked' = linked \/ linked' = FALSE, kept' = kept \/ kept' = FALSE
  PROVE  linked' \in BOOLEAN /\ (linked' => linked) /\ (~kept => ~kept')
<1>1. linked \in BOOLEAN
  BY KindOf
<1>2. linked' \in BOOLEAN
  BY <1>1
<1>3. ASSUME linked' PROVE linked
  BY <1>3
<1>4. ASSUME ~kept PROVE ~kept'
  BY <1>4
<1>. QED BY <1>2, <1>3, <1>4

LEMMA ChannelBeside ==
  ASSUME ChannelInv, Channel!ReadsInput \/ Channel!LoseWindow \/ Channel!Type \/ Channel!Disconnect
                     \/ Channel!SendClose \/ Channel!DisconnectHandle
  PROVE  ChannelInv'
<1>1. /\ UNCHANGED <<kind, server, output, erred, network, pending, batch, shown, errors, truncated>>
      /\ UNCHANGED <<step, cause>>
  BY DEF Channel!ReadsInput, Channel!LoseWindow, Channel!Type, Channel!Disconnect, Channel!SendClose, Channel!DisconnectHandle,
         Channel!reader, Channel!command, Channel!outside, Channel!transport
<1>2. linked' = linked \/ linked' = FALSE
  BY DEF Channel!ReadsInput, Channel!LoseWindow, Channel!Type, Channel!Disconnect, Channel!SendClose, Channel!DisconnectHandle,
         Channel!transport
<1>3. kept' = kept \/ kept' = FALSE
  BY DEF Channel!ReadsInput, Channel!LoseWindow, Channel!Type, Channel!Disconnect, Channel!SendClose, Channel!DisconnectHandle,
         Channel!transport
<1>4. linked' \in BOOLEAN /\ (linked' => linked) /\ (~kept => ~kept')
  BY <1>2, <1>3, OnlyFalls
<1>. QED BY <1>1, <1>4, ChannelMoves

LEMMA ChannelEnds ==
  ASSUME ChannelInv, Channel!Take \/ Channel!Write
  PROVE  ChannelInv'
<1>1. /\ UNCHANGED <<kind, server, output, erred, network, pending, batch, shown, errors, truncated>>
      /\ step = "runs" /\ UNCHANGED linked
      /\ \/ UNCHANGED <<step, cause>>
         \/ step' = "ended" /\ cause' \in {"closed", "error"}
  BY DEF Channel!Take, Channel!Write, Channel!End, Channel!Stay,
         Channel!reader, Channel!command, Channel!outside, Channel!transport
<1>2. kept' = kept \/ kept' = FALSE
  BY DEF Channel!Take, Channel!Write, Channel!transport
<1>3. linked' \in BOOLEAN /\ (linked' => linked) /\ (~kept => ~kept')
  BY <1>1, <1>2, OnlyFalls
<1>4. kind = "terminal" /\ step \in Reading
  BY <1>1, KindOf DEF Reading
<1>5. step' = "ended" => step' \notin Reading /\ step' # "pty"
  BY DEF Reading
<1>. QED BY <1>1, <1>3, <1>4, <1>5, ChannelMoves

LEMMA ChannelGoesOn ==
  ASSUME ChannelInv, Channel!Unanswered \/ Channel!Register \/ Channel!Drop \/ Channel!Finish
                     \/ Channel!GiveUp \/ Channel!CloseSample
  PROVE  ChannelInv'
<1>1. /\ UNCHANGED <<kind, server, output, erred, network, pending, batch, shown, errors, truncated, cause>>
      /\ \/ step \in Reading /\ step' = "failed"
         \/ step \in Reading /\ step' = "runs"
         \/ step \in {"failed", "ended"} /\ step' = "over"
         \/ step \in {"collect", "closing"} /\ step' \in {"closing", "over"}
  BY DEF Channel!Unanswered, Channel!Register, Channel!Drop, Channel!Finish, Channel!GiveUp, Channel!CloseSample,
         Channel!reader, Channel!command, Channel!outside, Channel!transport, Reading
<1>2. linked' = linked \/ linked' = FALSE
  BY DEF Channel!Unanswered, Channel!Register, Channel!Drop, Channel!Finish, Channel!GiveUp, Channel!CloseSample,
         Channel!transport
<1>3. kept' = kept \/ kept' = FALSE
  BY DEF Channel!Unanswered, Channel!Register, Channel!Drop, Channel!Finish, Channel!GiveUp, Channel!CloseSample,
         Channel!transport
<1>4. linked' \in BOOLEAN /\ (linked' => linked) /\ (~kept => ~kept')
  BY <1>2, <1>3, OnlyFalls
<1>5. /\ step # "none" /\ step' # "none" /\ step' # "pty" /\ (step' \in Reading => step \in Reading)
      /\ kind = "terminal" => step' \in Reading \cup {"ended", "over", "failed"}
      /\ kind \in {"sample", "command"} => step' \in {"collect", "closing", "over"}
      /\ cause' # "none" => step' \in {"ended", "over"}
  BY <1>1, KindOf DEF Reading
<1>. QED BY <1>1, <1>4, <1>5, ChannelMoves

LEMMA ChannelOpen ==
  ASSUME ChannelInv, NEW k \in {"terminal", "sample", "command"}, Channel!Open(k)
  PROVE  ChannelInv'
<1>1. /\ kind' = k /\ UNCHANGED <<cause, output, erred, network, linked, pending, batch, shown, errors, truncated>>
      /\ step = "none"
      /\ IF k = "terminal" THEN step' = "pty" /\ server' = "pty" ELSE step' = "collect" /\ server' = "runs"
  BY DEF Channel!Open, Channel!reader, Channel!command
<1>2. /\ network = <<>> /\ pending = <<>> /\ batch = <<>> /\ shown = <<>> /\ errors = <<>> /\ ~truncated
      /\ output = 0 /\ erred = 0 /\ cause = "none"
  BY <1>1 DEF ChannelInv, Stepping, Unopened
<1>3. /\ network' = <<>> /\ pending' = <<>> /\ batch' = <<>> /\ shown' = <<>> /\ errors' = <<>> /\ ~truncated'
      /\ output' = 0 /\ erred' = 0 /\ cause' = "none"
  BY <1>1, <1>2
<1>4. ~HasExit(<<>>) /\ NoExtended(<<>>)
  BY DEF HasExit, NoExtended
<1>5. ChannelType'
  BY <1>1, <1>3 DEF ChannelInv, ChannelType
<1>6. Stepping'
  BY <1>1, <1>3 DEF Stepping, Reading
<1>7. Exited' /\ OneStream' /\ Told'
  BY <1>3, <1>4 DEF Exited, OneStream, Told
<1>8. TerminalKept'
  <2>1. Channel!Units(0, 0) = <<>>
    BY DEF Channel!Units
  <2>2. <<>> \o <<>> = <<>> /\ Brought(<<>>) = <<>>
    BY BroughtFacts
  <2>3. Whole(<<>>, <<>>, <<>>, <<>>)
    BY <2>2, Zenon DEF Whole
  <2>4. Flow(<<>>, <<>>, <<>>, <<>>)
    BY <1>4, FlowNoExit
  <2>5. Seen' = <<>> /\ Printed' = <<>>
    BY <1>3, <2>1, <2>2 DEF Seen, Printed
  <2>. QED BY <1>3, <2>3, <2>4, <2>5, Zenon DEF TerminalKept
<1>9. CommandKept'
  <2>1. Count(<<>>, <<>>, "data") = 0 /\ Count(<<>>, <<>>, "extended") = 0
    BY OfEmpty, EmptySeq DEF Count
  <2>. QED BY <1>3, <2>1 DEF CommandKept
<1>. QED BY <1>5, <1>6, <1>7, <1>8, <1>9 DEF ChannelInv

\* What a message of the other side adds to what an agent will get.
LEMMA CountAppend ==
  ASSUME NEW s \in Seq(Nat), NEW q \in Seq(Messages), NEW m \in Messages, NEW type
  PROVE  /\ Count(s, q, type) \in Nat /\ Len(Part(m, type)) \in Nat
         /\ Count(s, Append(q, m), type) = Count(s, q, type) + Len(Part(m, type))
<1>1. /\ Of(q, type) \in Seq(Nat) /\ Part(m, type) \in Seq(Nat)
      /\ Of(Append(q, m), type) = Of(q, type) \o Part(m, type)
  BY OfAppend, OfType, PartType
<1>2. Len(Of(Append(q, m), type)) = Len(Of(q, type)) + Len(Part(m, type))
  BY <1>1, JoinedUnits
<1>3. Len(Of(q, type)) \in Nat /\ Len(Part(m, type)) \in Nat /\ Len(s) \in Nat
  BY <1>1
<1>. QED BY <1>2, <1>3 DEF Count

\* What follows it on the network when m is no output.
SentAfter(q, n, p, s, u) ==
  /\ n \in Seq(Messages) /\ Of(n, "data") = Of(q, "data") /\ Of(n, "extended") = Of(q, "extended")
  /\ NoExtended(q) => NoExtended(n)
  /\ Flow(s, p, q, u) /\ Whole(s, p, q, u) => Flow(s, p, n, u) /\ Whole(s, p, n, u)

LEMMA SentOne ==
  ASSUME NEW s \in Seq(Nat), NEW p \in Seq(Messages), NEW q \in Seq(Messages), NEW u, NEW m \in Messages,
         m.type \notin {"data", "extended"}
  PROVE  SentAfter(q, Append(q, m), p, s, u)
<1>1. Append(q, m) \in Seq(Messages) /\ (NoExtended(q) => NoExtended(Append(q, m)))
  BY QueueFacts
<1>2. ASSUME NEW type \in {"data", "extended"} PROVE Of(Append(q, m), type) = Of(q, type)
  <2>1. Part(m, type) = <<>>
    BY DEF Part
  <2>2. Of(q, type) \o <<>> = Of(q, type)
    BY OfType, Sequences DEF Neutral
  <2>3. Of(Append(q, m), type) = Of(q, type) \o Part(m, type)
    BY OfAppend
  <2>. QED BY <2>1, <2>2, <2>3, Zenon
<1>3. Flow(s, p, q, u) /\ Whole(s, p, q, u) => Flow(s, p, Append(q, m), u) /\ Whole(s, p, Append(q, m), u)
  BY FlowSend
<1>4. Of(Append(q, m), "data") = Of(q, "data") /\ Of(Append(q, m), "extended") = Of(q, "extended")
  BY <1>2
<1>. QED BY <1>1, <1>3, <1>4, Zenon DEF SentAfter

\* The server sends what is no output.
LEMMA ChannelQuiet ==
  ASSUME ChannelInv, SentAfter(network, network', pending, Seen, Printed), kind # "none",
         linked, UNCHANGED <<kind, step, cause, output, erred, linked, pending, batch, shown, errors, truncated>>,
         step = "pty" => server' \in {"pty", "idle"},
         server = "exited" => server' = "exited",
         HasExit(network') => server' = "exited"
  PROVE  ChannelInv'
<1>1. ChannelType'
  BY DEF ChannelInv, ChannelType, SentAfter
<1>2. Stepping'
  BY DEF ChannelInv, Stepping
<1>3. Exited'
  BY DEF ChannelInv, Exited
<1>4. OneStream'
  BY DEF ChannelInv, OneStream, SentAfter
<1>5. Seen' = Seen /\ Printed' = Printed
  BY DEF Seen, Printed
<1>6. TerminalKept'
  <2>. SUFFICES ASSUME kind = "terminal", step \in Reading
                PROVE  Flow(Seen, pending, network', Printed) /\ Whole(Seen, pending, network', Printed)
    BY <1>5 DEF TerminalKept
  <2>1. Flow(Seen, pending, network, Printed) /\ Whole(Seen, pending, network, Printed)
    BY DEF ChannelInv, TerminalKept
  <2>. QED BY <2>1 DEF SentAfter
<1>7. Told'
  BY <1>5 DEF ChannelInv, Told
<1>8. CommandKept'
  <2>1. /\ Count(shown, network', "data") = Count(shown, network, "data")
        /\ Count(errors, network', "extended") = Count(errors, network, "extended")
    BY DEF Count, SentAfter
  <2>. QED BY <2>1 DEF ChannelInv, CommandKept
<1>. QED BY <1>1, <1>2, <1>3, <1>4, <1>6, <1>7, <1>8 DEF ChannelInv

LEMMA Opened == ChannelInv /\ kept => kind # "none" /\ step # "none"
BY DEF ChannelInv, Stepping, Unopened

LEMMA MessageType ==
  \A type \in Types, n \in Seq(Nat) : /\ Channel!Message(type, n) \in Messages
                                      /\ Channel!Message(type, n).type = type /\ Channel!Message(type, n).units = n
BY DEF Channel!Message, Messages

LEMMA ChannelAnswers ==
  ASSUME ChannelInv, Channel!Server, Channel!Answers \/ Channel!Starts
  PROVE  ChannelInv'
<1>1. /\ kept /\ linked
      /\ UNCHANGED <<kind, step, cause, output, erred, linked, pending, batch, shown, errors, truncated>>
  BY DEF Channel!Server, Channel!Answers, Channel!Starts, Channel!reader, Channel!command
<1>2. kind # "none" /\ network \in Seq(Messages) /\ pending \in Seq(Messages) /\ Seen \in Seq(Nat)
  BY <1>1, Opened, SeenType DEF ChannelInv, ChannelType
<1>3. step = "pty" => server \in {"pty", "idle"}
  BY DEF ChannelInv, Stepping
<1>4. CASE Channel!Starts
  <2>1. server = "shell" /\ server' = "early" /\ network' = network
    BY <1>4 DEF Channel!Starts
  <2>2. SentAfter(network, network', pending, Seen, Printed)
    BY <1>2, <2>1 DEF SentAfter
  <2>3. ~HasExit(network')
    BY <2>1 DEF ChannelInv, Exited
  <2>. QED BY <1>1, <1>2, <1>3, <2>1, <2>2, <2>3, ChannelQuiet
<1>5. CASE Channel!Answers
  <2>1. PICK type \in {"success", "failure"} : network' = Append(network, Channel!Message(type, <<>>))
    BY <1>5 DEF Channel!Answers, Channel!Send
  <2>2. server \in {"pty", "early", "shell"} /\ server' \in {"idle", "runs"} /\ (server = "pty" => server' = "idle")
    BY <1>5 DEF Channel!Answers
  <2>. DEFINE m == Channel!Message(type, <<>>)
  <2>3. m \in Messages /\ m.type = type
    <3>1. type \in Types /\ <<>> \in Seq(Nat)
      BY EmptySeq DEF Types
    <3>. QED BY <3>1, MessageType, Zenon
  <2>. HIDE DEF m
  <2>4. SentAfter(network, network', pending, Seen, Printed)
    BY <1>2, <2>1, <2>3, SentOne DEF m
  <2>5. ~HasExit(network')
    <3>1. ~HasExit(network)
      BY <2>2 DEF ChannelInv, Exited
    <3>. QED BY <1>2, <2>1, <2>3, <3>1, QueueFacts DEF m
  <2>. QED BY <1>1, <1>2, <1>3, <2>2, <2>4, <2>5, ChannelQuiet
<1>. QED BY <1>4, <1>5

LEMMA ChannelExits ==
  ASSUME ChannelInv, Channel!Server, Channel!Exits
  PROVE  ChannelInv'
<1>1. /\ kept /\ linked /\ server = "runs" /\ server' = "exited"
      /\ UNCHANGED <<kind, step, cause, output, erred, linked, pending, batch, shown, errors, truncated>>
  BY DEF Channel!Server, Channel!Exits, Channel!reader, Channel!command
<1>2. /\ kind # "none" /\ network \in Seq(Messages) /\ pending \in Seq(Messages) /\ Seen \in Seq(Nat)
      /\ step # "pty"
  BY <1>1, Opened, SeenType DEF ChannelInv, ChannelType, Stepping
<1>. DEFINE e == Channel!Message("exit", <<>>)
            c == Channel!Message("close", <<>>)
            n == Append(network, e)
<1>3. e \in Messages /\ e.type = "exit" /\ c \in Messages /\ c.type = "close"
  BY MessageType, EmptySeq DEF Types
<1>4. network' \in {Append(network, c), Append(n, c)}
  <2>1. PICK how \in {<<"exit", "close">>, <<"close">>} :
          network' = network \o [i \in DOMAIN how |-> Channel!Message(how[i], <<>>)]
    BY DEF Channel!Exits
  <2>2. CASE how = <<"close">>
    <3>1. [i \in DOMAIN how |-> Channel!Message(how[i], <<>>)] = <<c>>
      BY <2>2
    <3>. HIDE DEF c
    <3>2. Append(network, c) = network \o <<c>>
      BY <1>2, <1>3, AppendIsConcat
    <3>. QED BY <2>1, <3>1, <3>2
  <2>3. CASE how = <<"exit", "close">>
    <3>1. [i \in DOMAIN how |-> Channel!Message(how[i], <<>>)] = <<e, c>>
      BY <2>3
    <3>. HIDE DEF c, e
    <3>2. Append(n, c) = network \o <<e, c>>
      BY <1>2, <1>3, SMTT(30)
    <3>. QED BY <2>1, <3>1, <3>2
  <2>. QED BY <2>2, <2>3
<1>. HIDE DEF e, c
<1>5. n \in Seq(Messages)
  BY <1>2, <1>3, QueueFacts
<1>6. SentAfter(network, n, pending, Seen, Printed)
  BY <1>2, <1>3, SentOne
<1>7. SentAfter(n, Append(n, c), pending, Seen, Printed) /\ SentAfter(network, Append(network, c), pending, Seen, Printed)
  <2>. HIDE DEF n
  <2>. QED BY <1>2, <1>3, <1>5, SentOne
<1>8. SentAfter(network, network', pending, Seen, Printed)
  <2>. HIDE DEF n
  <2>. QED BY <1>4, <1>6, <1>7 DEF SentAfter
<1>. QED BY <1>1, <1>2, <1>8, ChannelQuiet

LEMMA Shifts ==
  ASSUME NEW a \in Nat, NEW o \in Nat, NEW k \in Nat
  PROVE  (a + k <= o + k <=> a <= o) /\ (a + k < o + k <=> a < o)
OBVIOUS

LEMMA ChannelPrints ==
  ASSUME ChannelInv, Channel!Server, Channel!Prints
  PROVE  ChannelInv'
<1>1. /\ kept /\ linked /\ server \in {"early", "runs"}
      /\ UNCHANGED <<kind, step, cause, server, linked, pending, batch, shown, errors, truncated>>
  BY DEF Channel!Server, Channel!Prints, Channel!reader, Channel!command
<1>2. /\ kind # "none" /\ network \in Seq(Messages) /\ pending \in Seq(Messages) /\ Seen \in Seq(Nat)
      /\ output \in Nat /\ erred \in Nat /\ ChannelType /\ shown \in Seq(Nat) /\ errors \in Seq(Nat)
  BY <1>1, Opened, SeenType DEF ChannelInv, ChannelType
<1>3. PICK n \in 1..MaxOutput - output - erred :
        \/ network' = Append(network, Channel!Message("data", Channel!Units(output, n))) /\ output' = output + n /\ erred' = erred
        \/ /\ kind = "command" /\ output' = output
           /\ network' = Append(network, Channel!Message("extended", Channel!Units(erred, n))) /\ erred' = erred + n
  BY DEF Channel!Prints, Channel!Send
<1>4. n \in Nat
  BY <1>2, <1>3, ChannelAssumption
<1>5. PICK from \in {output, erred}, type \in {"data", "extended"} :
        /\ network' = Append(network, Channel!Message(type, Channel!Units(from, n)))
        /\ type = "data" => from = output /\ output' = output + n /\ erred' = erred
        /\ type = "extended" => kind = "command" /\ output' = output /\ erred' = erred + n
  BY <1>3
<1>. DEFINE m == Channel!Message(type, Channel!Units(from, n))
<1>6. from \in Nat /\ Channel!Units(from, n) \in Seq(Nat) /\ Len(Channel!Units(from, n)) = n
  BY <1>2, <1>4, UnitsJoin
<1>7. m \in Messages /\ m.type = type /\ m.units = Channel!Units(from, n)
  <2>1. type \in Types
    BY DEF Types
  <2>. QED BY <1>6, <2>1, MessageType, Zenon
<1>8. network' = Append(network, m)
  BY <1>5
<1>. HIDE DEF m
<1>9. network' \in Seq(Messages)
  BY <1>2, <1>7, <1>8, QueueFacts
<1>10. ChannelType'
  BY <1>1, <1>2, <1>4, <1>5, <1>9 DEF ChannelType
<1>11. Stepping'
  BY <1>1, Opened DEF ChannelInv, Stepping
<1>12. ~HasExit(network) /\ ~HasExit(pending) /\ cause # "exit"
  BY <1>1 DEF ChannelInv, Exited, Told
<1>13. ~HasExit(network')
  BY <1>2, <1>7, <1>8, <1>12, QueueFacts
<1>14. Exited' /\ Told'
  BY <1>1, <1>12, <1>13 DEF Exited, Told
<1>15. OneStream'
  BY <1>1, <1>2, <1>5, <1>7, <1>8, QueueFacts DEF ChannelInv, OneStream
<1>16. TerminalKept'
  <2>. SUFFICES ASSUME kind = "terminal", step \in Reading
                PROVE  Flow(Seen, pending, network', Channel!Units(0, output')) /\ Whole(Seen, pending, network', Channel!Units(0, output'))
    BY <1>1 DEF TerminalKept, Seen, Printed
  <2>1. Whole(Seen, pending, network, Channel!Units(0, output))
    BY <1>1 DEF ChannelInv, TerminalKept, Printed
  <2>2. type = "data" /\ from = output /\ output' = output + n
    BY <1>5
  <2>3. Whole(Seen, pending, network', Channel!Units(0, output + n))
    BY <1>2, <1>4, <1>7, <1>8, <2>1, <2>2, FlowPrint
  <2>4. Flow(Seen, pending, network', Channel!Units(0, output'))
    BY <1>12, <1>13, FlowNoExit
  <2>. QED BY <2>2, <2>3, <2>4
<1>17. CommandKept'
  <2>1. /\ Count(shown, network', "data") = Count(shown, network, "data") + Len(Part(m, "data"))
        /\ Count(errors, network', "extended") = Count(errors, network, "extended") + Len(Part(m, "extended"))
        /\ Count(shown, network, "data") \in Nat /\ Count(errors, network, "extended") \in Nat
    BY <1>2, <1>7, <1>8, CountAppend
  <2>2. /\ Len(Part(m, type)) = n
        /\ type = "data" => Len(Part(m, "extended")) = 0
        /\ type = "extended" => Len(Part(m, "data")) = 0
    BY <1>6, <1>7, EmptySeq DEF Part
  <2>3. /\ output' = output + Len(Part(m, "data")) /\ erred' = erred + Len(Part(m, "extended"))
        /\ Len(Part(m, "data")) \in Nat /\ Len(Part(m, "extended")) \in Nat
    <3>1. CASE type = "data"
      <4>1. output' = output + n /\ erred' = erred /\ Len(Part(m, "data")) = n /\ Len(Part(m, "extended")) = 0
        BY <1>5, <2>2, <3>1, Zenon
      <4>2. erred + 0 = erred /\ 0 \in Nat
        BY <1>2
      <4>. QED BY <1>4, <4>1, <4>2, Zenon
    <3>2. CASE type = "extended"
      <4>1. output' = output /\ erred' = erred + n /\ Len(Part(m, "data")) = 0 /\ Len(Part(m, "extended")) = n
        BY <1>5, <2>2, <3>2, Zenon
      <4>2. output + 0 = output /\ 0 \in Nat
        BY <1>2
      <4>. QED BY <1>4, <4>1, <4>2, Zenon
    <3>. QED BY <3>1, <3>2
  <2>4. /\ Count(shown, network', "data") <= output' <=> Count(shown, network, "data") <= output
        /\ Count(shown, network', "data") < output' <=> Count(shown, network, "data") < output
        /\ Count(errors, network', "extended") <= erred' <=> Count(errors, network, "extended") <= erred
        /\ Count(errors, network', "extended") < erred' <=> Count(errors, network, "extended") < erred
    BY <1>2, <2>1, <2>3, Shifts, SMTT(30)
  <2>. QED BY <1>1, <2>4 DEF ChannelInv, CommandKept
<1>. QED BY <1>10, <1>11, <1>14, <1>15, <1>16, <1>17 DEF ChannelInv

\* The connection breaks: no more is promised but what an exit tells.
LEMMA ChannelBreaks ==
  ASSUME ChannelInv, Channel!Break
  PROVE  ChannelInv'
<1>1. /\ kept /\ linked' = FALSE /\ kept' = FALSE
      /\ UNCHANGED <<kind, step, cause, server, output, erred, pending, batch, shown, errors, truncated>>
      /\ \E k \in 0..Len(network) : network' = SubSeq(network, 1, k)
  BY DEF Channel!Break, Channel!reader, Channel!command, Channel!outside
<1>2. PICK k \in 0..Len(network) : network' = SubSeq(network, 1, k)
  BY <1>1
<1>3. network \in Seq(Messages)
  BY DEF ChannelInv, ChannelType
<1>4. network' \in Seq(Messages) /\ (HasExit(network') => HasExit(network)) /\ (NoExtended(network) => NoExtended(network'))
  BY <1>2, <1>3, QueueFacts
<1>5. ChannelType'
  BY <1>1, <1>4 DEF ChannelInv, ChannelType
<1>6. Stepping'
  BY <1>1, Opened DEF ChannelInv, Stepping
<1>7. Exited' /\ OneStream'
  BY <1>1, <1>4 DEF ChannelInv, Exited, OneStream
<1>8. Seen' = Seen /\ Printed' = Printed
  BY <1>1 DEF Seen, Printed
<1>9. TerminalKept'
  <2>1. Flow(Seen, pending, network, Printed) => Flow(Seen, pending, network', Printed)
    BY <1>2, <1>3, FlowCut
  <2>. QED BY <1>1, <1>8, <2>1 DEF ChannelInv, TerminalKept
<1>10. Told' /\ CommandKept'
  BY <1>1, <1>8 DEF ChannelInv, Told, CommandKept
<1>. QED BY <1>5, <1>6, <1>7, <1>9, <1>10 DEF ChannelInv

LEMMA ChannelServes ==
  ASSUME ChannelInv, Channel!Server
  PROVE  ChannelInv'
<1>1. Channel!Answers \/ Channel!Starts \/ Channel!Prints \/ Channel!Exits
  BY DEF Channel!Server
<1>. QED BY <1>1, ChannelAnswers, ChannelPrints, ChannelExits

\* An answer to a request of the start, or what comes before it.
LEMMA ChannelAnswered ==
  ASSUME ChannelInv, Channel!Answered
  PROVE  ChannelInv'
<1>. DEFINE m == Head(network)
<1>1. /\ step \in {"pty", "shell"} /\ network # <<>> /\ network' = Tail(network)
      /\ UNCHANGED <<kind, cause, output, erred, linked, kept, batch, shown, errors, truncated>>
  BY DEF Channel!Answered, Channel!command
<1>2. /\ network \in Seq(Messages) /\ pending \in Seq(Messages) /\ Seen \in Seq(Nat)
      /\ kind = "terminal" /\ cause = "none"
  BY <1>1, SeenType, KindOf DEF ChannelInv, ChannelType, Reading
<1>3. \/ /\ m.type = "success" /\ pending' = pending
         /\ step = "pty" => step' = "shell" /\ server' = "shell"
         /\ step = "shell" => step' = "sftp" /\ server' = server
      \/ step' = "failed" /\ pending' = pending /\ server' = server
      \/ pending' = Append(pending, m) /\ step' = step /\ server' = server
  BY DEF Channel!Answered, Channel!Keep
<1>. HIDE DEF m
<1>4. /\ m \in Messages /\ network' \in Seq(Messages) /\ Append(pending, m) \in Seq(Messages)
      /\ HasExit(network') \/ m.type = "exit" => HasExit(network)
      /\ NoExtended(network) => NoExtended(network') /\ m.type # "extended"
      /\ HasExit(Append(pending, m)) => HasExit(pending) \/ m.type = "exit"
      /\ NoExtended(pending) /\ m.type # "extended" => NoExtended(Append(pending, m))
  BY <1>1, <1>2, QueueFacts DEF m
<1>5. pending' \in {pending, Append(pending, m)} /\ step' \in {"failed", "shell", "sftp", step}
      /\ (step = "pty" => step' \in {"failed", "shell"} \/ server' = server)
  BY <1>1, <1>3
<1>6. ChannelType'
  BY <1>1, <1>2, <1>4, <1>5 DEF ChannelInv, ChannelType
<1>7. Stepping'
  BY <1>1, <1>2, <1>5 DEF ChannelInv, Stepping, Reading
<1>8. OneStream'
  BY <1>2, <1>4, <1>5 DEF ChannelInv, OneStream
<1>9. Exited'
  <2>1. HasExit(pending') \/ HasExit(network') => server = "exited"
    BY <1>4, <1>5 DEF ChannelInv, Exited
  <2>2. server = "exited" => server' = "exited"
    BY <1>1, <1>3 DEF ChannelInv, Stepping
  <2>. QED BY <2>1, <2>2 DEF Exited
<1>10. TerminalKept'
  <2>1. Seen' = Seen /\ Printed' = Printed
    BY <1>1 DEF Seen, Printed
  <2>2. Flow(Seen, pending, network, Printed) /\ (linked => Whole(Seen, pending, network, Printed))
    BY <1>1, <1>2 DEF ChannelInv, TerminalKept, Reading
  <2>3. CASE m.type = "success" /\ pending' = pending
    <3>1. Flow(Seen, pending, network', Printed) /\ (linked => Whole(Seen, pending, network', Printed))
      BY <1>1, <1>2, <2>2, <2>3, FlowDrop DEF m
    <3>. QED BY <1>1, <2>1, <2>3, <3>1 DEF TerminalKept
  <2>4. CASE pending' = Append(pending, m)
    <3>1. Flow(Seen, pending', network', Printed) /\ (linked => Whole(Seen, pending', network', Printed))
      BY <1>1, <1>2, <2>2, <2>4, FlowKeep DEF m
    <3>. QED BY <1>1, <2>1, <3>1 DEF TerminalKept
  <2>5. CASE step' = "failed"
    BY <2>5 DEF TerminalKept, Reading
  <2>. QED BY <1>3, <2>3, <2>4, <2>5
<1>11. Told' /\ CommandKept'
  BY <1>1, <1>2 DEF Told, CommandKept
<1>. QED BY <1>6, <1>7, <1>8, <1>9, <1>10, <1>11 DEF ChannelInv

\* The reader of a channel, or who waits for a command, takes the next message.
TakenFacts(m) ==
  /\ m \in Messages /\ pending' \in Seq(Messages) /\ network' \in Seq(Messages)
  /\ HasExit(pending') \/ HasExit(network') => HasExit(pending) \/ HasExit(network)
  /\ NoExtended(pending) /\ NoExtended(network) => NoExtended(pending') /\ NoExtended(network') /\ m.type # "extended"
  /\ m.type = "exit" => HasExit(pending) \/ HasExit(network)
  /\ \A s \in Seq(Nat) : \A u :
       /\ Flow(s, pending, network, u) => Flow(s \o Got(m), pending', network', u)
       /\ linked /\ Whole(s, pending, network, u) => Whole(s \o Got(m), pending', network', u)
       /\ Flow(s, pending, network, u) /\ m.type = "exit" => s = u

LEMMA ChannelTaken ==
  ASSUME ChannelInv, Channel!Readable, Channel!Taken
  PROVE  TakenFacts(Channel!NextMessage)
<1>1. pending \in Seq(Messages) /\ network \in Seq(Messages)
  BY DEF ChannelInv, ChannelType
<1>2. CASE pending # <<>>
  <2>1. Channel!NextMessage = Head(pending) /\ pending' = Tail(pending) /\ network' = network
    BY <1>2 DEF Channel!NextMessage, Channel!Taken
  <2>2. ASSUME NEW s \in Seq(Nat), NEW u
        PROVE  /\ Flow(s, pending, network, u) => Flow(s \o Got(Head(pending)), pending', network', u)
               /\ linked /\ Whole(s, pending, network, u) => Whole(s \o Got(Head(pending)), pending', network', u)
               /\ Flow(s, pending, network, u) /\ Head(pending).type = "exit" => s = u
    BY <1>1, <1>2, <2>1, FlowRead, FlowExit
  <2>. QED BY <1>1, <1>2, <2>1, <2>2, QueueFacts DEF TakenFacts
<1>3. CASE pending = <<>> /\ network # <<>>
  <2>1. Channel!NextMessage = Head(network) /\ pending' = pending /\ network' = Tail(network)
    BY <1>3 DEF Channel!NextMessage, Channel!Taken
  <2>2. ASSUME NEW s \in Seq(Nat), NEW u
        PROVE  /\ Flow(s, pending, network, u) => Flow(s \o Got(Head(network)), pending', network', u)
               /\ linked /\ Whole(s, pending, network, u) => Whole(s \o Got(Head(network)), pending', network', u)
               /\ Flow(s, pending, network, u) /\ Head(network).type = "exit" => s = u
    BY <1>1, <1>3, <2>1, FlowRead, FlowExit
  <2>. QED BY <1>1, <1>3, <2>1, <2>2, QueueFacts DEF TakenFacts
<1>4. CASE pending = <<>> /\ network = <<>>
  <2>1. Channel!NextMessage = Channel!Message("close", <<>>) /\ pending' = pending /\ network' = network /\ ~linked
    BY <1>4 DEF Channel!NextMessage, Channel!Taken, Channel!Readable
  <2>. DEFINE m == Channel!Message("close", <<>>)
  <2>2. m \in Messages /\ m.type = "close"
    BY MessageType, EmptySeq DEF Types
  <2>. HIDE DEF m
  <2>3. Got(m) = <<>> /\ \A s \in Seq(Nat) : s \o Got(m) = s
    BY <2>2, BroughtFacts, Sequences DEF Neutral
  <2>. QED BY <1>1, <2>1, <2>2, <2>3 DEF TakenFacts, m
<1>. QED BY <1>2, <1>3, <1>4

\* What the reader shows or keeps, or how it ends.
LEMMA ReaderMoves ==
  ASSUME ChannelInv, step = "runs", Channel!Readable, Channel!Taken, NEW m, m = Channel!NextMessage,
         UNCHANGED <<kind, server, output, erred, errors, truncated, linked>>,
         batch' \in Seq(Nat), shown' \in Seq(Nat),
         \/ UNCHANGED <<step, cause>> /\ shown' \o batch' = Seen \o Got(m)
         \/ step' = "ended" /\ cause' \in {"closed", "error", "nobody"}
         \/ step' = "ended" /\ cause' = "exit" /\ m.type = "exit" /\ shown' = Seen
  PROVE  ChannelInv'
<1>1. TakenFacts(m)
  BY ChannelTaken
<1>2. kind = "terminal" /\ cause = "none" /\ Seen \in Seq(Nat)
  BY KindOf, SeenType DEF ChannelInv, Reading
<1>3. ChannelType'
  BY <1>1 DEF ChannelInv, ChannelType, TakenFacts
<1>4. step' \in {"runs", "ended"} /\ (cause' # "none" => step' = "ended")
  BY <1>2
<1>5. Stepping'
  BY <1>2, <1>4 DEF Stepping, Reading
<1>6. Exited' /\ OneStream'
  BY <1>1 DEF ChannelInv, Exited, OneStream, TakenFacts
<1>7. Flow(Seen, pending, network, Printed) /\ (linked => Whole(Seen, pending, network, Printed))
  BY <1>2 DEF ChannelInv, TerminalKept, Reading
<1>8. Printed' = Printed
  BY DEF Printed
<1>9. TerminalKept'
  <2>. SUFFICES ASSUME step' = "runs"
                PROVE  Flow(Seen', pending', network', Printed) /\ (linked => Whole(Seen', pending', network', Printed))
    BY <1>4, <1>8 DEF TerminalKept, Reading
  <2>1. Seen' = Seen \o Got(m)
    BY DEF Seen
  <2>. QED BY <1>1, <1>2, <1>7, <2>1 DEF TakenFacts
<1>10. Told'
  <2>. SUFFICES ASSUME cause' = "exit"
                PROVE  server = "exited" /\ shown' = Printed
    BY <1>8 DEF Told
  <2>1. m.type = "exit" /\ shown' = Seen
    BY <1>2
  <2>2. server = "exited"
    BY <1>1, <2>1 DEF ChannelInv, Exited, TakenFacts
  <2>3. Seen = Printed
    BY <1>1, <1>2, <1>7, <2>1 DEF TakenFacts
  <2>. QED BY <2>1, <2>2, <2>3
<1>11. CommandKept'
  BY <1>2 DEF CommandKept
<1>. QED BY <1>3, <1>5, <1>6, <1>9, <1>10, <1>11 DEF ChannelInv

\* flush_terminal_output: the units are shown, or there is no window to show them.
LEMMA FlushStays ==
  ASSUME ChannelType, NEW units \in Seq(Nat), Channel!Flush(units, Channel!Stay)
  PROVE  /\ shown' \in Seq(Nat)
         /\ \/ UNCHANGED <<step, cause>> /\ shown' = shown \o units
            \/ step' = "ended" /\ cause' = "nobody"
<1>1. shown \in Seq(Nat) /\ shown \o <<>> = shown /\ shown \o units \in Seq(Nat)
  BY JoinedUnits, Sequences DEF ChannelType, Neutral
<1>. QED BY <1>1 DEF Channel!Flush, Channel!Stay, Channel!End

LEMMA FlushEnds ==
  ASSUME ChannelType, NEW units \in Seq(Nat), NEW how, Channel!Flush(units, Channel!End(how))
  PROVE  /\ shown' \in Seq(Nat) /\ step' = "ended"
         /\ (cause' = how /\ shown' = shown \o units) \/ cause' = "nobody"
<1>1. shown \in Seq(Nat) /\ shown \o <<>> = shown /\ shown \o units \in Seq(Nat)
  BY JoinedUnits, Sequences DEF ChannelType, Neutral
<1>. QED BY <1>1 DEF Channel!Flush, Channel!End

\* A full batch and the rest of it are what there was.
LEMMA BatchIs ==
  ASSUME NEW all \in Seq(Nat)
  PROVE  LET full == Channel!Full(Len(all))
         IN  /\ SubSeq(all, 1, full) \in Seq(Nat) /\ SubSeq(all, full + 1, Len(all)) \in Seq(Nat)
             /\ SubSeq(all, 1, full) \o SubSeq(all, full + 1, Len(all)) = all
<1>. DEFINE full == Channel!Full(Len(all))
            a == SubSeq(all, 1, full)
            b == SubSeq(all, full + 1, Len(all))
<1>1. full \in 0..Len(all)
  <2>1. ASSUME NEW l \in Nat PROVE l % Batch \in 0..l
    <3>1. Batch \in Nat \ {0} /\ l % Batch \in 0..Batch - 1 /\ (l < Batch => l % Batch = l)
      BY ChannelAssumption
    <3>. QED BY <3>1
  <2>. QED BY <2>1, LenProperties DEF Channel!Full
<1>. HIDE DEF full
<1>2. /\ a \in Seq(Nat) /\ Len(a) = full /\ \A i \in 1..full : a[i] = all[i]
      /\ b \in Seq(Nat) /\ Len(b) = Len(all) - full /\ \A i \in 1..Len(all) - full : b[i] = all[full + i]
  BY <1>1
<1>. HIDE DEF a, b
<1>3. /\ a \o b \in Seq(Nat) /\ Len(a \o b) = Len(all)
      /\ \A i \in 1..Len(all) : (a \o b)[i] = IF i <= full THEN a[i] ELSE b[i - full]
  BY <1>1, <1>2, JoinedUnits, SMTT(30)
<1>4. ASSUME NEW i \in 1..Len(all) PROVE (a \o b)[i] = all[i]
  <2>1. CASE i <= full
    BY <1>1, <1>2, <1>3, <2>1
  <2>2. CASE ~(i <= full)
    <3>1. i - full \in 1..Len(all) - full /\ full + (i - full) = i
      BY <1>1, <2>2
    <3>. QED BY <1>2, <1>3, <2>2, <3>1
  <2>. QED BY <2>1, <2>2
<1>5. a \o b = all
  BY <1>3, <1>4, SeqEqual
<1>. QED BY <1>2, <1>5 DEF a, b, full

LEMMA ChannelReadsData ==
  ASSUME ChannelInv, Channel!Read, Channel!ReadData
  PROVE  ChannelInv'
<1>. DEFINE m == Channel!NextMessage
            all == batch \o m.units
            full == Channel!Full(Len(all))
<1>1. /\ step = "runs" /\ Channel!Readable /\ Channel!Taken /\ m.type \in {"data", "extended"}
      /\ UNCHANGED <<kind, server, output, erred, errors, truncated, linked>>
      /\ batch' = SubSeq(all, full + 1, Len(all)) /\ Channel!Flush(SubSeq(all, 1, full), Channel!Stay)
  BY DEF Channel!Read, Channel!ReadData, Channel!command, Channel!outside
<1>2. ChannelType /\ batch \in Seq(Nat) /\ shown \in Seq(Nat) /\ kind = "terminal"
  BY <1>1, KindOf DEF ChannelInv, ChannelType, Reading
<1>3. TakenFacts(m)
  BY <1>1, ChannelTaken
<1>. HIDE DEF m
<1>4. m \in Messages /\ m.type = "data" /\ m.units \in Seq(Nat) /\ Got(m) = m.units
  <2>1. m \in Messages /\ m.type # "extended"
    BY <1>2, <1>3 DEF ChannelInv, OneStream, TakenFacts
  <2>. QED BY <1>1, <2>1, BroughtFacts
<1>5. all \in Seq(Nat)
  BY <1>2, <1>4, JoinedUnits
<1>. HIDE DEF all
<1>. DEFINE a == SubSeq(all, 1, full)
            b == SubSeq(all, full + 1, Len(all))
<1>6. a \in Seq(Nat) /\ b \in Seq(Nat) /\ a \o b = all
  BY <1>5, BatchIs
<1>7. batch' = b /\ Channel!Flush(a, Channel!Stay)
  BY <1>1
<1>. HIDE DEF a, b
<1>8. /\ shown' \in Seq(Nat)
      /\ \/ UNCHANGED <<step, cause>> /\ shown' = shown \o a
         \/ step' = "ended" /\ cause' = "nobody"
  BY <1>2, <1>6, <1>7, FlushStays
<1>9. (shown \o a) \o b = Seen \o Got(m)
  <2>1. (shown \o a) \o b = shown \o (a \o b)
    BY <1>2, <1>6, Joined
  <2>2. (shown \o batch) \o m.units = shown \o (batch \o m.units)
    BY <1>2, <1>4, Joined
  <2>. QED BY <1>4, <1>6, <2>1, <2>2, Zenon DEF Seen, all
<1>10. \/ UNCHANGED <<step, cause>> /\ shown' \o batch' = Seen \o Got(m)
       \/ step' = "ended" /\ cause' \in {"closed", "error", "nobody"}
  BY <1>7, <1>8, <1>9
<1>11. batch' \in Seq(Nat)
  BY <1>6, <1>7
<1>. QED BY <1>1, <1>8, <1>10, <1>11, ReaderMoves DEF m

LEMMA ChannelReadsEnd ==
  ASSUME ChannelInv, Channel!Read, Channel!ReadEnd
  PROVE  ChannelInv'
<1>. DEFINE m == Channel!NextMessage
<1>1. /\ step = "runs" /\ Channel!Readable
      /\ UNCHANGED <<kind, server, output, erred, errors, truncated, linked>>
  BY DEF Channel!Read, Channel!command, Channel!outside
<1>2. ChannelType /\ batch \in Seq(Nat) /\ shown \in Seq(Nat) /\ Seen \in Seq(Nat)
  BY SeenType DEF ChannelInv, ChannelType
<1>3. /\ Channel!Taken /\ batch' = <<>> /\ m.type # "data"
      /\ \/ m.type = "exit" /\ Channel!Flush(batch, Channel!End("exit"))
         \/ Channel!Flush(batch, Channel!End("closed"))
         \/ Channel!Flush(batch, Channel!End("error"))
         \/ Channel!Flush(batch, Channel!Stay)
  BY DEF Channel!ReadEnd, Channel!Ending
<1>4. TakenFacts(m)
  BY <1>1, <1>3, ChannelTaken
<1>. HIDE DEF m
<1>5. Got(m) = <<>>
  BY <1>3, <1>4, BroughtFacts DEF TakenFacts
<1>6. shown' \in Seq(Nat)
      /\ \/ UNCHANGED <<step, cause>> /\ shown' = Seen
         \/ step' = "ended" /\ cause' \in {"closed", "error", "nobody"}
         \/ step' = "ended" /\ cause' = "exit" /\ m.type = "exit" /\ shown' = Seen
  <2>1. CASE m.type = "exit" /\ Channel!Flush(batch, Channel!End("exit"))
    BY <1>2, <2>1, FlushEnds DEF Seen
  <2>2. CASE Channel!Flush(batch, Channel!End("closed"))
    BY <1>2, <2>2, FlushEnds
  <2>3. CASE Channel!Flush(batch, Channel!End("error"))
    BY <1>2, <2>3, FlushEnds
  <2>4. CASE Channel!Flush(batch, Channel!Stay)
    BY <1>2, <2>4, FlushStays DEF Seen
  <2>. QED BY <1>3, <2>1, <2>2, <2>3, <2>4
<1>7. Seen \o <<>> = Seen /\ <<>> \in Seq(Nat)
  BY <1>2, Sequences DEF Neutral
<1>8. shown' = Seen => shown' \o batch' = Seen \o Got(m)
  BY <1>3, <1>5
<1>. QED BY <1>1, <1>3, <1>6, <1>7, <1>8, ReaderMoves DEF m

LEMMA ChannelReads ==
  ASSUME ChannelInv, Channel!Read
  PROVE  ChannelInv'
<1>1. Channel!ReadData \/ Channel!ReadEnd
  BY DEF Channel!Read
<1>. QED BY <1>1, ChannelReadsData, ChannelReadsEnd

LEMMA ChannelDeadline ==
  ASSUME ChannelInv, Channel!Deadline
  PROVE  ChannelInv'
<1>1. /\ step = "runs" /\ batch' = <<>> /\ Channel!Flush(batch, Channel!Stay)
      /\ UNCHANGED <<kind, server, output, erred, network, linked, kept, pending, errors, truncated>>
  BY DEF Channel!Deadline, Channel!command, Channel!outside, Channel!transport
<1>2. ChannelType /\ batch \in Seq(Nat) /\ kind = "terminal" /\ cause = "none" /\ Seen \in Seq(Nat)
  BY <1>1, KindOf, SeenType DEF ChannelInv, ChannelType, Reading
<1>3. shown' \in Seq(Nat)
      /\ \/ UNCHANGED <<step, cause>> /\ shown' = Seen
         \/ step' = "ended" /\ cause' = "nobody"
  BY <1>1, <1>2, FlushStays DEF Seen
<1>4. ChannelType'
  BY <1>1, <1>2, <1>3, EmptySeq DEF ChannelType
<1>5. Stepping' /\ Exited' /\ OneStream'
  BY <1>1, <1>2, <1>3 DEF ChannelInv, Stepping, Exited, OneStream, Reading
<1>6. TerminalKept'
  <2>. SUFFICES ASSUME step' \in Reading PROVE Seen' = Seen /\ Printed' = Printed
    BY <1>1, <1>2 DEF ChannelInv, TerminalKept, Reading
  <2>1. shown' = Seen /\ Seen \o <<>> = Seen
    BY <1>2, <1>3, Sequences DEF Neutral, Reading
  <2>. QED BY <1>1, <2>1 DEF Seen, Printed
<1>7. Told' /\ CommandKept'
  BY <1>1, <1>2, <1>3 DEF Told, CommandKept
<1>. QED BY <1>4, <1>5, <1>6, <1>7 DEF ChannelInv

\* Of a sample nothing is promised.
LEMMA ChannelSamples ==
  ASSUME ChannelInv, Channel!Sample
  PROVE  ChannelInv'
<1>. DEFINE m == Channel!NextMessage
<1>1. /\ kind = "sample" /\ step = "collect" /\ Channel!Readable /\ Channel!Taken /\ Channel!Sampled(m)
      /\ UNCHANGED <<kind, cause, server, output, erred, linked, kept, batch, errors, truncated>>
  BY DEF Channel!Sample, Channel!command, Channel!outside
<1>2. ChannelType /\ shown \in Seq(Nat) /\ pending = <<>> /\ cause = "none"
  BY <1>1, KindOf DEF ChannelInv, ChannelType, Stepping
<1>3. TakenFacts(m)
  BY <1>1, ChannelTaken
<1>4. pending' = <<>>
  BY <1>1, <1>2 DEF Channel!Taken
<1>. HIDE DEF m
<1>5. m.units \in Seq(Nat)
  BY <1>3 DEF TakenFacts, Messages
<1>6. shown \o m.units \in Seq(Nat)
  BY <1>2, <1>5, JoinedUnits
<1>7. shown' \in Seq(Nat) /\ step' \in {"collect", "closing"}
  BY <1>1, <1>2, <1>6 DEF Channel!Sampled
<1>8. ChannelType'
  BY <1>1, <1>2, <1>3, <1>7 DEF ChannelType, TakenFacts
<1>9. Stepping'
  BY <1>1, <1>2, <1>4, <1>7 DEF Stepping
<1>10. Exited'
  BY <1>1, <1>3 DEF ChannelInv, Exited, TakenFacts
<1>11. OneStream' /\ TerminalKept' /\ Told' /\ CommandKept'
  BY <1>1, <1>2 DEF OneStream, TerminalKept, Told, CommandKept
<1>. QED BY <1>8, <1>9, <1>10, <1>11 DEF ChannelInv

\* append_limited: a part of the output, and all of it unless it is cut.
LEMMA AcceptedIs ==
  ASSUME NEW t \in Seq(Nat), NEW v \in Seq(Nat), NEW limit \in Nat
  PROVE  /\ Channel!Accepted(t, v, limit) \in Seq(Nat)
         /\ Len(Channel!Accepted(t, v, limit)) <= Len(t) + Len(v)
         /\ Channel!Cut(t, v, limit) <=> Len(Channel!Accepted(t, v, limit)) < Len(t) + Len(v)
<1>. DEFINE a == Channel!Accepted(t, v, limit)
            w == t \o v
<1>1. w \in Seq(Nat) /\ Len(w) = Len(t) + Len(v) /\ Len(t) \in Nat /\ Len(v) \in Nat
  BY JoinedUnits
<1>2. a = IF Len(t) >= limit THEN t ELSE SubSeq(w, 1, IF Len(w) < limit THEN Len(w) ELSE limit)
  BY DEF Channel!Accepted
<1>3. Channel!Cut(t, v, limit) <=> a # w
  BY DEF Channel!Cut
<1>4. Len(v) = 0 => w = t
  BY EmptySeq, Sequences DEF Neutral
<1>5. a \in Seq(Nat) /\ Len(a) <= Len(w) /\ (Len(a) = Len(w) => a = w)
  <2>. HIDE DEF a, w
  <2>1. CASE Len(t) >= limit
    <3>1. a = t
      BY <1>2, <2>1
    <3>. QED BY <1>1, <1>4, <3>1
  <2>2. CASE Len(t) < limit /\ Len(w) < limit
    <3>1. a = SubSeq(w, 1, Len(w))
      BY <1>1, <1>2, <2>2
    <3>2. a = w
      BY <1>1, <3>1, SubSeqFull
    <3>. QED BY <1>1, <3>2
  <2>3. CASE Len(t) < limit /\ Len(w) >= limit
    <3>1. a = SubSeq(w, 1, limit) /\ limit \in 0..Len(w)
      BY <1>1, <1>2, <2>3
    <3>2. a \in Seq(Nat) /\ Len(a) = limit
      BY <1>1, <3>1
    <3>3. limit = Len(w) => a = w
      BY <1>1, <3>1, SubSeqFull
    <3>. QED BY <1>1, <3>1, <3>2, <3>3
  <2>. QED BY <1>1, <2>1, <2>2, <2>3
<1>6. Len(a) \in Nat /\ (a = w => Len(a) = Len(w))
  BY <1>5
<1>7. a # w <=> Len(a) < Len(w)
  <2>. HIDE DEF a, w
  <2>. QED BY <1>1, <1>5, <1>6
<1>. QED BY <1>1, <1>3, <1>5, <1>7, Zenon

LEMMA CountFirst ==
  ASSUME NEW s \in Seq(Nat), NEW q \in Seq(Messages), q # <<>>, NEW type
  PROVE  /\ Count(s, q, type) = Len(s) + Len(Part(Head(q), type)) + Len(Of(Tail(q), type))
         /\ Len(s) \in Nat /\ Len(Part(Head(q), type)) \in Nat /\ Len(Of(Tail(q), type)) \in Nat
<1>1. Head(q) \in Messages /\ Tail(q) \in Seq(Messages)
  BY QueueFacts
<1>2. /\ Part(Head(q), type) \in Seq(Nat) /\ Of(Tail(q), type) \in Seq(Nat)
      /\ Of(q, type) = Part(Head(q), type) \o Of(Tail(q), type)
  BY <1>1, PartType, OfType, OfFirst
<1>3. Len(Of(q, type)) = Len(Part(Head(q), type)) + Len(Of(Tail(q), type))
  BY <1>2, JoinedUnits
<1>4. Len(s) \in Nat /\ Len(Part(Head(q), type)) \in Nat /\ Len(Of(Tail(q), type)) \in Nat
  BY <1>2
<1>. QED BY <1>3, <1>4 DEF Count

\* What an agent is told when the first message adds t to what it has, and when not.
LEMMA CountAdds ==
  ASSUME NEW s \in Seq(Nat), NEW t \in Seq(Nat), NEW q \in Seq(Messages), q # <<>>, NEW type, NEW o \in Nat,
         Len(t) <= Len(s) + Len(Part(Head(q), type)), Count(s, q, type) <= o
  PROVE  /\ Count(t, Tail(q), type) <= o
         /\ Count(t, Tail(q), type) < o <=> Len(t) < Len(s) + Len(Part(Head(q), type)) \/ Count(s, q, type) < o
<1>1. /\ Count(s, q, type) = Len(s) + Len(Part(Head(q), type)) + Len(Of(Tail(q), type))
      /\ Len(s) \in Nat /\ Len(Part(Head(q), type)) \in Nat /\ Len(Of(Tail(q), type)) \in Nat
  BY CountFirst
<1>2. Count(t, Tail(q), type) = Len(t) + Len(Of(Tail(q), type)) /\ Len(t) \in Nat
  BY DEF Count
<1>. QED BY <1>1, <1>2

LEMMA CountStays ==
  ASSUME NEW s \in Seq(Nat), NEW q \in Seq(Messages), q # <<>>, NEW type, Part(Head(q), type) = <<>>
  PROVE  Count(s, Tail(q), type) = Count(s, q, type)
<1>1. /\ Count(s, q, type) = Len(s) + Len(Part(Head(q), type)) + Len(Of(Tail(q), type))
      /\ Len(s) \in Nat /\ Len(Part(Head(q), type)) \in Nat /\ Len(Of(Tail(q), type)) \in Nat
  BY CountFirst
<1>2. Len(Part(Head(q), type)) = 0
  BY EmptySeq
<1>. QED BY <1>1, <1>2 DEF Count

LEMMA ChannelCommands ==
  ASSUME ChannelInv, Channel!Command
  PROVE  ChannelInv'
<1>. DEFINE m == Channel!NextMessage
<1>1. /\ kind = "command" /\ step = "collect" /\ Channel!Readable /\ Channel!Taken /\ Channel!Commanded(m)
      /\ UNCHANGED <<kind, cause, server, output, erred, linked, kept, batch>>
  BY DEF Channel!Command, Channel!outside
<1>2. /\ ChannelType /\ shown \in Seq(Nat) /\ errors \in Seq(Nat) /\ pending = <<>> /\ cause = "none"
      /\ network \in Seq(Messages) /\ truncated \in BOOLEAN /\ output \in Nat /\ erred \in Nat
  BY <1>1, KindOf DEF ChannelInv, ChannelType, Stepping
<1>3. TakenFacts(m)
  BY <1>1, ChannelTaken
<1>4. pending' = <<>>
  BY <1>1, <1>2 DEF Channel!Taken
<1>5. linked => m = Head(network) /\ network # <<>> /\ network' = Tail(network)
  BY <1>1, <1>2 DEF Channel!Taken, Channel!NextMessage, Channel!Readable
<1>. HIDE DEF m
<1>6. m \in Messages /\ m.units \in Seq(Nat)
  BY <1>3 DEF TakenFacts, Messages
<1>. DEFINE limit == IF Len(shown) < Limit THEN Limit - Len(shown) ELSE 0
<1>7. limit \in Nat /\ Limit \in Nat
  BY <1>2, ChannelAssumption
<1>. HIDE DEF limit
<1>8. /\ shown' \in Seq(Nat) /\ errors' \in Seq(Nat) /\ truncated' \in BOOLEAN
      /\ step' \in {"collect", "over"} /\ CommandKept'
  <2>1. CASE m.type = "data"
    <3>. DEFINE a == Channel!Accepted(shown, m.units, Limit)
                c == Channel!Cut(shown, m.units, Limit)
    <3>1. shown' = a /\ (truncated' <=> truncated \/ c) /\ truncated' \in BOOLEAN /\ errors' = errors /\ step' = step
      BY <1>1, <1>2, <2>1 DEF Channel!Commanded, Channel!CutOut, Channel!Cut
    <3>2. a \in Seq(Nat) /\ Len(a) <= Len(shown) + Len(m.units) /\ (c <=> Len(a) < Len(shown) + Len(m.units))
      BY <1>2, <1>6, <1>7, AcceptedIs
    <3>. HIDE DEF a, c
    <3>3. Part(m, "data") = m.units /\ Part(m, "extended") = <<>>
      BY <2>1 DEF Part
    <3>4. CommandKept'
      <4>. SUFFICES ASSUME linked
                    PROVE  /\ Count(a, network', "data") <= output /\ Count(errors, network', "extended") <= erred
                           /\ truncated' <=> Count(a, network', "data") < output \/ Count(errors, network', "extended") < erred
        BY <1>1, <3>1 DEF CommandKept
      <4>1. /\ Count(shown, network, "data") <= output /\ Count(errors, network, "extended") <= erred
            /\ truncated <=> Count(shown, network, "data") < output \/ Count(errors, network, "extended") < erred
        BY <1>1 DEF ChannelInv, CommandKept
      <4>2. Count(errors, network', "extended") = Count(errors, network, "extended")
        BY <1>2, <1>5, <3>3, CountStays
      <4>3. /\ Count(a, network', "data") <= output
            /\ Count(a, network', "data") < output <=> c \/ Count(shown, network, "data") < output
        BY <1>2, <1>5, <3>2, <3>3, <4>1, CountAdds
      <4>. QED BY <3>1, <4>1, <4>2, <4>3
    <3>. QED BY <1>1, <1>2, <3>1, <3>2, <3>4
  <2>2. CASE m.type = "extended"
    <3>. DEFINE a == Channel!Accepted(errors, m.units, limit)
                c == Channel!Cut(errors, m.units, limit)
    <3>1. errors' = a /\ (truncated' <=> truncated \/ c) /\ truncated' \in BOOLEAN /\ shown' = shown /\ step' = step
      BY <1>1, <1>2, <2>2 DEF Channel!Commanded, Channel!Cut, limit
    <3>2. a \in Seq(Nat) /\ Len(a) <= Len(errors) + Len(m.units) /\ (c <=> Len(a) < Len(errors) + Len(m.units))
      BY <1>2, <1>6, <1>7, AcceptedIs
    <3>. HIDE DEF a, c
    <3>3. Part(m, "extended") = m.units /\ Part(m, "data") = <<>>
      BY <2>2 DEF Part
    <3>4. CommandKept'
      <4>. SUFFICES ASSUME linked
                    PROVE  /\ Count(shown, network', "data") <= output /\ Count(a, network', "extended") <= erred
                           /\ truncated' <=> Count(shown, network', "data") < output \/ Count(a, network', "extended") < erred
        BY <1>1, <3>1 DEF CommandKept
      <4>1. /\ Count(shown, network, "data") <= output /\ Count(errors, network, "extended") <= erred
            /\ truncated <=> Count(shown, network, "data") < output \/ Count(errors, network, "extended") < erred
        BY <1>1 DEF ChannelInv, CommandKept
      <4>2. Count(shown, network', "data") = Count(shown, network, "data")
        BY <1>2, <1>5, <3>3, CountStays
      <4>3. /\ Count(a, network', "extended") <= erred
            /\ Count(a, network', "extended") < erred <=> c \/ Count(errors, network, "extended") < erred
        BY <1>2, <1>5, <3>2, <3>3, <4>1, CountAdds
      <4>. QED BY <3>1, <4>1, <4>2, <4>3
    <3>. QED BY <1>1, <1>2, <3>1, <3>2, <3>4
  <2>3. CASE m.type \notin {"data", "extended"}
    <3>1. /\ shown' = shown /\ errors' = errors /\ truncated' = truncated
          /\ step' = IF m.type = "close" THEN "over" ELSE step
      BY <1>1, <2>3 DEF Channel!Commanded, Channel!command
    <3>2. Part(m, "data") = <<>> /\ Part(m, "extended") = <<>>
      BY <2>3 DEF Part
    <3>3. CommandKept'
      <4>1. linked => /\ Count(shown, network', "data") = Count(shown, network, "data")
                      /\ Count(errors, network', "extended") = Count(errors, network, "extended")
        BY <1>2, <1>5, <3>2, CountStays
      <4>. QED BY <1>1, <3>1, <4>1 DEF ChannelInv, CommandKept
    <3>. QED BY <1>1, <1>2, <3>1, <3>3
  <2>. QED BY <2>1, <2>2, <2>3
<1>9. ChannelType'
  BY <1>1, <1>2, <1>3, <1>8 DEF ChannelType, TakenFacts
<1>10. Stepping'
  BY <1>1, <1>2, <1>4, <1>8 DEF Stepping
<1>11. Exited'
  BY <1>1, <1>3 DEF ChannelInv, Exited, TakenFacts
<1>12. OneStream' /\ TerminalKept' /\ Told'
  BY <1>1, <1>2 DEF OneStream, TerminalKept, Told
<1>. QED BY <1>8, <1>9, <1>10, <1>11, <1>12 DEF ChannelInv

LEMMA ChannelNext ==
  ASSUME ChannelInv, Channel!Next
  PROVE  ChannelInv'
<1>1. CASE \E k \in {"terminal", "sample", "command"} : Channel!Open(k)
  BY <1>1, ChannelOpen
<1>2. CASE Channel!Server
  BY <1>2, ChannelServes
<1>3. CASE \/ Channel!ReadsInput \/ Channel!LoseWindow \/ Channel!Type
           \/ Channel!Disconnect \/ Channel!SendClose \/ Channel!DisconnectHandle
  BY <1>3, ChannelBeside
<1>4. CASE Channel!Break
  BY <1>4, ChannelBreaks
<1>5. CASE Channel!Answered
  BY <1>5, ChannelAnswered
<1>6. CASE \/ Channel!Unanswered \/ Channel!Register \/ Channel!Drop \/ Channel!Finish
           \/ Channel!GiveUp \/ Channel!CloseSample
  BY <1>6, ChannelGoesOn
<1>7. CASE Channel!Read
  BY <1>7, ChannelReads
<1>8. CASE Channel!Deadline
  BY <1>8, ChannelDeadline
<1>9. CASE Channel!Take \/ Channel!Write
  BY <1>9, ChannelEnds
<1>10. CASE Channel!Sample
  BY <1>10, ChannelSamples
<1>11. CASE Channel!Command
  BY <1>11, ChannelCommands
<1>. QED BY <1>1, <1>2, <1>3, <1>4, <1>5, <1>6, <1>7, <1>8, <1>9, <1>10, <1>11 DEF Channel!Next

LEMMA ChannelStutter ==
  ASSUME ChannelInv, UNCHANGED channelVars
  PROVE  ChannelInv'
<1>1. UNCHANGED <<kind, step, cause, server, output, erred, network, linked, kept, pending, batch, shown, errors, truncated>>
  BY DEF channelVars
<1>2. linked' \in BOOLEAN /\ (linked' => linked) /\ (~kept => ~kept')
  BY <1>1, OnlyFalls
<1>. QED BY <1>1, <1>2, ChannelMoves

LEMMA ChannelIsTrue == ChannelInv => ChannelTrue
<1>. SUFFICES ASSUME ChannelInv PROVE ChannelTrue
  OBVIOUS
<1>1. Channel!OutputKept
  <2>. SUFFICES ASSUME kind = "terminal", step \notin {"failed", "over", "ended"}, linked
                PROVE  shown \o batch \o Channel!Arrived(pending) \o Channel!Arrived(network) = Channel!Units(0, output)
    BY DEF Channel!OutputKept
  <2>1. step \in Reading
    BY DEF ChannelInv, Stepping
  <2>2. Whole(Seen, pending, network, Printed)
    BY <2>1 DEF ChannelInv, TerminalKept
  <2>. QED BY <2>2, ArrivedIs, Zenon DEF Whole, Seen, Printed, Brought
<1>2. Channel!ExitAfterOutput
  BY DEF ChannelInv, Told, Printed, Channel!ExitAfterOutput
<1>3. Channel!CutTold
  <2>. SUFFICES ASSUME kind = "command", linked, network = <<>>
                PROVE  truncated <=> Len(shown) < output \/ Len(errors) < erred
    BY DEF Channel!CutTold
  <2>1. Count(shown, network, "data") = Len(shown) /\ Count(errors, network, "extended") = Len(errors)
    BY OfEmpty, EmptySeq DEF ChannelInv, ChannelType, Count
  <2>. QED BY <2>1 DEF ChannelInv, CommandKept
<1>. QED BY <1>1, <1>2, <1>3 DEF ChannelTrue

\* What agents are served: no upload is stored twice, no output of a terminal is lost
\* while its connection lives, its exit is told after all of it, and an agent knows
\* when the output of its command was cut.
THEOREM AgentsAreServed == MCSpec => []AgentsServed
<1>. DEFINE Inv == LinkInv /\ ChannelInv
<1>1. MCInit => Inv
  BY LinkStarts, ChannelInit DEF MCInit
<1>2. Inv /\ [MCNext]_<<component, vars, linkVars, brokerVars, bridgeVars, channelVars>> => Inv'
  <2>. SUFFICES ASSUME Inv, [MCNext]_<<component, vars, linkVars, brokerVars, bridgeVars, channelVars>>
                PROVE  Inv'
    OBVIOUS
  <2>1. Links!Next \/ UNCHANGED linkVars
    BY DEF MCNext
  <2>2. Channel!Next \/ UNCHANGED channelVars
    BY DEF MCNext
  <2>3. LinkInv'
    BY <2>1, LinkNext, LinkStutter
  <2>4. ChannelInv'
    BY <2>2, ChannelNext, ChannelStutter
  <2>. QED BY <2>3, <2>4
<1>3. Inv => AgentsServed
  BY LinkTrue, ChannelIsTrue DEF AgentsServed
<1>. QED BY <1>1, <1>2, <1>3, PTL DEF MCSpec
=============================================================================
