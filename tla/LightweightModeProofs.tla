----------------------- MODULE LightweightModeProofs -----------------------
(* Theorems about LightweightMode, for any terminals, limits and bounds.     *)
EXTENDS LightweightMode, SequenceTheorems, FiniteSetTheorems, WellFoundedInduction, TLAPS

-----------------------------------------------------------------------------
(* Type correctness.  Every update of a bridge or a stream is reduced to    *)
(* the value that is stored.                                                 *)

StreamType ==
  stream' \in [Terminals -> Stream] /\ \A u \in Terminals : ShownSent(stream'[u])

BridgesType == bridge' \in [Terminals -> Bridge]

LEMMA TokenType == Tokens \in SUBSET Nat /\ NextToken \in Nat
<1>1. Tokens \in SUBSET Nat /\ IsFiniteSet(Tokens)
  BY BoundAssumption, FS_Interval DEF Tokens
<1>2. IsFiniteSet({k \in Tokens : timer[k] # "unused"})
  BY <1>1, FS_Subset
<1> QED
  BY <1>1, <1>2, FS_CardinalityType DEF NextToken

LEMMA DeadType == Dead \in Bridge
BY EmptySeq DEF Dead, Bridge

LEMMA AttachedType ==
  ASSUME NEW s \in Nat
  PROVE  Attached(s) \in Bridge
BY DeadType DEF Attached, Bridge

LEMMA PausedType ==
  ASSUME NEW s \in Nat, NEW k \in Nat
  PROVE  Paused(s, k) \in Bridge
BY DeadType DEF Paused, Bridge

LEMMA EmptyType == Empty \in Stream /\ ShownSent(Empty)
BY DEF Empty, Stream, ShownSent

LEMMA ConstantType == /\ NoTx \in Transaction
                      /\ NoWait \in [Terminals -> {"none", "waiting", "reached"}]
                      /\ Idle \in Call
BY DEF NoTx, NoWait, Idle, Transaction, Call

LEMMA IdleGuiType ==
  ASSUME NEW g \in Gui
  PROVE  [g EXCEPT !.pc = "idle", !.wait = NoWait] \in Gui
<1>1. NoWait \in [Terminals -> {"none", "waiting", "reached"}]
  BY ConstantType
<1> QED
  BY <1>1 DEF Gui

LEMMA AppendedCacheType ==
  ASSUME NEW b \in Bridge, NEW unit \in Nat
  PROVE  /\ [b EXCEPT !.cache = Append(@, unit)] \in Bridge
         /\ [b EXCEPT !.parsed = Append(@, unit)] \in Bridge
<1>1. b.cache \in Seq(Nat) /\ b.parsed \in Seq(Nat)
  BY DEF Bridge
<1>2. Append(b.cache, unit) \in Seq(Nat) /\ Append(b.parsed, unit) \in Seq(Nat)
  BY <1>1, AppendProperties
<1> QED
  BY <1>2 DEF Bridge

LEMMA StreamUpdate ==
  ASSUME TypeOK, NEW t \in Terminals, NEW s \in Stream, ShownSent(s),
         stream' = [stream EXCEPT ![t] = s]
  PROVE  StreamType
BY DEF TypeOK, StreamType

LEMMA BridgeUpdate ==
  ASSUME TypeOK, NEW t \in Terminals, NEW b \in Bridge, bridge' = [bridge EXCEPT ![t] = b]
  PROVE  BridgesType
BY DEF TypeOK, BridgesType

LEMMA TerminalParts ==
  ASSUME TypeOK, NEW t \in Terminals
  PROVE  /\ bridge[t] \in Bridge /\ bridge[t].sink \in Nat /\ bridge[t].token \in Nat
         /\ bridge[t].cache \in Seq(Nat) /\ bridge[t].full \in Seq(Nat)
         /\ bridge[t].parsed \in Seq(Nat)
         /\ stream[t] \in Stream /\ ShownSent(stream[t]) /\ stream[t].sent \in Seq(Nat)
         /\ Len(stream[t].sent) \in Nat /\ stream[t].shown \in Nat
         /\ emitted[t] + 1 \in Nat /\ <<emitted[t] + 1>> \in Seq(Nat)
<1>1. bridge[t] \in Bridge /\ stream[t] \in Stream /\ emitted[t] \in Nat /\ ShownSent(stream[t])
  BY DEF TypeOK
<1>2. /\ bridge[t].sink \in Nat /\ bridge[t].token \in Nat
      /\ bridge[t].cache \in Seq(Nat) /\ bridge[t].full \in Seq(Nat)
      /\ bridge[t].parsed \in Seq(Nat)
  BY <1>1 DEF Bridge
<1>3. stream[t].sent \in Seq(Nat) /\ stream[t].shown \in Nat
  BY <1>1 DEF Stream
<1> QED
  BY <1>1, <1>2, <1>3, LenProperties

\* More output on a channel, and an end state, make a stream again.
LEMMA SentType ==
  ASSUME NEW s \in Stream, ShownSent(s), NEW extra \in Seq(Nat),
         NEW end \in {"none", "queued", "shown"}
  PROVE  LET new == [s EXCEPT !.sent = @ \o extra, !.end = end]
         IN  new \in Stream /\ ShownSent(new)
<1>1. /\ s.sent \in Seq(Nat) /\ s.shown \in Nat
      /\ s.sent \o extra \in Seq(Nat) /\ Len(s.sent \o extra) = Len(s.sent) + Len(extra)
  BY ConcatProperties DEF Stream
<1>2. Len(s.sent) \in Nat /\ Len(extra) \in Nat
  BY <1>1, LenProperties
<1> DEFINE sent == s.sent \o extra
<1>3. s.shown <= Len(sent) /\ sent \in Seq(Nat)
  BY <1>1, <1>2 DEF ShownSent
<1> HIDE DEF sent
<1>4. [s EXCEPT !.sent = sent, !.end = end] \in Stream
      /\ ShownSent([s EXCEPT !.sent = sent, !.end = end])
  BY <1>3 DEF Stream, ShownSent
<1> QED
  BY <1>4 DEF sent

\* Whatever is flushed, bridges and streams keep their type.
LEMMA FlushType ==
  ASSUME TypeOK, NEW t \in Terminals, NEW extra \in Seq(Nat), Flush(t, extra)
  PROVE  BridgesType /\ StreamType
<1>1. Pending(t, extra) \in Seq(Nat)
  BY TerminalParts, ConcatProperties DEF Pending
<1>2. CASE FlushFails(t, extra)
  <2>1. bridge' = [bridge EXCEPT ![t] = Dead] /\ UNCHANGED stream
    BY <1>2 DEF Flush
  <2> QED
    BY <2>1, DeadType, BridgeUpdate DEF TypeOK, StreamType
<1>3. CASE ~FlushFails(t, extra)
  <2> DEFINE end  == IF bridge[t].ended /\ Open(t, bridge[t].sink) THEN "queued"
                                                                 ELSE stream[t].end
             new  == [stream[t] EXCEPT !.sent = @ \o Pending(t, extra), !.end = end]
             next == IF bridge[t].ended THEN Dead ELSE Attached(bridge[t].sink)
  <2>1. stream' = [stream EXCEPT ![t] = new] /\ bridge' = [bridge EXCEPT ![t] = next]
    BY <1>3 DEF Flush
  <2>2. end \in {"none", "queued", "shown"}
    BY TerminalParts DEF Stream
  <2> HIDE DEF end
  <2>3. new \in Stream /\ ShownSent(new)
    BY <1>1, <2>2, TerminalParts, SentType
  <2>4. next \in Bridge
    BY DeadType, AttachedType, TerminalParts
  <2> HIDE DEF new, next
  <2> QED
    BY <2>1, <2>3, <2>4, StreamUpdate, BridgeUpdate
<1> QED
  BY <1>2, <1>3

LEMMA OverflowType ==
  ASSUME TypeOK, NEW t \in Terminals, NEW unit \in Nat, EmitOverflow(t, unit),
         conn[t] = "running"
  PROVE  BridgesType /\ StreamType /\ tx' \in Transaction /\ conn' \in [Terminals -> ConnState]
<1>1. <<unit>> \in Seq(Nat) /\ Flush(t, <<unit>>)
  BY DEF EmitOverflow
<1>2. BridgesType /\ StreamType
  BY <1>1, FlushType
<1>3. tx' \in Transaction
  BY DEF EmitOverflow, TypeOK, Transaction
<1>4. conn' \in [Terminals -> ConnState]
  BY DEF EmitOverflow, TypeOK, ConnState
<1> QED
  BY <1>2, <1>3, <1>4

LEMMA EmitDataType ==
  ASSUME TypeOK, NEW t \in Terminals, EmitData(t)
  PROVE  TypeOK'
<1> DEFINE unit == emitted[t] + 1
<1>1. unit \in Nat /\ <<unit>> \in Seq(Nat) /\ conn[t] = "running"
  BY TerminalParts DEF EmitData
<1>2. emitted' \in [Terminals -> Nat]
  BY <1>1 DEF EmitData, TypeOK
<1> HIDE DEF unit
<1>3. SUFFICES BridgesType /\ StreamType /\ tx' \in Transaction
               /\ conn' \in [Terminals -> ConnState]
  BY <1>2 DEF EmitData, TypeOK, BridgesType, StreamType
<1>4. CASE EmitOverflow(t, unit)
  BY <1>1, <1>4, OverflowType
<1>5. CASE EmitAttached(t, unit)
  <2>1. CASE Open(t, bridge[t].sink)
    <3> DEFINE new == [stream[t] EXCEPT !.sent = @ \o <<unit>>, !.end = stream[t].end]
    <3>1. stream[t].end \in {"none", "queued", "shown"}
      BY TerminalParts DEF Stream
    <3>2. new \in Stream /\ ShownSent(new)
      BY <1>1, <3>1, TerminalParts, SentType
    <3>3. Append(stream[t].sent, unit) = stream[t].sent \o <<unit>>
      BY <1>1, TerminalParts, AppendIsConcat
    <3>4. stream' = [stream EXCEPT ![t].sent = stream[t].sent \o <<unit>>]
      BY <1>5, <2>1, <3>3 DEF EmitAttached
    <3>5. stream' = [stream EXCEPT ![t] = new]
      BY <3>4, TerminalParts DEF Stream
    <3> HIDE DEF new
    <3> QED
      BY <1>5, <2>1, <3>2, <3>5, StreamUpdate DEF EmitAttached, TypeOK, BridgesType
  <2>2. CASE ~Open(t, bridge[t].sink)
    BY <1>5, <2>2 DEF EmitAttached, TypeOK, BridgesType, StreamType, ConnState
  <2> QED
    BY <2>1, <2>2
<1>6. CASE EmitPaused(t, unit) /\ ~EmitOverflow(t, unit)
  <2> DEFINE new == [bridge[t] EXCEPT !.cache = Append(@, unit)]
  <2>1. bridge' = [bridge EXCEPT ![t] = new] /\ UNCHANGED <<stream, tx, conn>>
    BY <1>6 DEF EmitPaused
  <2>2. new \in Bridge
    BY <1>1, TerminalParts, AppendedCacheType
  <2> HIDE DEF new
  <2> QED
    BY <2>1, <2>2, BridgeUpdate DEF TypeOK, StreamType
<1>7. CASE EmitDetached(t, unit) /\ ~EmitOverflow(t, unit)
  <2> DEFINE seen   == [bridge[t] EXCEPT !.parsed = Append(@, unit)]
             held   == [seen EXCEPT !.cache = Append(@, unit)]
             folded == [seen EXCEPT !.full = <<>>, !.cache = <<>>, !.truncated = TRUE]
  <2>1. /\ \/ bridge' = [bridge EXCEPT ![t] = held]
           \/ bridge' = [bridge EXCEPT ![t] = folded]
        /\ UNCHANGED <<stream, tx, conn>>
    BY <1>7 DEF EmitDetached
  <2>2. seen \in Bridge
    BY <1>1, TerminalParts, AppendedCacheType
  <2>3. held \in Bridge
    BY <1>1, <2>2, AppendedCacheType
  <2>4. folded \in Bridge
    BY <2>2, EmptySeq DEF Bridge
  <2> HIDE DEF held, folded
  <2>5. BridgesType
    BY <2>1, <2>3, <2>4, BridgeUpdate
  <2> QED
    BY <2>1, <2>5 DEF TypeOK, StreamType
<1>8. CASE EmitDead(t)
  BY <1>8 DEF EmitDead, TypeOK, BridgesType, StreamType
<1> QED
  BY <1>4, <1>5, <1>6, <1>7, <1>8 DEF EmitData, unit

LEMMA EmitEndType ==
  ASSUME TypeOK, NEW t \in Terminals, EmitEnd(t)
  PROVE  TypeOK'
<1> DEFINE queued == [stream[t] EXCEPT !.end = "queued"]
           ended  == [bridge[t] EXCEPT !.ended = TRUE]
<1>1. conn' \in [Terminals -> ConnState]
  BY DEF EmitEnd, TypeOK, ConnState
<1>2. SUFFICES BridgesType /\ StreamType
  BY <1>1 DEF EmitEnd, TypeOK, BridgesType, StreamType
<1>3. CASE /\ stream' = [stream EXCEPT ![t] = queued]
           /\ bridge' = [bridge EXCEPT ![t] = Dead]
  <2>1. queued \in Stream /\ ShownSent(queued)
    BY TerminalParts DEF Stream, ShownSent
  <2> HIDE DEF queued
  <2> QED
    BY <1>3, <2>1, StreamUpdate, BridgeUpdate, DeadType
<1>4. CASE bridge' = [bridge EXCEPT ![t] = ended] /\ UNCHANGED stream
  <2>1. ended \in Bridge
    BY TerminalParts DEF Bridge
  <2> HIDE DEF ended
  <2> QED
    BY <1>4, <2>1, BridgeUpdate DEF TypeOK, StreamType
<1>5. CASE UNCHANGED <<bridge, stream>>
  BY <1>5 DEF TypeOK, BridgesType, StreamType
<1> QED
  BY <1>3, <1>4, <1>5 DEF EmitEnd

LEMMA ConnectType ==
  ASSUME TypeOK, NEW t \in Terminals, Connect(t) \/ ConnectReturns(t)
  PROVE  TypeOK'
<1>1. CASE Connect(t)
  BY <1>1 DEF Connect, TypeOK, ConnState
<1>2. CASE /\ ConnectReturns(t)
           /\ bridge' = [bridge EXCEPT ![t] = Attached(window.gen)]
           /\ conn' = [conn EXCEPT ![t] = "running"]
           /\ gui' = [gui EXCEPT !.connected = @ \cup {t}]
  <2>1. Attached(window.gen) \in Bridge
    BY AttachedType DEF TypeOK
  <2>2. BridgesType
    BY <1>2, <2>1, BridgeUpdate
  <2>3. gui' \in Gui
    BY <1>2 DEF TypeOK, Gui
  <2>4. conn' \in [Terminals -> ConnState]
    BY <1>2 DEF TypeOK, ConnState
  <2> QED
    BY <1>2, <2>2, <2>3, <2>4 DEF ConnectReturns, TypeOK, BridgesType
<1>3. CASE /\ ConnectReturns(t)
           /\ conn' = [conn EXCEPT ![t] = "absent"] /\ UNCHANGED <<bridge, gui>>
  BY <1>3 DEF ConnectReturns, TypeOK, ConnState
<1> QED
  BY <1>1, <1>2, <1>3 DEF ConnectReturns

LEMMA DrawType ==
  ASSUME TypeOK, NEW t \in Terminals, Draw(t)
  PROVE  TypeOK'
<1>1. CASE ReceiveData(t)
  <2> DEFINE new == [stream[t] EXCEPT !.shown = @ + 1]
  <2>1. stream' = [stream EXCEPT ![t] = new] /\ stream[t].shown < Len(stream[t].sent)
    BY <1>1 DEF ReceiveData, DataNext
  <2>2. stream[t] \in Stream /\ Len(stream[t].sent) \in Nat /\ stream[t].shown + 1 \in Nat
    BY TerminalParts
  <2>3. stream[t].shown + 1 <= Len(stream[t].sent)
    BY <2>1, TerminalParts
  <2>4. new \in Stream
    BY <2>2 DEF Stream
  <2>5. ShownSent(new)
    BY <2>2, <2>3 DEF ShownSent, Stream
  <2> HIDE DEF new
  <2>6. StreamType
    BY <2>1, <2>4, <2>5, StreamUpdate
  <2> QED
    BY <1>1, <2>6 DEF ReceiveData, TypeOK, StreamType
<1>2. CASE ReceiveBarrier(t)
  <2> DEFINE new == [stream[t] EXCEPT !.barriers = Tail(@)]
  <2>1. stream' = [stream EXCEPT ![t] = new] /\ stream[t].barriers # <<>>
    BY <1>2 DEF ReceiveBarrier
  <2>2. new \in Stream /\ ShownSent(new)
    BY <2>1, TerminalParts, HeadTailProperties DEF Stream, ShownSent
  <2> HIDE DEF new
  <2>3. StreamType
    BY <2>1, <2>2, StreamUpdate
  <2>4. gui' \in Gui
    BY <1>2 DEF ReceiveBarrier, TypeOK, Gui
  <2> QED
    BY <1>2, <2>3, <2>4 DEF ReceiveBarrier, TypeOK, StreamType
<1>3. CASE ReceiveEnd(t)
  <2> DEFINE new == [stream[t] EXCEPT !.end = "shown"]
  <2>1. stream' = [stream EXCEPT ![t] = new]
    BY <1>3 DEF ReceiveEnd
  <2>2. new \in Stream /\ ShownSent(new)
    BY TerminalParts DEF Stream, ShownSent
  <2> HIDE DEF new
  <2>3. StreamType
    BY <2>1, <2>2, StreamUpdate
  <2>4. gui' \in Gui
    BY <1>3 DEF ReceiveEnd, TypeOK, Gui
  <2> QED
    BY <1>3, <2>3, <2>4 DEF ReceiveEnd, TypeOK, StreamType
<1> QED
  BY <1>1, <1>2, <1>3 DEF Draw

\* Steps that move one terminal's output, window or channel.
LEMMA TerminalType ==
  ASSUME TypeOK, NEW t \in Terminals,
         \/ TerminalStep(t) \/ Draw(t) \/ BreakChannel(t)
  PROVE  TypeOK'
<1>1. CASE FinishConnection(t)
  BY <1>1 DEF FinishConnection, TypeOK, ConnState
<1>2. CASE BreakChannel(t)
  BY <1>2 DEF BreakChannel, TypeOK, Gui
<1> QED
  BY <1>1, <1>2, EmitDataType, EmitEndType, ConnectType, DrawType DEF TerminalStep

LEMMA AbortCallType ==
  ASSUME TypeOK, AbortCall
  PROVE  TypeOK'
<1>1. CASE tx.token = gui.token
  <2>1. op' \in Call
    BY <1>1 DEF AbortCall, TypeOK, Call, Transaction
  <2> QED
    BY <1>1, <2>1 DEF AbortCall, TypeOK
<1>2. CASE tx.token # gui.token
  <2>1. gui' \in Gui
    BY <1>2, IdleGuiType DEF AbortCall, TypeOK
  <2> QED
    BY <1>2, <2>1 DEF AbortCall, TypeOK
<1> QED
  BY <1>1, <1>2

LEMMA WindowType ==
  ASSUME TypeOK,
         \/ Enter \/ CaptureFails \/ CaptureDone \/ Activate
         \/ BeginRefused \/ Begin \/ CommitRefused \/ Commit \/ AbortCall \/ FinishRestore
  PROVE  TypeOK'
<1>1. CASE Enter
  BY <1>1 DEF Enter, TypeOK, Gui
<1>2. CASE CaptureFails
  BY <1>2 DEF CaptureFails, TypeOK, Gui
<1>3. CASE CaptureDone
  BY <1>3 DEF CaptureDone, TypeOK, Gui
<1>4. CASE Activate
  <2>1. gui' \in Gui
    BY <1>4, ConstantType DEF Activate, TypeOK, Gui
  <2>2. StreamType
    BY <1>4, EmptyType DEF Activate, StreamType
  <2>3. window' \in [gen : Nat, open : BOOLEAN]
    BY <1>4 DEF Activate, TypeOK
  <2> QED
    BY <1>4, <2>1, <2>2, <2>3 DEF Activate, TypeOK, StreamType
<1>5. CASE BeginRefused
  BY <1>5, IdleGuiType DEF BeginRefused, TypeOK
<1>6. CASE Begin
  <2>1. tx' \in Transaction
    BY <1>6, ConstantType, TokenType DEF Begin, Transaction, Live
  <2>2. op' \in Call
    BY <1>6 DEF Begin, Call, Live
  <2>3. timer' \in [Tokens -> {"unused", "pending", "expired", "done"}]
    BY <1>6 DEF Begin, TypeOK
  <2> QED
    BY <1>6, <2>1, <2>2, <2>3 DEF Begin, TypeOK
<1>7. CASE CommitRefused
  BY <1>7 DEF CommitRefused, TypeOK, Gui
<1>8. CASE Commit
  BY <1>8 DEF Commit, TypeOK, Call, Transaction
<1>9. CASE AbortCall
  BY <1>9, AbortCallType
<1>10. CASE FinishRestore
  <2>1. conn' \in [Terminals -> ConnState]
    BY <1>10 DEF FinishRestore, TypeOK, ConnState
  <2>2. gui' \in Gui
    BY <1>10 DEF FinishRestore, TypeOK, Gui
  <2> QED
    BY <1>10, <2>1, <2>2 DEF FinishRestore, TypeOK
<1> QED
  BY <1>1, <1>2, <1>3, <1>4, <1>5, <1>6, <1>7, <1>8, <1>9, <1>10

LEMMA UploadType ==
  ASSUME TypeOK, NEW t \in Terminals, Upload(t)
  PROVE  TypeOK'
<1> DEFINE screen == Screen(t)
<1>1. screen \in Seq(Nat)
  BY TerminalParts, SubSeqProperties, ElementOfSeq DEF Screen, ShownSent
<1>3. UNCHANGED <<bridge, op, preserved, active, timer, conn, emitted, stream, window>>
  BY DEF Upload
<1>4. CASE SnapshotAccepted(t)
  <2>1. /\ tx' = [tx EXCEPT !.full[t] = screen, !.uploaded = @ \cup {t}]
        /\ gui' = [gui EXCEPT !.todo = @ \ {t}, !.wait[t] = "none"]
    BY <1>4 DEF Upload
  <2> HIDE DEF screen
  <2>2. tx' \in Transaction
    BY <1>1, <2>1 DEF TypeOK, Transaction
  <2>3. gui' \in Gui
    BY <2>1 DEF TypeOK, Gui
  <2> QED
    BY <1>3, <2>2, <2>3 DEF TypeOK
<1>5. CASE ~SnapshotAccepted(t)
  <2>1. gui' = [gui EXCEPT !.pc = "abort", !.wait[t] = "none"] /\ UNCHANGED tx
    BY <1>5 DEF Upload
  <2>2. gui' \in Gui
    BY <2>1 DEF TypeOK, Gui
  <2> QED
    BY <1>3, <2>1, <2>2 DEF TypeOK
<1> QED
  BY <1>4, <1>5

LEMMA RestoredType ==
  ASSUME NEW sent \in Seq(Nat), NEW end \in {"none", "queued", "shown"}
  PROVE  LET new == [Empty EXCEPT !.sent = sent, !.end = end]
         IN  new \in Stream /\ ShownSent(new)
<1>1. Empty \in Stream /\ Empty.shown = 0 /\ Len(sent) \in Nat
  BY EmptyType, LenProperties DEF Empty
<1>2. [Empty EXCEPT !.sent = sent, !.end = end] \in Stream
  BY <1>1 DEF Stream
<1>3. ShownSent([Empty EXCEPT !.sent = sent, !.end = end])
  BY <1>1 DEF ShownSent, Stream
<1> QED
  BY <1>2, <1>3

LEMMA AttachType ==
  ASSUME TypeOK, NEW t \in Terminals, Attach(t)
  PROVE  TypeOK'
<1> DEFINE sent == Restored(bridge[t])
           end  == IF bridge[t].ended THEN "queued" ELSE "none"
           new  == [Empty EXCEPT !.sent = sent, !.end = end]
           next == IF bridge[t].ended THEN Dead ELSE Attached(window.gen)
<1>1. sent \in Seq(Nat) /\ Len(sent) \in Nat
  BY TerminalParts, ConcatProperties, LenProperties DEF Restored
<1>2. end \in {"none", "queued", "shown"}
  OBVIOUS
<1>3. stream' = [stream EXCEPT ![t] = new] /\ bridge' = [bridge EXCEPT ![t] = next]
  BY DEF Attach
<1>4. next \in Bridge
  BY DeadType, AttachedType DEF TypeOK
<1> HIDE DEF sent, end, next
<1>5. new \in Stream /\ ShownSent(new)
  BY <1>1, <1>2, RestoredType
<1> HIDE DEF new
<1>6. StreamType /\ BridgesType
  BY <1>3, <1>4, <1>5, StreamUpdate, BridgeUpdate
<1>7. gui' \in Gui
  BY DEF Attach, TypeOK, Gui
<1> QED
  BY <1>6, <1>7 DEF Attach, TypeOK, StreamType, BridgesType

LEMMA AttachFailsType ==
  ASSUME TypeOK, NEW t \in Terminals, AttachFails(t)
  PROVE  TypeOK'
BY DEF AttachFails, TypeOK, Gui, ConnState

LEMMA FallbackDroppedType ==
  ASSUME NEW b \in Bridge, NEW cache \in Seq(Nat)
  PROVE  [b EXCEPT !.sink = 0, !.cache = cache] \in Bridge
BY DEF Bridge

LEMMA FinalizeType ==
  ASSUME TypeOK, Finalize
  PROVE  TypeOK'
<1>1. ASSUME NEW t \in Terminals PROVE bridge'[t] \in Bridge
  <2>1. CASE t \in tx.terminals
    <3> DEFINE cache == IF bridge[t].truncated THEN <<>> ELSE bridge[t].cache
    <3>1. bridge'[t] = [bridge[t] EXCEPT !.sink = 0, !.cache = cache]
      BY <2>1 DEF Finalize
    <3>2. cache \in Seq(Nat)
      BY TerminalParts, EmptySeq
    <3> HIDE DEF cache
    <3>3. bridge[t] \in Bridge
      BY TerminalParts
    <3> QED
      BY <3>1, <3>2, <3>3, FallbackDroppedType
  <2>2. CASE t \notin tx.terminals
    BY <2>2, TerminalParts DEF Finalize
  <2> QED
    BY <2>1, <2>2
<1>2. DOMAIN bridge' = Terminals /\ bridge' = [t \in Terminals |-> bridge'[t]]
  BY DEF Finalize
<1>3. bridge' \in [Terminals -> Bridge]
  BY <1>1, <1>2
<1>4. gui' \in Gui
  BY IdleGuiType DEF Finalize, TypeOK
<1>5. preserved' \subseteq Terminals
  BY DEF Finalize, TypeOK, Transaction
<1> QED
  BY <1>3, <1>4, <1>5, ConstantType DEF Finalize, TypeOK

LEMMA PauseType ==
  ASSUME TypeOK, NEW t \in Terminals, Pause(t)
  PROVE  TypeOK'
<1>1. CASE bridge[t].mode = "attached" /\ Open(t, bridge[t].sink)
  <2> DEFINE new  == [stream[t] EXCEPT !.barriers = Append(@, Len(stream[t].sent))]
             next == Paused(bridge[t].sink, tx.token)
  <2>1. stream' = [stream EXCEPT ![t] = new] /\ bridge' = [bridge EXCEPT ![t] = next]
    BY <1>1 DEF Pause
  <2> DEFINE barriers == Append(stream[t].barriers, Len(stream[t].sent))
  <2>a. stream[t] \in Stream /\ barriers \in Seq(Nat)
    BY TerminalParts, AppendProperties DEF Stream
  <2>b. ShownSent(stream[t])
    BY TerminalParts
  <2> HIDE DEF barriers
  <2>2. [stream[t] EXCEPT !.barriers = barriers] \in Stream
        /\ ShownSent([stream[t] EXCEPT !.barriers = barriers])
    BY <2>a, <2>b DEF Stream, ShownSent
  <2>3. next \in Bridge
    BY TerminalParts, PausedType DEF TypeOK, Transaction
  <2> HIDE DEF next
  <2>4. StreamType /\ BridgesType
    BY <2>1, <2>2, <2>3, StreamUpdate, BridgeUpdate DEF barriers
  <2>5. op' \in Call
    BY <1>1 DEF Pause, TypeOK, Call
  <2> QED
    BY <1>1, <2>4, <2>5 DEF Pause, TypeOK, StreamType, BridgesType
<1>2. CASE ~(bridge[t].mode = "attached" /\ Open(t, bridge[t].sink))
  <2>1. op' \in Call
    BY <1>2 DEF Pause, TypeOK, Call, Transaction
  <2> QED
    BY <1>2, <2>1 DEF Pause, TypeOK
<1> QED
  BY <1>1, <1>2

LEMMA DetachType ==
  ASSUME TypeOK, NEW t \in Terminals, Detach(t)
  PROVE  TypeOK'
<1>1. tx.full[t] \in Seq(Nat)
  BY DEF TypeOK, Transaction
<1>2. Replay(t) \in Seq(Nat)
  BY <1>1, TerminalParts, ConcatProperties DEF Replay
<1>3. CASE op' = [op EXCEPT !.todo = @ \ {t}]
  <2>1. CASE op' # [op EXCEPT !.kind = "undo", !.todo = tx.terminals]
    <3> DEFINE keep == Len(tx.full[t]) + Len(bridge[t].cache) + ScreenSize <= TerminalLimit
               full == IF keep THEN tx.full[t] ELSE <<>>
               next == [bridge[t] EXCEPT !.mode = "detached", !.parsed = Replay(t),
                                         !.full = full, !.truncated = ~keep]
    <3>1. bridge' = [bridge EXCEPT ![t] = next] /\ tx' = [tx EXCEPT !.full[t] = <<>>]
      BY <2>1 DEF Detach
    <3>2. full \in Seq(Nat) /\ (~keep) \in BOOLEAN
      BY <1>1, EmptySeq
    <3> HIDE DEF keep, full
    <3>3. next \in Bridge
      BY <1>2, <3>2, TerminalParts DEF Bridge
    <3> HIDE DEF next
    <3>4. BridgesType
      BY <3>1, <3>3, BridgeUpdate
    <3>5. tx' \in Transaction
      BY <3>1, EmptySeq DEF TypeOK, Transaction
    <3>6. op' \in Call
      BY <1>3 DEF TypeOK, Call
    <3> QED
      BY <3>4, <3>5, <3>6 DEF Detach, TypeOK, BridgesType
  <2>2. CASE op' = [op EXCEPT !.kind = "undo", !.todo = tx.terminals]
    <3>1. op'.kind = "undo" /\ op'.kind = "detach"
      BY <1>3, <2>2 DEF Detach, TypeOK, Call
    <3> QED
      BY <3>1
  <2> QED
    BY <2>1, <2>2
<1>4. CASE op' = [op EXCEPT !.kind = "undo", !.todo = tx.terminals] /\ UNCHANGED <<bridge, tx>>
  <2>1. op' \in Call
    BY <1>4 DEF TypeOK, Call, Transaction
  <2> QED
    BY <1>4, <2>1 DEF Detach, TypeOK
<1> QED
  BY <1>3, <1>4 DEF Detach

LEMMA UndoType ==
  ASSUME TypeOK, NEW t \in Terminals, Undo(t)
  PROVE  TypeOK'
<1>1. op' \in Call
  BY DEF Undo, TypeOK, Call
<1>2. CASE HeldFor(bridge[t], tx.token)
  <2>1. <<>> \in Seq(Nat) /\ Flush(t, <<>>)
    BY <1>2, EmptySeq DEF Undo
  <2>2. BridgesType /\ StreamType
    BY <2>1, FlushType
  <2> QED
    BY <1>1, <2>2 DEF Undo, TypeOK, BridgesType, StreamType
<1>3. CASE ~HeldFor(bridge[t], tx.token)
  BY <1>1, <1>3 DEF Undo, TypeOK
<1> QED
  BY <1>2, <1>3

LEMMA ServiceType ==
  ASSUME TypeOK, ServiceStep
  PROVE  TypeOK'
<1>1. CASE BeginDone
  <2>1. gui' \in Gui
    BY <1>1 DEF BeginDone, TypeOK, Gui, Transaction
  <2>2. timer' \in [Tokens -> {"unused", "pending", "expired", "done"}]
    BY <1>1 DEF BeginDone, TypeOK
  <2> QED
    BY <1>1, <2>1, <2>2, ConstantType DEF BeginDone, TypeOK
<1>2. CASE FinalizeFails
  BY <1>2 DEF FinalizeFails, TypeOK, Call, Transaction
<1>3. CASE UndoDone
  <2>1. gui' \in Gui
    BY <1>3, ConstantType DEF UndoDone, TypeOK, Gui
  <2> QED
    BY <1>3, <2>1, ConstantType DEF UndoDone, TypeOK
<1> QED
  BY <1>1, <1>2, <1>3, FinalizeType, PauseType, DetachType, UndoType DEF ServiceStep

LEMMA TimerType ==
  ASSUME TypeOK, NEW k \in Tokens, Expire(k) \/ TimerAbort(k)
  PROVE  TypeOK'
<1>1. CASE Expire(k)
  BY <1>1 DEF Expire, TypeOK
<1>2. CASE TimerAbort(k)
  <2>1. op' \in Call
    BY <1>2 DEF TimerAbort, TypeOK, Call, Transaction
  <2>2. timer' \in [Tokens -> {"unused", "pending", "expired", "done"}]
    BY <1>2 DEF TimerAbort, TypeOK
  <2> QED
    BY <1>2, <2>1, <2>2 DEF TimerAbort, TypeOK
<1> QED
  BY <1>1, <1>2

LEMMA InitType == Init => TypeOK
<1> SUFFICES ASSUME Init PROVE TypeOK
  OBVIOUS
<1>1. bridge \in [Terminals -> Bridge]
  BY DeadType, AttachedType DEF Init
<1>2. gui \in Gui
  BY ConstantType DEF Init, Gui
<1>3. stream \in [Terminals -> Stream] /\ \A t \in Terminals : ShownSent(stream[t])
  BY EmptyType DEF Init
<1>4. conn \in [Terminals -> ConnState]
  BY DEF Init, ConnState
<1> QED
  BY <1>1, <1>2, <1>3, <1>4, ConstantType DEF Init, TypeOK

\* Every variable keeps its type, the window never shows more than was sent.
THEOREM TypeCorrect == Spec => []TypeOK
<1>1. TypeOK /\ [Next]_vars => TypeOK'
  <2> SUFFICES ASSUME TypeOK, [Next]_vars PROVE TypeOK'
    OBVIOUS
  <2>1. ASSUME NEW t \in Terminals, TerminalStep(t) PROVE TypeOK'
    BY <2>1, TerminalType
  <2>2. CASE WindowStep
    BY <2>2, WindowType, TerminalType, UploadType, AttachType, AttachFailsType DEF WindowStep
  <2>3. CASE ServiceStep
    BY <2>3, ServiceType
  <2>4. ASSUME NEW k \in Tokens, Expire(k) \/ TimerAbort(k) PROVE TypeOK'
    BY <2>4, TimerType
  <2>5. CASE UNCHANGED vars
    BY <2>5 DEF vars, TypeOK
  <2> QED
    BY <2>1, <2>2, <2>3, <2>4, <2>5 DEF Next
<1> QED
  BY <1>1, InitType, PTL DEF Spec

-----------------------------------------------------------------------------
(* What a transaction holds back it can release, and a group of terminals    *)
(* is detached as a whole.                                                   *)


\* A bridge that a transaction keeps from its window and can give back.
Held(t) == bridge[t].mode = "paused" \/ (bridge[t].mode = "detached" /\ bridge[t].sink # 0)

\* Whatever is held is held for the transaction that is there, and a roll-back has
\* still to visit it.
HoldInv ==
  /\ op.kind # "none" => tx.token # 0 /\ op.todo \subseteq tx.terminals
  /\ \A t \in Terminals : Held(t) =>
       /\ tx.token # 0 /\ t \in tx.terminals
       /\ bridge[t].token = tx.token /\ bridge[t].sink # 0
       /\ op.kind = "undo" => t \in op.todo
  /\ window.gen # 0
  /\ gui.pc \in {"capture", "commit", "abort"} => gui.token # 0
  /\ op.kind # "none" /\ op.by = "commit" => gui.token # 0

\* The terminals of a transaction are all there are until it ends; without a
\* window all of them are preserved.
GroupInv ==
  /\ tx.token # 0 => /\ \A t \in Terminals : conn[t] # "connecting"
                     /\ Live \subseteq tx.terminals
                     /\ preserved = {} /\ gui.restoring = {}
  /\ ~window.open => /\ \A t \in Terminals : conn[t] # "connecting"
                     /\ Live \subseteq preserved /\ gui.restoring = {}
  /\ gui.pc = "begin" => gui.restoring = {}
  /\ \A t \in Terminals :
       /\ conn[t] \in {"absent", "connecting"} => bridge[t].mode = "dead"
       /\ t \in preserved => bridge[t].mode = "detached" /\ bridge[t].sink = 0
       /\ bridge[t].mode = "detached" /\ bridge[t].sink = 0 /\ t \in Live => t \in preserved

Inv == TypeOK /\ HoldInv /\ GroupInv

\* A bridge keeps its state, or it is released, or it dies.
Released(t) ==
  \/ /\ bridge'[t].mode = bridge[t].mode /\ bridge'[t].sink = bridge[t].sink
     /\ bridge'[t].token = bridge[t].token
  \/ (Held(t) \/ bridge[t].mode = "attached") /\ bridge'[t].mode \in {"attached", "dead"}

\* A connection stays what it is or ends.
Ending(t) ==
  \/ conn'[t] = conn[t]
  \/ conn'[t] = "closing" /\ conn[t] = "running"
  \/ conn'[t] = "closed"

\* The call that holds the runtime lock ends, goes on, or visits the whole group;
\* it is the commit's only when the window has a token.
CallKept ==
  \/ op' = op
  \/ op'.kind = "none"
  \/ /\ tx.token # 0 /\ op'.todo = tx.terminals
     /\ op'.by = "commit" => gui.token # 0 \/ (op.kind # "none" /\ op.by = "commit")

\* The window starts nothing it may not start.
WindowKept ==
  /\ gui'.restoring \subseteq gui.restoring
  /\ gui'.pc = "begin" => gui.pc = "begin" \/ gui.restoring = {}
  /\ gui'.pc \in {"capture", "commit", "abort"} => gui'.token # 0
  /\ gui'.token = gui.token \/ gui'.token # 0

Kept == HoldInv' /\ GroupInv'

\* Most steps leave the transaction, the preserved terminals and the window alone.
LEMMA QuietStep ==
  ASSUME HoldInv, GroupInv, preserved \subseteq Terminals,
         \A t \in Terminals : Released(t) /\ Ending(t),
         tx'.token = tx.token, tx'.terminals = tx.terminals,
         CallKept, WindowKept, UNCHANGED <<preserved, window>>
  PROVE  Kept
<1>1. Live' \subseteq Live
  BY DEF Live, Ending
<1>2. \A t \in Terminals : Held(t)' => /\ Held(t) /\ bridge'[t].token = bridge[t].token
                                       /\ bridge'[t].sink = bridge[t].sink
  BY DEF Held, Released
<1>3. HoldInv'
  BY <1>2 DEF HoldInv, CallKept, WindowKept
<1>4. \A t \in Terminals : conn'[t] \in {"absent", "connecting"} => conn'[t] = conn[t]
  BY DEF Ending
<1>5. GroupInv'
  BY <1>1, <1>4 DEF GroupInv, Released, Held, WindowKept
<1> QED BY <1>3, <1>5 DEF Kept

\* The window keeps its token, its group to restore and its phase.
LEMMA WindowSame ==
  ASSUME HoldInv, UNCHANGED <<gui.pc, gui.token, gui.restoring>>
  PROVE  WindowKept
BY DEF HoldInv, WindowKept

LEMMA FlushedMode ==
  ASSUME bridge \in [Terminals -> Bridge], NEW t \in Terminals, NEW extra, Flush(t, extra)
  PROVE  bridge'[t].mode \in {"attached", "dead"}
<1>1. bridge'[t] = Dead \/ bridge'[t] = Attached(bridge[t].sink)
  BY DEF Flush
<1>2. Dead.mode = "dead" /\ Attached(bridge[t].sink).mode = "attached"
  BY DEF Dead, Attached
<1> QED
  BY <1>1, <1>2

LEMMA FlushReleases ==
  ASSUME TypeOK, NEW t \in Terminals, NEW extra, Flush(t, extra),
         Held(t) \/ bridge[t].mode = "attached"
  PROVE  \A u \in Terminals : Released(u)
<1>1. bridge \in [Terminals -> Bridge]
  BY DEF TypeOK
<1>2. \A u \in Terminals : u # t => bridge'[u] = bridge[u]
  BY <1>1 DEF Flush
<1>3. bridge'[t].mode \in {"attached", "dead"}
  BY <1>1, FlushedMode
<1> QED
  BY <1>2, <1>3 DEF Released

LEMMA SameBridges ==
  ASSUME UNCHANGED bridge
  PROVE  \A t \in Terminals : Released(t)
BY DEF Released

LEMMA SameConnections ==
  ASSUME UNCHANGED conn
  PROVE  \A t \in Terminals : Ending(t)
BY DEF Ending

\* One connection ends.
LEMMA OneEnds ==
  ASSUME TypeOK, NEW t \in Terminals,
         \/ conn' = [conn EXCEPT ![t] = "closed"]
         \/ conn[t] = "running" /\ conn' = [conn EXCEPT ![t] = "closing"]
         \/ conn[t] = "running" /\ conn' = [conn EXCEPT ![t] = IF FlushFails(t, <<emitted[t] + 1>>)
                                                               THEN "closing" ELSE @]
  PROVE  \A u \in Terminals : Ending(u)
BY DEF TypeOK, Ending

-----------------------------------------------------------------------------
(* The steps of the terminals and of the window's drawing.                   *)

LEMMA EmitDataKeeps ==
  ASSUME Inv, NEW t \in Terminals, EmitData(t)
  PROVE  Kept
<1> DEFINE unit == emitted[t] + 1
<1>1. TypeOK /\ HoldInv /\ GroupInv /\ preserved \subseteq Terminals
  BY DEF Inv, TypeOK
<1>2. conn[t] = "running" /\ UNCHANGED <<op, preserved, window, gui>>
  BY DEF EmitData
<1>3. SUFFICES /\ \A u \in Terminals : Released(u) /\ Ending(u)
               /\ tx'.token = tx.token /\ tx'.terminals = tx.terminals
  BY <1>1, <1>2, <1>3, QuietStep, WindowSame DEF CallKept
<1>4. bridge \in [Terminals -> Bridge] /\ tx \in Transaction
  BY <1>1 DEF TypeOK
<1>5. CASE EmitOverflow(t, unit) /\ Held(t)
  <2>1. Flush(t, <<unit>>) /\ tx'.token = tx.token /\ tx'.terminals = tx.terminals
    BY <1>4, <1>5 DEF EmitOverflow, Transaction
  <2>2. \A u \in Terminals : Ending(u)
    BY <1>1, <1>2, <1>5, OneEnds DEF EmitOverflow
  <2> QED
    BY <1>1, <1>5, <2>1, <2>2, FlushReleases
<1>6. CASE UNCHANGED <<bridge, tx>> /\ (UNCHANGED conn \/ conn' = [conn EXCEPT ![t] = "closing"])
  BY <1>1, <1>2, <1>6, SameBridges, SameConnections, OneEnds
<1>7. CASE /\ UNCHANGED <<tx, conn>>
           /\ \A u \in Terminals : /\ bridge'[u].mode = bridge[u].mode
                                   /\ bridge'[u].sink = bridge[u].sink
                                   /\ bridge'[u].token = bridge[u].token
  BY <1>7, SameConnections DEF Released
<1>8. CASE EmitAttached(t, unit) \/ EmitDead(t)
  BY <1>6, <1>8 DEF EmitAttached, EmitDead
<1>9. CASE EmitPaused(t, unit)
  <2>1. CASE bridge' = [bridge EXCEPT ![t].cache = Append(@, unit)] /\ UNCHANGED <<tx, conn>>
    BY <1>4, <1>7, <2>1 DEF Bridge
  <2> QED
    BY <1>5, <1>9, <2>1 DEF EmitPaused, Held
<1>10. CASE EmitDetached(t, unit)
  <2> DEFINE seen   == [bridge[t] EXCEPT !.parsed = Append(@, unit)]
             held   == [seen EXCEPT !.cache = Append(@, unit)]
             folded == [seen EXCEPT !.full = <<>>, !.cache = <<>>, !.truncated = TRUE]
  <2>1. CASE /\ \/ bridge' = [bridge EXCEPT ![t] = held]
                \/ bridge' = [bridge EXCEPT ![t] = folded]
             /\ UNCHANGED <<tx, conn>>
    <3>1. bridge[t] \in Bridge
      BY <1>4
    <3>2. /\ held.mode = bridge[t].mode /\ held.sink = bridge[t].sink
          /\ held.token = bridge[t].token
      BY <3>1 DEF Bridge
    <3>3. /\ folded.mode = bridge[t].mode /\ folded.sink = bridge[t].sink
          /\ folded.token = bridge[t].token
      BY <3>1 DEF Bridge
    <3> HIDE DEF held, folded
    <3> QED
      BY <1>4, <1>7, <2>1, <3>2, <3>3
  <2> QED
    BY <1>5, <1>10, <2>1 DEF EmitDetached, Held
<1> QED
  BY <1>8, <1>9, <1>10 DEF EmitData

LEMMA EmitEndKeeps ==
  ASSUME Inv, NEW t \in Terminals, EmitEnd(t)
  PROVE  Kept
<1>1. TypeOK /\ HoldInv /\ GroupInv /\ preserved \subseteq Terminals
      /\ bridge \in [Terminals -> Bridge]
  BY DEF Inv, TypeOK
<1>2. /\ conn[t] = "running" /\ conn' = [conn EXCEPT ![t] = "closing"]
      /\ UNCHANGED <<tx, op, preserved, window, gui>>
  BY DEF EmitEnd
<1>3. \A u \in Terminals : Ending(u)
  BY <1>1, <1>2, OneEnds
<1> SUFFICES \A u \in Terminals : Released(u)
  BY <1>1, <1>2, <1>3, QuietStep, WindowSame DEF CallKept
<1>4. CASE bridge[t].mode = "attached" /\ bridge' = [bridge EXCEPT ![t] = Dead]
  <2>1. bridge'[t] = Dead /\ Dead.mode = "dead"
    BY <1>1, <1>4 DEF Dead
  <2>2. \A u \in Terminals : u # t => bridge'[u] = bridge[u]
    BY <1>1, <1>4
  <2> QED
    BY <1>4, <2>1, <2>2 DEF Released
<1>5. CASE bridge' = [bridge EXCEPT ![t].ended = TRUE]
  <2>1. bridge'[t] = [bridge[t] EXCEPT !.ended = TRUE] /\ bridge[t] \in Bridge
    BY <1>1, <1>5
  <2>2. Released(t)
    BY <2>1 DEF Released, Bridge
  <2>3. \A u \in Terminals : u # t => bridge'[u] = bridge[u]
    BY <1>1, <1>5
  <2> QED
    BY <2>2, <2>3 DEF Released
<1>6. CASE bridge' = bridge
  BY <1>6, SameBridges
<1> QED
  BY <1>4, <1>5, <1>6 DEF EmitEnd

LEMMA DrawKeeps ==
  ASSUME Inv, NEW t \in Terminals,
         Draw(t) \/ BreakChannel(t) \/ FinishConnection(t)
  PROVE  Kept
<1>1. TypeOK /\ HoldInv /\ GroupInv /\ preserved \subseteq Terminals /\ gui \in Gui
  BY DEF Inv, TypeOK
<1>2. UNCHANGED <<bridge, tx, op, preserved, window>>
  BY DEF Draw, ReceiveData, ReceiveBarrier, ReceiveEnd, BreakChannel, FinishConnection
<1>3. UNCHANGED <<gui.pc, gui.token, gui.restoring>>
  BY <1>1 DEF Draw, ReceiveData, ReceiveBarrier, ReceiveEnd, BreakChannel, FinishConnection, Gui
<1>4. conn' = conn \/ conn' = [conn EXCEPT ![t] = "closed"]
  BY DEF Draw, ReceiveData, ReceiveBarrier, ReceiveEnd, BreakChannel, FinishConnection
<1>5. \A u \in Terminals : Released(u) /\ Ending(u)
  BY <1>1, <1>2, <1>4, SameBridges, SameConnections, OneEnds
<1> QED
  BY <1>1, <1>2, <1>3, <1>5, QuietStep, WindowSame DEF CallKept

-----------------------------------------------------------------------------
(* The steps of the window and of the service that leave every bridge alone. *)

\* Only the window's state, a snapshot, the call or one connection changes.
LEMMA IdleStep ==
  ASSUME Inv, UNCHANGED <<bridge, preserved, window>>,
         tx'.token = tx.token, tx'.terminals = tx.terminals,
         \/ conn' = conn
         \/ \E t \in Terminals : conn' = [conn EXCEPT ![t] = "closed"],
         CallKept, WindowKept
  PROVE  Kept
<1>1. TypeOK /\ HoldInv /\ GroupInv /\ preserved \subseteq Terminals
  BY DEF Inv, TypeOK
<1>2. \A t \in Terminals : Ending(t)
  <2>1. CASE conn' = conn
    BY <2>1, SameConnections
  <2>2. ASSUME NEW t \in Terminals, conn' = [conn EXCEPT ![t] = "closed"]
        PROVE  \A u \in Terminals : Ending(u)
    BY <1>1, <2>2, OneEnds
  <2> QED
    BY <2>1, <2>2
<1>3. \A t \in Terminals : Released(t)
  BY SameBridges
<1> QED
  BY <1>1, <1>2, <1>3, QuietStep

\* The window moves on, its token and the transaction's group stay.
CaptureMoves ==
  /\ UNCHANGED <<bridge, preserved, window, op, conn>>
  /\ tx'.token = tx.token /\ tx'.terminals = tx.terminals
  /\ gui'.restoring = gui.restoring /\ gui'.token = gui.token
  /\ gui'.pc = "begin" => gui.restoring = {}
  /\ gui'.pc \in {"capture", "commit", "abort"} => gui.pc \in {"capture", "commit"}

LEMMA UploadMoves ==
  ASSUME Inv, NEW t \in Terminals, Upload(t)
  PROVE  CaptureMoves
<1>1. gui \in Gui /\ tx \in Transaction
  BY DEF Inv, TypeOK
<1>2. UNCHANGED <<bridge, preserved, window, op, conn>> /\ gui.pc = "capture"
  BY DEF Upload
<1>3. CASE SnapshotAccepted(t)
  <2> DEFINE screen == Screen(t)
  <2>1. /\ tx' = [tx EXCEPT !.full[t] = screen, !.uploaded = @ \cup {t}]
        /\ gui' = [gui EXCEPT !.todo = @ \ {t}, !.wait[t] = "none"]
    BY <1>3 DEF Upload
  <2> HIDE DEF screen
  <2>2. tx'.token = tx.token /\ tx'.terminals = tx.terminals
    BY <1>1, <2>1 DEF Transaction
  <2>3. gui'.restoring = gui.restoring /\ gui'.token = gui.token /\ gui'.pc = gui.pc
    BY <1>1, <2>1 DEF Gui
  <2> QED
    BY <1>2, <2>2, <2>3 DEF CaptureMoves
<1>4. CASE ~SnapshotAccepted(t)
  <2>1. tx' = tx /\ gui' = [gui EXCEPT !.pc = "abort", !.wait[t] = "none"]
    BY <1>4 DEF Upload
  <2>2. gui'.restoring = gui.restoring /\ gui'.token = gui.token /\ gui'.pc = "abort"
    BY <1>1, <2>1 DEF Gui
  <2> QED
    BY <1>2, <2>1, <2>2 DEF CaptureMoves
<1> QED
  BY <1>3, <1>4

LEMMA CaptureKeeps ==
  ASSUME Inv,
         \/ Enter \/ BeginRefused \/ CaptureFails \/ CaptureDone \/ CommitRefused
         \/ \E t \in Terminals : Upload(t)
  PROVE  Kept
<1>1. HoldInv /\ GroupInv /\ gui \in Gui
  BY DEF Inv, TypeOK
<1>2. CaptureMoves
  <2>1. CASE Enter
    BY <1>1, <2>1 DEF Enter, Gui, CaptureMoves
  <2>2. CASE BeginRefused
    BY <1>1, <2>2 DEF BeginRefused, Gui, CaptureMoves
  <2>3. CASE CaptureFails
    BY <1>1, <2>3 DEF CaptureFails, Gui, CaptureMoves
  <2>4. CASE CaptureDone
    BY <1>1, <2>4 DEF CaptureDone, Gui, CaptureMoves
  <2>5. CASE CommitRefused
    BY <1>1, <2>5 DEF CommitRefused, Gui, CaptureMoves
  <2> QED
    BY <2>1, <2>2, <2>3, <2>4, <2>5, UploadMoves
<1>3. WindowKept
  BY <1>1, <1>2 DEF WindowKept, HoldInv, CaptureMoves
<1> QED
  BY <1>2, <1>3, IdleStep DEF CallKept, CaptureMoves

LEMMA CallKeeps ==
  ASSUME Inv,
         Commit \/ AbortCall \/ FinalizeFails \/ BeginDone
           \/ \E k \in Tokens : Expire(k) \/ TimerAbort(k)
  PROVE  Kept
<1>1. HoldInv /\ GroupInv /\ gui \in Gui /\ op \in Call
  BY DEF Inv, TypeOK
<1>2. UNCHANGED <<bridge, preserved, window, conn, tx>>
  BY DEF Commit, AbortCall, FinalizeFails, BeginDone, Expire, TimerAbort
<1>3. CASE Commit
  <2>1. gui.token # 0 /\ tx.token = gui.token /\ op'.todo = tx.terminals /\ gui' = gui
    BY <1>1, <1>3 DEF Commit, HoldInv
  <2> QED
    BY <1>1, <1>2, <2>1, IdleStep, WindowSame DEF CallKept
<1>4. CASE AbortCall
  <2>1. gui.token # 0
    BY <1>1, <1>4 DEF AbortCall, HoldInv
  <2>2. CASE tx.token = gui.token
    <3>1. op'.todo = tx.terminals /\ op'.by = "abort" /\ gui' = gui
      BY <1>4, <2>2 DEF AbortCall
    <3> QED
      BY <1>1, <1>2, <2>1, <2>2, <3>1, IdleStep, WindowSame DEF CallKept
  <2>3. CASE tx.token # gui.token
    <3>1. op' = op /\ gui' = [gui EXCEPT !.pc = "idle", !.wait = NoWait]
      BY <1>4, <2>3 DEF AbortCall
    <3>2. WindowKept
      BY <1>1, <3>1 DEF WindowKept, Gui
    <3> QED
      BY <1>2, <3>1, <3>2, IdleStep DEF CallKept
  <2> QED
    BY <2>2, <2>3
<1>5. CASE FinalizeFails
  <2>1. /\ tx.token # 0 /\ op.kind = "detach" /\ gui' = gui
        /\ op'.todo = tx.terminals /\ op'.by = op.by
    BY <1>1, <1>5 DEF FinalizeFails, HoldInv, Call
  <2> QED
    BY <1>1, <1>2, <2>1, IdleStep, WindowSame DEF CallKept
<1>6. CASE BeginDone
  <2>1. /\ tx.token # 0 /\ op' = Idle
        /\ gui' = [gui EXCEPT !.pc = "capture", !.token = tx.token, !.todo = tx.terminals]
    BY <1>1, <1>6 DEF BeginDone, HoldInv
  <2>2. WindowKept
    BY <1>1, <2>1 DEF WindowKept, Gui
  <2> QED
    BY <1>2, <2>1, <2>2, IdleStep DEF CallKept, Idle
<1>7. ASSUME NEW k \in Tokens, Expire(k) \/ TimerAbort(k) PROVE Kept
  <2>1. gui' = gui /\ k # 0
    BY <1>7, BoundAssumption DEF Expire, TimerAbort, Tokens
  <2>2. op' = op \/ (tx.token = k /\ op'.todo = tx.terminals /\ op'.by = "timer")
    BY <1>7 DEF Expire, TimerAbort
  <2> QED
    BY <1>1, <1>2, <2>1, <2>2, IdleStep, WindowSame DEF CallKept
<1> QED
  BY <1>3, <1>4, <1>5, <1>6, <1>7

LEMMA AttachFailsKeeps ==
  ASSUME Inv, NEW t \in Terminals, AttachFails(t)
  PROVE  Kept
<1>1. HoldInv /\ GroupInv /\ gui \in Gui
  BY DEF Inv, TypeOK
<1>2. /\ UNCHANGED <<bridge, tx, op, preserved, window>>
      /\ conn' = [conn EXCEPT ![t] = "closed"]
      /\ gui' = [gui EXCEPT !.restoring = @ \ {t}, !.failed = @ \cup {t}]
  BY DEF AttachFails
<1>3. WindowKept
  BY <1>1, <1>2 DEF WindowKept, HoldInv, GroupInv, Gui
<1> QED
  BY <1>2, <1>3, IdleStep DEF CallKept

-----------------------------------------------------------------------------
(* The steps that take, keep and give back the bridges of a group.           *)

LEMMA NextTokenPositive == NextToken # 0
<1>1. Tokens \in SUBSET Nat /\ IsFiniteSet(Tokens)
  BY BoundAssumption, FS_Interval DEF Tokens
<1>2. IsFiniteSet({k \in Tokens : timer[k] # "unused"})
  BY <1>1, FS_Subset
<1> QED
  BY <1>2, FS_CardinalityType DEF NextToken

LEMMA BeginKeeps ==
  ASSUME Inv, Begin
  PROVE  Kept
<1>1. HoldInv /\ GroupInv /\ tx = NoTx /\ NextToken # 0
  BY NextTokenPositive DEF Inv, Begin
<1>2. UNCHANGED <<bridge, preserved, conn, window, gui>> /\ preserved = {} /\ gui.pc = "begin"
  BY DEF Begin
<1>3. /\ tx'.token # 0 /\ tx'.terminals = Live
      /\ op' = [kind |-> "pause", by |-> "begin", todo |-> Live]
      /\ \A t \in Terminals : conn[t] # "connecting"
  BY <1>1 DEF Begin, NoTx
<1>4. tx.token = 0
  BY <1>1 DEF NoTx
<1>5. HoldInv'
  BY <1>1, <1>2, <1>3, <1>4 DEF HoldInv, Held
<1>6. Live' = Live
  BY <1>2 DEF Live
<1>7. GroupInv'
  BY <1>1, <1>2, <1>3, <1>6 DEF GroupInv
<1> QED
  BY <1>5, <1>7 DEF Kept

LEMMA PauseKeeps ==
  ASSUME Inv, NEW t \in Terminals, Pause(t)
  PROVE  Kept
<1>1. HoldInv /\ GroupInv /\ op \in Call /\ bridge \in [Terminals -> Bridge]
  BY DEF Inv, TypeOK
<1>2. /\ UNCHANGED <<tx, preserved, conn, window, gui>>
      /\ op.kind = "pause" /\ t \in op.todo /\ tx.token # 0 /\ t \in tx.terminals
      /\ window.gen # 0
  BY <1>1 DEF Pause, HoldInv
<1>3. CASE bridge[t].mode = "attached" /\ Open(t, bridge[t].sink)
  <2>1. /\ bridge' = [bridge EXCEPT ![t] = Paused(bridge[t].sink, tx.token)]
        /\ op' = [op EXCEPT !.todo = @ \ {t}]
        /\ bridge[t].sink # 0
    BY <1>2, <1>3 DEF Pause, Open
  <2>2. bridge'[t].mode = "paused" /\ bridge'[t].sink # 0 /\ bridge'[t].token = tx.token
    BY <1>1, <2>1 DEF Paused, Dead
  <2>3. \A u \in Terminals : u # t => bridge'[u] = bridge[u]
    BY <1>1, <2>1
  <2>4. op'.kind = "pause" /\ op'.by = op.by /\ op'.todo \subseteq op.todo
    BY <1>1, <1>2, <2>1 DEF Call
  <2>5. HoldInv'
    <3>1. \A u \in Terminals : Held(u)' =>
            u \in tx.terminals /\ bridge'[u].token = tx.token /\ bridge'[u].sink # 0
      BY <1>1, <1>2, <2>2, <2>3 DEF HoldInv, Held
    <3> QED
      BY <1>1, <1>2, <2>4, <3>1 DEF HoldInv
  <2>6. Live' = Live
    BY <1>2 DEF Live
  <2>7. GroupInv'
    BY <1>1, <1>2, <1>3, <2>2, <2>3, <2>6 DEF GroupInv
  <2> QED
    BY <2>5, <2>7 DEF Kept
<1>4. CASE ~(bridge[t].mode = "attached" /\ Open(t, bridge[t].sink))
  <2>1. bridge' = bridge /\ op' = [op EXCEPT !.kind = "undo", !.todo = tx.terminals]
    BY <1>4 DEF Pause
  <2>2. CallKept
    BY <1>1, <1>2, <2>1 DEF CallKept, Call
  <2> QED
    BY <1>1, <1>2, <2>1, <2>2, IdleStep, WindowSame
<1> QED
  BY <1>3, <1>4

LEMMA DetachKeeps ==
  ASSUME Inv, NEW t \in Terminals, Detach(t)
  PROVE  Kept
<1>1. /\ HoldInv /\ GroupInv /\ op \in Call /\ bridge \in [Terminals -> Bridge]
      /\ tx \in Transaction
  BY DEF Inv, TypeOK
<1>2. /\ UNCHANGED <<preserved, conn, window, gui>>
      /\ op.kind = "detach" /\ t \in op.todo /\ tx.token # 0 /\ t \in tx.terminals
  BY <1>1 DEF Detach, HoldInv
<1>3. tx'.token = tx.token /\ tx'.terminals = tx.terminals
  BY <1>1 DEF Detach, Transaction
<1> DEFINE full   == tx.full[t]
           keep   == Len(full) + Len(bridge[t].cache) + ScreenSize <= TerminalLimit
           folded == IF keep THEN full ELSE <<>>
           next   == [bridge[t] EXCEPT !.mode = "detached", !.parsed = Replay(t),
                                       !.full = folded, !.truncated = ~keep]
<1>4. CASE /\ bridge' = [bridge EXCEPT ![t] = next] /\ op' = [op EXCEPT !.todo = @ \ {t}]
           /\ bridge[t].mode = "paused"
  <2>1. bridge'[t] = next /\ bridge[t] \in Bridge
    BY <1>1, <1>4
  <2> HIDE DEF keep, folded
  <2>2. /\ bridge'[t].mode = "detached" /\ bridge'[t].sink = bridge[t].sink
        /\ bridge'[t].token = bridge[t].token
    BY <2>1 DEF Bridge
  <2>3. \A u \in Terminals : u # t => bridge'[u] = bridge[u]
    BY <1>1, <1>4
  <2>4. op'.kind = "detach" /\ op'.by = op.by /\ op'.todo \subseteq op.todo
    BY <1>1, <1>2, <1>4 DEF Call
  <2>5. \A u \in Terminals : Held(u)' =>
          u \in tx.terminals /\ bridge'[u].token = tx.token /\ bridge'[u].sink # 0
    BY <1>1, <1>2, <1>4, <2>2, <2>3 DEF HoldInv, Held
  <2>6. HoldInv'
    BY <1>1, <1>2, <1>3, <2>4, <2>5 DEF HoldInv
  <2>7. Live' = Live /\ bridge[t].sink # 0 /\ preserved = {}
    BY <1>1, <1>2, <1>4 DEF Live, HoldInv, Held, GroupInv
  <2>8. GroupInv'
    BY <1>1, <1>2, <1>3, <1>4, <2>2, <2>3, <2>7 DEF GroupInv
  <2> QED
    BY <2>6, <2>8 DEF Kept
<1>5. CASE bridge' = bridge /\ op' = [op EXCEPT !.kind = "undo", !.todo = tx.terminals]
  <2>1. CallKept
    BY <1>1, <1>2, <1>5 DEF CallKept, Call
  <2> QED
    BY <1>1, <1>2, <1>3, <1>5, <2>1, IdleStep, WindowSame
<1> QED
  BY <1>4, <1>5 DEF Detach

LEMMA UndoKeeps ==
  ASSUME Inv, NEW t \in Terminals, Undo(t)
  PROVE  Kept
<1>1. /\ TypeOK /\ HoldInv /\ GroupInv /\ op \in Call /\ bridge \in [Terminals -> Bridge]
      /\ preserved \subseteq Terminals
  BY DEF Inv, TypeOK
<1>2. /\ UNCHANGED <<tx, preserved, conn, window, gui>>
      /\ op.kind = "undo" /\ t \in op.todo /\ op' = [op EXCEPT !.todo = @ \ {t}]
  BY DEF Undo
<1>3. op'.kind = "undo" /\ op'.by = op.by /\ op'.todo = op.todo \ {t}
  BY <1>1, <1>2 DEF Call
<1>4. /\ \A u \in Terminals : Released(u)
      /\ ~(bridge'[t].mode = "paused" \/ (bridge'[t].mode = "detached" /\ bridge'[t].sink # 0))
  <2>1. CASE HeldFor(bridge[t], tx.token)
    <3>1. Flush(t, <<>>) /\ Held(t)
      BY <2>1 DEF Undo, HeldFor, Held
    <3>2. \A u \in Terminals : Released(u)
      BY <1>1, <3>1, FlushReleases
    <3>3. bridge'[t].mode \in {"attached", "dead"}
      BY <1>1, <3>1, FlushedMode
    <3> QED
      BY <3>2, <3>3
  <2>2. CASE ~HeldFor(bridge[t], tx.token)
    <3>1. bridge' = bridge /\ ~Held(t)
      BY <1>1, <2>2 DEF Undo, HeldFor, HoldInv, Held
    <3> QED
      BY <3>1, SameBridges DEF Held
  <2> QED
    BY <2>1, <2>2
<1>5. \A u \in Terminals : Held(u)' => /\ u # t /\ Held(u) /\ bridge'[u].token = bridge[u].token
                                       /\ bridge'[u].sink = bridge[u].sink
  BY <1>4 DEF Held, Released
<1>6. HoldInv'
  BY <1>1, <1>2, <1>3, <1>5 DEF HoldInv
<1>7. Live' = Live
  BY <1>2 DEF Live
<1>8. GroupInv'
  BY <1>1, <1>2, <1>4, <1>7 DEF GroupInv, Released, Held
<1> QED
  BY <1>6, <1>8 DEF Kept

LEMMA UndoDoneKeeps ==
  ASSUME Inv, UndoDone
  PROVE  Kept
<1>1. HoldInv /\ GroupInv /\ gui \in Gui
  BY DEF Inv, TypeOK
<1>2. /\ UNCHANGED <<bridge, preserved, conn, window>>
      /\ op.kind = "undo" /\ op.todo = {} /\ tx'.token = 0 /\ op'.kind = "none"
  BY DEF UndoDone, NoTx, Idle
<1>3. \A t \in Terminals : ~Held(t)
  BY <1>1, <1>2 DEF HoldInv
<1>4. /\ gui'.restoring = gui.restoring /\ gui'.token = gui.token
      /\ gui'.pc = gui.pc \/ gui'.pc = "idle" \/ (gui'.pc = "abort" /\ op.by = "commit")
  BY <1>1 DEF UndoDone, Gui
<1>5. HoldInv'
  <2>1. gui'.pc \in {"capture", "commit", "abort"} => gui'.token # 0
    BY <1>1, <1>2, <1>4 DEF HoldInv
  <2>2. \A t \in Terminals : ~Held(t)'
    BY <1>2, <1>3 DEF Held
  <2>3. window'.gen # 0
    BY <1>1, <1>2 DEF HoldInv
  <2> QED
    BY <1>2, <2>1, <2>2, <2>3 DEF HoldInv
<1>6. Live' = Live
  BY <1>2 DEF Live
<1>7. GroupInv'
  BY <1>1, <1>2, <1>4, <1>6 DEF GroupInv
<1> QED
  BY <1>5, <1>7 DEF Kept

\* The group loses its fallback as a whole, with every live terminal in it.
LEMMA FinalizeKeeps ==
  ASSUME Inv, Finalize
  PROVE  Kept
<1>1. HoldInv /\ GroupInv /\ gui \in Gui /\ bridge \in [Terminals -> Bridge]
      /\ window \in [gen : Nat, open : BOOLEAN]
  BY DEF Inv, TypeOK
<1>2. /\ op.kind = "detach" /\ tx.token # 0 /\ preserved' = tx.terminals /\ UNCHANGED conn
      /\ tx'.token = 0 /\ op'.kind = "none"
      /\ gui' = [gui EXCEPT !.pc = "idle", !.wait = NoWait]
      /\ window' = [window EXCEPT !.open = FALSE]
      /\ \A t \in tx.terminals : bridge[t].mode = "detached"
  BY <1>1 DEF Finalize, HoldInv, GroupValid, NoTx, Idle
<1>3. /\ window'.gen = window.gen
      /\ gui'.pc = "idle" /\ gui'.restoring = gui.restoring
  BY <1>1, <1>2 DEF Gui
<1>4. ASSUME NEW t \in Terminals, t \in tx.terminals
      PROVE  bridge'[t].mode = "detached" /\ bridge'[t].sink = 0
  <2> DEFINE cache == IF bridge[t].truncated THEN <<>> ELSE bridge[t].cache
  <2>1. /\ bridge'[t] = [bridge[t] EXCEPT !.sink = 0, !.cache = cache]
        /\ bridge[t] \in Bridge /\ bridge[t].mode = "detached"
    BY <1>1, <1>2, <1>4 DEF Finalize
  <2> HIDE DEF cache
  <2> QED
    BY <2>1 DEF Bridge
<1>5. ASSUME NEW t \in Terminals, t \notin tx.terminals
      PROVE  bridge'[t] = bridge[t]
  BY <1>5 DEF Finalize
<1>6. \A t \in Terminals : ~Held(t)'
  BY <1>1, <1>4, <1>5 DEF HoldInv, Held
<1>7. HoldInv'
  BY <1>1, <1>2, <1>3, <1>6 DEF HoldInv
<1>8. Live' = Live /\ Live \subseteq tx.terminals /\ gui.restoring = {} /\ preserved = {}
      /\ \A t \in Terminals : conn[t] # "connecting"
  BY <1>1, <1>2 DEF Live, GroupInv
<1>9. \A t \in Terminals : conn[t] = "absent" => bridge'[t].mode = "dead"
  <2>1. \A t \in Terminals : conn[t] = "absent" => bridge[t].mode = "dead"
    BY <1>1 DEF GroupInv
  <2>2. \A t \in tx.terminals : bridge[t].mode # "dead"
    BY <1>2
  <2> QED
    BY <1>5, <2>1, <2>2
<1>10. \A t \in Terminals : bridge'[t].mode = "detached" /\ bridge'[t].sink = 0 /\ t \in Live
         => t \in preserved'
  BY <1>2, <1>8
<1>11. GroupInv'
  BY <1>2, <1>3, <1>4, <1>8, <1>9, <1>10 DEF GroupInv
<1> QED
  BY <1>7, <1>11 DEF Kept

-----------------------------------------------------------------------------
(* New connections, a new window, and the terminals it takes over.           *)

\* A bridge that comes or leaves beside the transaction.
LEMMA ConnectKeeps ==
  ASSUME Inv, NEW t \in Terminals, Connect(t) \/ ConnectReturns(t)
  PROVE  Kept
<1>1. /\ HoldInv /\ GroupInv /\ gui \in Gui /\ bridge \in [Terminals -> Bridge]
      /\ conn \in [Terminals -> ConnState]
  BY DEF Inv, TypeOK
<1>2. /\ UNCHANGED <<tx, op, preserved, window>>
      /\ \A u \in Terminals : u # t => conn'[u] = conn[u] /\ bridge'[u] = bridge[u]
  BY <1>1 DEF Connect, ConnectReturns
<1>3. UNCHANGED <<gui.pc, gui.token, gui.restoring>>
  BY <1>1 DEF Connect, ConnectReturns, Gui
<1>4. CASE Connect(t)
  <2>1. /\ conn[t] = "absent" /\ conn'[t] = "connecting" /\ UNCHANGED bridge
        /\ tx.token = 0 /\ window.open
    BY <1>1, <1>4 DEF Connect, NoTx
  <2>2. HoldInv'
    BY <1>1, <1>2, <1>3, <2>1 DEF HoldInv, Held
  <2>3. Live' = Live
    BY <1>2, <2>1 DEF Live
  <2>4. GroupInv'
    BY <1>1, <1>2, <1>3, <2>1, <2>3 DEF GroupInv
  <2> QED
    BY <2>2, <2>4 DEF Kept
<1>5. CASE ConnectReturns(t)
  <2>1. /\ conn[t] = "connecting" /\ bridge[t].mode = "dead"
        /\ tx.token = 0 /\ window.open /\ t \notin preserved
    BY <1>1, <1>5 DEF ConnectReturns, GroupInv
  <2>2. \/ conn'[t] = "absent" /\ bridge'[t] = bridge[t]
        \/ conn'[t] = "running" /\ bridge'[t] = Attached(window.gen)
    BY <1>1, <1>5 DEF ConnectReturns
  <2>3. Attached(window.gen).mode = "attached"
    BY DEF Attached, Dead
  <2>4. bridge'[t].mode \in {"dead", "attached"} /\ (conn'[t] = "absent" => bridge'[t].mode = "dead")
    BY <2>1, <2>2, <2>3
  <2>5. HoldInv'
    BY <1>1, <1>2, <1>3, <2>4 DEF HoldInv, Held
  <2>6. Live' \subseteq Live \cup {t} /\ conn'[t] # "connecting"
    BY <1>2, <2>2 DEF Live
  <2>7. GroupInv'
    BY <1>1, <1>2, <1>3, <2>1, <2>4, <2>6 DEF GroupInv
  <2> QED
    BY <2>5, <2>7 DEF Kept
<1> QED
  BY <1>4, <1>5

LEMMA ActivateKeeps ==
  ASSUME Inv, Activate
  PROVE  Kept
<1>1. HoldInv /\ GroupInv /\ gui \in Gui /\ window.gen \in Nat
  BY DEF Inv, TypeOK
<1>2. /\ UNCHANGED <<bridge, tx, op, preserved, conn>> /\ tx.token = 0
      /\ window'.open /\ window'.gen = window.gen + 1
  BY DEF Activate, NoTx
<1>3. gui'.pc = "idle" /\ gui'.token = gui.token
  BY <1>1 DEF Activate, Gui
<1>4. HoldInv'
  BY <1>1, <1>2, <1>3 DEF HoldInv, Held
<1>5. Live' = Live
  BY <1>2 DEF Live
<1>6. GroupInv'
  BY <1>1, <1>2, <1>3, <1>5 DEF GroupInv
<1> QED
  BY <1>4, <1>6 DEF Kept

LEMMA AttachKeeps ==
  ASSUME Inv, NEW t \in Terminals, Attach(t)
  PROVE  Kept
<1>1. HoldInv /\ GroupInv /\ gui \in Gui /\ bridge \in [Terminals -> Bridge]
  BY DEF Inv, TypeOK
<1>2. /\ UNCHANGED <<tx, op, conn, window>> /\ op.kind = "none"
      /\ t \in preserved /\ preserved' = preserved \ {t}
      /\ t \in gui.restoring /\ bridge[t].mode = "detached"
      /\ \A u \in Terminals : u # t => bridge'[u] = bridge[u]
  BY <1>1 DEF Attach
<1>3. tx.token = 0 /\ window.open /\ gui.pc # "begin"
  BY <1>1, <1>2 DEF GroupInv
<1>4. bridge'[t].mode \in {"attached", "dead"}
  <2>1. bridge'[t] = Dead \/ bridge'[t] = Attached(window.gen)
    BY <1>1 DEF Attach
  <2>2. Dead.mode = "dead" /\ Attached(window.gen).mode = "attached"
    BY DEF Dead, Attached
  <2> QED
    BY <2>1, <2>2
<1>5. gui'.pc = gui.pc /\ gui'.token = gui.token
  BY <1>1 DEF Attach, Gui
<1>6. HoldInv'
  BY <1>1, <1>2, <1>4, <1>5 DEF HoldInv, Held
<1>7. conn[t] \notin {"absent", "connecting"}
  BY <1>1, <1>2 DEF GroupInv
<1>8. Live' = Live
  BY <1>2 DEF Live
<1>9. GroupInv'
  BY <1>1, <1>2, <1>3, <1>4, <1>5, <1>7, <1>8 DEF GroupInv
<1> QED
  BY <1>6, <1>9 DEF Kept

LEMMA FinishRestoreKeeps ==
  ASSUME Inv, FinishRestore
  PROVE  Kept
<1>1. HoldInv /\ GroupInv /\ gui \in Gui
  BY DEF Inv, TypeOK
<1>2. /\ UNCHANGED <<bridge, tx, op, window>> /\ op.kind = "none" /\ tx.token = 0
      /\ preserved' = preserved \ gui.failed
      /\ \A t \in Terminals :
           conn'[t] = IF t \in preserved \cap gui.failed THEN "closed" ELSE conn[t]
  BY DEF FinishRestore, NoTx
<1>3. UNCHANGED <<gui.pc, gui.token, gui.restoring>> /\ gui.restoring = {}
  BY <1>1 DEF FinishRestore, Gui
<1>4. HoldInv'
  BY <1>1, <1>2, <1>3 DEF HoldInv, Held
<1>5. \A t \in Terminals : t \in Live' => t \in Live /\ t \notin preserved \cap gui.failed
  BY <1>2 DEF Live
<1>6. GroupInv'
  BY <1>1, <1>2, <1>3, <1>5 DEF GroupInv, Live
<1> QED
  BY <1>4, <1>6 DEF Kept

-----------------------------------------------------------------------------
(* The theorems.                                                             *)

LEMMA InvInit == Init => Inv
<1> SUFFICES ASSUME Init PROVE Inv
  OBVIOUS
<1>1. TypeOK
  BY InitType
<1>2. /\ tx.token = 0 /\ op.kind = "none" /\ preserved = {} /\ window.gen = 1
      /\ gui.pc = "idle" /\ gui.restoring = {}
      /\ window.open = (~active)
      /\ \A t \in Terminals : /\ conn[t] \in {"running", "absent"}
                              /\ conn[t] = "running" => ~active
  BY DEF Init, NoTx, Idle
<1>3. \A t \in Terminals :
        /\ bridge[t].mode \in {"attached", "dead"}
        /\ conn[t] = "absent" => bridge[t].mode = "dead"
  <2>1. Dead.mode = "dead" /\ Attached(1).mode = "attached"
    BY DEF Dead, Attached
  <2> QED
    BY <1>2, <2>1 DEF Init
<1>4. HoldInv
  BY <1>2, <1>3 DEF HoldInv, Held
<1>5. active \in BOOLEAN
  BY DEF Init
<1>6. ~window.open => Live = {}
  BY <1>2, <1>5 DEF Live
<1>7. GroupInv
  BY <1>2, <1>3, <1>6 DEF GroupInv
<1> QED
  BY <1>1, <1>4, <1>7 DEF Inv

LEMMA InvNext ==
  ASSUME Inv, [Next]_vars
  PROVE  Kept
<1>1. ASSUME NEW t \in Terminals, TerminalStep(t) PROVE Kept
  BY <1>1, EmitDataKeeps, EmitEndKeeps, DrawKeeps, ConnectKeeps DEF TerminalStep
<1>2. CASE WindowStep
  BY <1>2, CaptureKeeps, CallKeeps, DrawKeeps, BeginKeeps, ActivateKeeps, AttachKeeps,
     AttachFailsKeeps, FinishRestoreKeeps DEF WindowStep
<1>3. CASE ServiceStep
  BY <1>3, CallKeeps, PauseKeeps, DetachKeeps, UndoKeeps, UndoDoneKeeps, FinalizeKeeps
     DEF ServiceStep
<1>4. ASSUME NEW k \in Tokens, Expire(k) \/ TimerAbort(k) PROVE Kept
  BY <1>4, CallKeeps
<1>5. CASE UNCHANGED vars
  <2>1. HoldInv /\ GroupInv
    BY DEF Inv
  <2>2. UNCHANGED <<bridge, tx, op, preserved, conn, window, gui>>
    BY <1>5 DEF vars
  <2> QED
    BY <2>1, <2>2 DEF Kept, HoldInv, GroupInv, Held, Live
<1> QED
  BY <1>1, <1>2, <1>3, <1>4, <1>5 DEF Next

LEMMA InvCorrect == Spec => []Inv
<1>1. Inv /\ [Next]_vars /\ TypeOK' => Inv'
  BY InvNext DEF Inv, Kept
<1> QED
  BY <1>1, InvInit, TypeCorrect, PTL DEF Spec

\* Outside a service call a paused terminal belongs to the transaction that is
\* there: no abort, time-out, overflow or failed commit leaves a bridge holding
\* output that nobody will release (lightweight.rs, begin, commit and rollback).
THEOREM HoldsReleased == Spec => []HeldByTransaction
<1>1. Inv => HeldByTransaction
  <2> SUFFICES ASSUME Inv, op.kind = "none", NEW t \in Terminals, bridge[t].mode = "paused"
               PROVE  t \in tx.terminals /\ bridge[t].token = tx.token /\ tx # NoTx
    BY DEF HeldByTransaction
  <2>1. Held(t) /\ HoldInv
    BY DEF Held, Inv
  <2> QED
    BY <2>1 DEF HoldInv, NoTx
<1> QED
  BY <1>1, InvCorrect, PTL

\* A group is detached as a whole or not at all: once the window is gone every live
\* terminal is preserved, and only preserved ones have lost their fallback.
THEOREM GroupDetached == Spec => []DetachedTogether
<1>1. Inv => DetachedTogether
  BY DEF Inv, GroupInv, DetachedTogether
<1> QED
  BY <1>1, InvCorrect, PTL

-----------------------------------------------------------------------------
(* What becomes of the output.  Its theorems are for a window that reads the *)
(* barriers of an attempt before it begins the next one (DrainBeforeRetry),  *)
(* which one step uses: EnterOutput.                                        *)

(* The invariant, terminal by terminal.                                      *)

\* A terminal that has never run has no output anywhere.
Fresh(t) ==
  conn[t] \in {"absent", "connecting"} =>
    emitted[t] = 0 /\ stream[t].sent = <<>> /\ stream[t].end = "none"

\* Nothing is held by a bridge that sends, and no bridge sends to a window to come.
Plain(t) ==
  /\ bridge[t].mode = "attached" => bridge[t].cache = <<>>
  /\ bridge[t].sink <= window.gen

\* What a bridge has sent and what it holds are the whole output, unless it sends
\* to a window that does not listen.
Whole(t) ==
  Held(t) \/ (bridge[t].mode = "attached" /\ Open(t, bridge[t].sink)) =>
    stream[t].sent \o bridge[t].cache = Output(emitted[t])

\* The same of what a detached bridge keeps, once as bytes and once as a screen.
Folded(t) ==
  bridge[t].mode = "detached" =>
    /\ bridge[t].parsed = Output(emitted[t])
    /\ ~bridge[t].truncated => bridge[t].full \o bridge[t].cache = Output(emitted[t])

\* A channel carries a beginning of the output.
Beginning(t) == stream[t].sent = Output(Len(stream[t].sent)) /\ Len(stream[t].sent) <= emitted[t]

\* The end comes when there will be no more output, and behind all of it.
Ends(t) ==
  /\ bridge[t].ended => conn[t] \in {"closing", "closed"}
  /\ stream[t].end # "none" =>
       /\ conn[t] \in {"closing", "closed"} /\ bridge[t].mode = "dead"
       /\ stream[t].sent = Output(emitted[t])
  /\ stream[t].end = "shown" => stream[t].shown = Len(stream[t].sent)

\* The only barrier of a paused terminal is the last message of its channel.
Barrier(t) ==
  bridge[t].mode = "paused" =>
    /\ stream[t].barriers \in {<<>>, <<Len(stream[t].sent)>>}
    /\ gui.wait[t] = "reached" => stream[t].shown = Len(stream[t].sent)
    /\ t \in tx.uploaded => tx.full[t] = stream[t].sent

TerminalInv(t) ==
  Fresh(t) /\ Plain(t) /\ Whole(t) /\ Folded(t) /\ Beginning(t) /\ Ends(t) /\ Barrier(t)

\* No barrier is about and none was read, before the pause appends the one waited for.
Undisturbed(t) == stream[t].barriers = <<>> /\ gui.wait[t] # "reached"

Begins == op.kind # "none" /\ op.by = "begin"

PhaseInv ==
  /\ op.kind = "pause" => /\ op.by = "begin" /\ gui.pc = "begin" /\ tx.uploaded = {}
                          /\ \A t \in op.todo : Undisturbed(t)
  /\ op.kind = "detach" => tx.uploaded = tx.terminals
  /\ gui.pc = "begin" /\ ~Begins => \A t \in Terminals : Undisturbed(t)

\* A transaction has a window, and a terminal to be restored a channel without use.
WindowInv ==
  /\ tx.token # 0 \/ gui.pc # "idle" => window.open
  /\ \A t \in gui.restoring : t \in preserved /\ stream[t] = Empty

OutputInv == (\A t \in Terminals : TerminalInv(t)) /\ PhaseInv /\ WindowInv

-----------------------------------------------------------------------------
(* Output sequences.                                                         *)

LEMMA OutputType ==
  ASSUME NEW n \in Nat
  PROVE  /\ Output(n) \in Seq(Nat) /\ Len(Output(n)) = n
         /\ \A i \in 1..n : Output(n)[i] = i
<1>1. Output(n) \in Seq(Nat)
  BY IsASeq DEF Output
<1>2. DOMAIN Output(n) = 1..n
  BY DEF Output
<1> QED
  BY <1>1, <1>2, LenProperties DEF Output

LEMMA NoOutput == Output(0) = <<>>
<1>1. Output(0) \in Seq(Nat) /\ Len(Output(0)) = 0
  BY OutputType
<1> QED
  BY <1>1, EmptySeq

LEMMA OneUnit ==
  ASSUME NEW unit \in Nat
  PROVE  <<unit>> \in Seq(Nat) /\ Len(<<unit>>) = 1 /\ <<unit>>[1] = unit
OBVIOUS

LEMMA OutputGrows ==
  ASSUME NEW n \in Nat
  PROVE  Output(n) \o <<n + 1>> = Output(n + 1)
<1> DEFINE s == Output(n) \o <<n + 1>>
<1>1. /\ Output(n) \in Seq(Nat) /\ Len(Output(n)) = n /\ Output(n + 1) \in Seq(Nat)
      /\ Len(Output(n + 1)) = n + 1 /\ \A i \in 1..(n + 1) : Output(n + 1)[i] = i
      /\ \A i \in 1..n : Output(n)[i] = i
  BY OutputType
<1>2. <<n + 1>> \in Seq(Nat) /\ Len(<<n + 1>>) = 1 /\ <<n + 1>>[1] = n + 1
  BY OneUnit, n + 1 \in Nat
<1>3. s \in Seq(Nat) /\ Len(s) = n + 1
      /\ \A i \in 1..(n + 1) : s[i] = IF i <= n THEN Output(n)[i] ELSE <<n + 1>>[i - n]
  BY <1>1, <1>2, ConcatProperties
<1> HIDE DEF s
<1>4. \A i \in 1..(n + 1) : s[i] = i
  <2> SUFFICES ASSUME NEW i \in 1..(n + 1) PROVE s[i] = i
    OBVIOUS
  <2>1. CASE i <= n
    BY <1>1, <1>3, <2>1
  <2>2. CASE i = n + 1
    BY <1>2, <1>3, <2>2
  <2> QED
    BY <2>1, <2>2
<1>5. s = Output(n + 1)
  BY <1>1, <1>3, <1>4, SeqEqual
<1> QED
  BY <1>5 DEF s

\* What comes before anything else in an output is itself an output.
LEMMA OutputPrefix ==
  ASSUME NEW s \in Seq(Nat), NEW c \in Seq(Nat), NEW n \in Nat, s \o c = Output(n)
  PROVE  s = Output(Len(s)) /\ Len(s) <= n
<1>1. Len(s) \in Nat /\ Len(c) \in Nat /\ Len(s \o c) = Len(s) + Len(c)
      /\ \A i \in 1..(Len(s) + Len(c)) : (s \o c)[i] = IF i <= Len(s) THEN s[i] ELSE c[i - Len(s)]
  BY LenProperties, ConcatProperties
<1>2. Len(s) <= n
  BY <1>1, OutputType
<1>3. \A i \in 1..Len(s) : s[i] = i
  <2> SUFFICES ASSUME NEW i \in 1..Len(s) PROVE s[i] = i
    OBVIOUS
  <2>1. (s \o c)[i] = s[i]
    BY <1>1
  <2>2. Output(n)[i] = i
    BY <1>1, <1>2, OutputType
  <2> QED
    BY <2>1, <2>2
<1>4. Output(Len(s)) \in Seq(Nat) /\ Len(Output(Len(s))) = Len(s)
      /\ \A i \in 1..Len(s) : Output(Len(s))[i] = i
  BY <1>1, OutputType
<1> QED
  BY <1>2, <1>3, <1>4, SeqEqual

LEMMA Associative ==
  ASSUME NEW s \in Seq(Nat), NEW c \in Seq(Nat), NEW d \in Seq(Nat)
  PROVE  (s \o c) \o d = s \o (c \o d)
<1> DEFINE N == Nat
<1>1. s \in Seq(N) /\ c \in Seq(N) /\ d \in Seq(N)
  OBVIOUS
<1> HIDE DEF N
<1> QED
  BY <1>1, ConcatAssociative, SMTT(40)

\* One more unit behind what is sent and held.
LEMMA OneMore ==
  ASSUME NEW s \in Seq(Nat), NEW c \in Seq(Nat), NEW n \in Nat, s \o c = Output(n)
  PROVE  /\ s \o Append(c, n + 1) = Output(n + 1)
         /\ s \o (c \o <<n + 1>>) = Output(n + 1)
<1>1. <<n + 1>> \in Seq(Nat) /\ Append(c, n + 1) = c \o <<n + 1>>
  <2>1. n + 1 \in Nat
    OBVIOUS
  <2> QED
    BY <2>1, AppendIsConcat, OneUnit, Zenon
<1>2. (s \o c) \o <<n + 1>> = s \o (c \o <<n + 1>>)
  BY <1>1, Associative
<1>3. (s \o c) \o <<n + 1>> = Output(n + 1)
  BY OutputGrows, Zenon
<1> QED
  BY <1>1, <1>2, <1>3, Zenon

-----------------------------------------------------------------------------
(* Steps that leave a terminal alone.                                        *)

OpenKept == /\ window'.gen = window.gen /\ (window'.open => window.open)
            /\ gui.broken \subseteq gui'.broken

Unmoved(t) == bridge'[t] = bridge[t] /\ stream'[t] = stream[t] /\ emitted'[t] = emitted[t]

Going(t) ==
  \/ conn'[t] = conn[t]
  \/ conn'[t] \in {"absent", "connecting"} /\ conn[t] \in {"absent", "connecting"}
  \/ conn'[t] \in {"closing", "closed"}

\* No barrier is read, and no snapshot but those there were.
Untaken(t) ==
  /\ gui'.wait[t] = "reached" => gui.wait[t] = "reached"
  /\ t \in tx'.uploaded => t \in tx.uploaded /\ tx'.full[t] = tx.full[t]

LEMMA QuietTerminal ==
  ASSUME NEW t \in Terminals, TerminalInv(t), Unmoved(t), Going(t), OpenKept, Untaken(t)
  PROVE  TerminalInv(t)'
<1>1. Fresh(t)' /\ Plain(t)' /\ Folded(t)' /\ Beginning(t)'
  BY DEF TerminalInv, Fresh, Plain, Folded, Beginning, Unmoved, Going, OpenKept
<1>2. Whole(t)'
  BY DEF TerminalInv, Whole, Held, Open, Unmoved, OpenKept
<1>3. Ends(t)' /\ Barrier(t)'
  BY DEF TerminalInv, Ends, Barrier, Unmoved, Going, Untaken
<1> QED
  BY <1>1, <1>2, <1>3 DEF TerminalInv

\* The call, its group and the window's phase stay, and no barrier is appended.
LEMMA QuietPhase ==
  ASSUME PhaseInv, op' = op, tx'.uploaded = tx.uploaded, tx'.terminals = tx.terminals,
         gui'.pc = gui.pc, \A t \in Terminals : Undisturbed(t) => Undisturbed(t)',
         op.todo \subseteq Terminals
  PROVE  PhaseInv'
BY DEF PhaseInv, Begins

LEMMA QuietWindow ==
  ASSUME WindowInv, gui'.pc = gui.pc \/ gui.pc # "idle" \/ tx.token # 0,
         tx'.token # 0 => tx.token # 0, window' = window,
         \A t \in gui'.restoring :
           t \in gui.restoring /\ (t \in preserved => t \in preserved') /\ stream'[t] = stream[t]
  PROVE  WindowInv'
BY DEF WindowInv

OutputKept == (\A u \in Terminals : TerminalInv(u)') /\ PhaseInv' /\ WindowInv'

-----------------------------------------------------------------------------
(* The steps of the window and of the service that move no output.           *)

LEMMA CallStep ==
  ASSUME OutputInv, UNCHANGED <<bridge, stream, emitted, window, preserved>>,
         gui'.broken = gui.broken, gui'.restoring = gui.restoring,
         \A u \in Terminals : Going(u) /\ Untaken(u),
         tx'.token # 0 \/ gui'.pc # "idle" => tx.token # 0 \/ gui.pc # "idle" \/ window.open,
         PhaseInv'
  PROVE  OutputKept
<1>1. OpenKept /\ \A u \in Terminals : Unmoved(u)
  BY DEF OpenKept, Unmoved
<1>2. \A u \in Terminals : TerminalInv(u)'
  BY <1>1, QuietTerminal DEF OutputInv
<1>3. WindowInv'
  BY DEF OutputInv, WindowInv
<1> QED
  BY <1>2, <1>3 DEF OutputKept

LEMMA SameSnapshots ==
  ASSUME (tx'.uploaded = tx.uploaded /\ tx'.full = tx.full) \/ tx'.uploaded = {},
         gui'.wait = gui.wait \/ gui'.wait = NoWait
  PROVE  \A u \in Terminals : Untaken(u)
BY DEF Untaken, NoWait

LEMMA SameGoing ==
  ASSUME UNCHANGED conn
  PROVE  \A u \in Terminals : Going(u)
BY DEF Going

\* Before it calls begin, the window has read every barrier of earlier attempts.
LEMMA EnterOutput ==
  ASSUME Inv, OutputInv, DrainBeforeRetry, Enter
  PROVE  OutputKept
<1>1. gui \in Gui
  BY DEF Inv, TypeOK
<1>2. /\ UNCHANGED <<bridge, tx, op, preserved, conn, emitted, stream, window>>
      /\ window.open /\ gui.pc = "idle" /\ \A u \in Terminals : stream[u].barriers = <<>>
      /\ gui'.broken = gui.broken /\ gui'.restoring = gui.restoring
      /\ \A u \in Terminals : gui'.wait[u] # "reached"
  BY <1>1 DEF Enter, Gui
<1>3. \A u \in Terminals : Going(u) /\ Untaken(u)
  BY <1>2 DEF Going, Untaken
<1>4. PhaseInv'
  BY <1>2 DEF OutputInv, PhaseInv, Undisturbed
<1> QED
  BY <1>2, <1>3, <1>4, CallStep

LEMMA CaptureOutput ==
  ASSUME Inv, OutputInv,
         CaptureFails \/ CaptureDone \/ CommitRefused \/ Commit \/ FinalizeFails \/ BeginRefused
  PROVE  OutputKept
<1>1. gui \in Gui /\ op \in Call /\ HoldInv
  BY DEF Inv, TypeOK
<1>2. /\ UNCHANGED <<bridge, tx, preserved, conn, emitted, stream, window>>
      /\ gui'.broken = gui.broken /\ gui'.restoring = gui.restoring
      /\ gui'.wait = gui.wait \/ gui'.wait = NoWait
  BY <1>1 DEF CaptureFails, CaptureDone, CommitRefused, Commit, FinalizeFails, BeginRefused, Gui
<1>3. gui'.pc # "idle" => gui.pc # "idle" \/ tx.token # 0
  BY <1>1 DEF CaptureFails, CaptureDone, CommitRefused, Commit, FinalizeFails, BeginRefused, Gui
<1>4. \A u \in Terminals : Going(u) /\ Untaken(u)
  BY <1>2, SameSnapshots, SameGoing
<1>5. gui'.pc = "begin" => gui' = gui
  BY <1>1 DEF CaptureFails, CaptureDone, CommitRefused, Commit, FinalizeFails, BeginRefused, Gui
<1>6. \/ op' = op /\ (op.kind = "pause" => gui' = gui)
      \/ op'.kind = "detach" /\ tx.uploaded = tx.terminals /\ op.kind = "none" /\ gui.pc = "commit"
      \/ op'.kind = "undo" /\ op.kind # "none" /\ op'.by = op.by
  <2>1. op.kind = "pause" => gui.pc = "begin"
    BY DEF OutputInv, PhaseInv
  <2>2. CASE CaptureFails \/ CaptureDone \/ CommitRefused \/ BeginRefused
    BY <2>1, <2>2 DEF CaptureFails, CaptureDone, CommitRefused, BeginRefused
  <2>3. CASE Commit
    BY <2>3 DEF Commit
  <2>4. CASE FinalizeFails
    BY <1>1, <2>4 DEF FinalizeFails, Call
  <2> QED
    BY <2>2, <2>3, <2>4
<1>7. PhaseInv'
  <2>1. PhaseInv
    BY DEF OutputInv
  <2> QED
    BY <1>2, <1>5, <1>6, <2>1 DEF PhaseInv, Undisturbed, Begins
<1> QED
  BY <1>2, <1>3, <1>4, <1>7, CallStep

LEMMA BeginOutput ==
  ASSUME Inv, OutputInv, Begin \/ BeginDone
  PROVE  OutputKept
<1>1. gui \in Gui /\ HoldInv /\ PhaseInv /\ op \in Call
  BY DEF Inv, TypeOK, OutputInv
<1>2. CASE Begin
  <2>1. /\ UNCHANGED <<bridge, preserved, conn, emitted, stream, window, gui>>
        /\ gui.pc = "begin" /\ op.kind = "none" /\ tx'.uploaded = {}
        /\ op'.kind = "pause" /\ op'.by = "begin"
    BY <1>2 DEF Begin, NoTx
  <2>2. op'.todo \subseteq Terminals
    BY <1>2 DEF Begin, Live
  <2>3. PhaseInv'
    BY <1>1, <2>1, <2>2 DEF PhaseInv, Undisturbed, Begins
  <2>4. \A u \in Terminals : Going(u) /\ Untaken(u)
    BY <2>1, SameGoing DEF Untaken
  <2> QED
    BY <2>1, <2>3, <2>4, CallStep
<1>3. CASE BeginDone
  <2>1. /\ UNCHANGED <<bridge, tx, preserved, conn, emitted, stream, window>>
        /\ gui'.broken = gui.broken /\ gui'.restoring = gui.restoring
        /\ gui'.wait = gui.wait /\ gui'.pc = "capture" /\ tx.token # 0 /\ op'.kind = "none"
    BY <1>1, <1>3 DEF BeginDone, Gui, Idle, HoldInv
  <2>2. PhaseInv'
    BY <2>1 DEF PhaseInv
  <2>3. \A u \in Terminals : Going(u) /\ Untaken(u)
    BY <2>1, SameSnapshots, SameGoing
  <2> QED
    BY <2>1, <2>2, <2>3, CallStep
<1> QED
  BY <1>2, <1>3

LEMMA AbortOutput ==
  ASSUME Inv, OutputInv,
         AbortCall \/ UndoDone \/ \E k \in Tokens : Expire(k) \/ TimerAbort(k)
  PROVE  OutputKept
<1>1. gui \in Gui /\ HoldInv /\ PhaseInv /\ op \in Call
  BY DEF Inv, TypeOK, OutputInv
<1>2. CASE AbortCall
  <2>1. /\ UNCHANGED <<bridge, tx, preserved, conn, emitted, stream, window>>
        /\ gui'.broken = gui.broken /\ gui'.restoring = gui.restoring
        /\ gui'.wait = gui.wait \/ gui'.wait = NoWait
        /\ gui.pc = "abort" /\ gui'.pc # "begin" /\ op.kind = "none"
        /\ op'.kind \in {"none", "undo"}
    <3>1. CASE tx.token = gui.token
      BY <1>2, <3>1 DEF AbortCall
    <3>2. CASE tx.token # gui.token
      BY <1>1, <1>2, <3>2 DEF AbortCall, Gui
    <3> QED
      BY <3>1, <3>2
  <2>2. PhaseInv'
    BY <2>1 DEF PhaseInv
  <2>3. \A u \in Terminals : Going(u) /\ Untaken(u)
    BY <2>1, SameSnapshots, SameGoing
  <2> QED
    BY <2>1, <2>2, <2>3, CallStep
<1>3. CASE UndoDone
  <2>1. /\ UNCHANGED <<bridge, preserved, conn, emitted, stream, window>>
        /\ op.kind = "undo" /\ op'.kind = "none" /\ tx'.uploaded = {} /\ tx'.token = 0
        /\ tx.token # 0
    BY <1>1, <1>3 DEF UndoDone, Idle, NoTx, HoldInv
  <2>2. /\ gui'.broken = gui.broken /\ gui'.restoring = gui.restoring
        /\ gui'.wait = gui.wait \/ gui'.wait = NoWait
        /\ gui'.pc = "begin" => gui' = gui /\ op.by = "timer"
    BY <1>1, <1>3 DEF UndoDone, Gui
  <2>3. PhaseInv'
    BY <1>1, <2>1, <2>2 DEF PhaseInv, Undisturbed, Begins
  <2>4. \A u \in Terminals : Going(u) /\ Untaken(u)
    BY <2>1, <2>2, SameSnapshots, SameGoing
  <2> QED
    BY <2>1, <2>2, <2>3, <2>4, CallStep
<1>4. ASSUME NEW k \in Tokens, Expire(k) \/ TimerAbort(k)
      PROVE  OutputKept
  <2>1. /\ UNCHANGED <<bridge, tx, preserved, conn, emitted, stream, window, gui>>
        /\ op' = op \/ (op.kind = "none" /\ op'.kind = "undo" /\ op'.by = "timer")
    BY <1>4 DEF Expire, TimerAbort
  <2>2. PhaseInv'
    BY <1>1, <2>1 DEF PhaseInv, Undisturbed, Begins
  <2>3. \A u \in Terminals : Going(u) /\ Untaken(u)
    BY <2>1, SameSnapshots, SameGoing
  <2> QED
    BY <2>1, <2>2, <2>3, CallStep
<1> QED
  BY <1>2, <1>3, <1>4

\* Connections that begin, end or are given up.
LEMMA ConnectionOutput ==
  ASSUME Inv, OutputInv,
         \E t \in Terminals : Connect(t) \/ FinishConnection(t) \/ BreakChannel(t)
  PROVE  OutputKept
<1>1. /\ UNCHANGED <<bridge, tx, op, preserved, emitted, stream, window>>
      /\ op.todo \subseteq Terminals /\ gui \in Gui
  BY DEF Connect, FinishConnection, BreakChannel, Inv, TypeOK, Call
<1>2. \A u \in Terminals : Going(u)
  BY DEF Connect, FinishConnection, BreakChannel, Inv, TypeOK, Going
<1>3. /\ gui.broken \subseteq gui'.broken /\ gui'.restoring = gui.restoring
      /\ gui'.wait = gui.wait /\ gui'.pc = gui.pc
  BY <1>1 DEF Connect, FinishConnection, BreakChannel, Gui
<1>4. OpenKept /\ \A u \in Terminals : Unmoved(u)
  BY <1>1, <1>3 DEF OpenKept, Unmoved
<1>5. \A u \in Terminals : TerminalInv(u)'
  BY <1>1, <1>2, <1>3, <1>4, QuietTerminal, SameSnapshots DEF OutputInv
<1>6. PhaseInv'
  BY <1>1, <1>3, QuietPhase DEF OutputInv, Undisturbed
<1>7. WindowInv'
  BY <1>1, <1>3 DEF OutputInv, WindowInv
<1> QED
  BY <1>5, <1>6, <1>7 DEF OutputKept

LEMMA RestoreOutput ==
  ASSUME Inv, OutputInv, FinishRestore \/ \E t \in Terminals : AttachFails(t)
  PROVE  OutputKept
<1>1. /\ UNCHANGED <<bridge, tx, op, emitted, stream, window>>
      /\ op.todo \subseteq Terminals /\ gui \in Gui
  BY DEF FinishRestore, AttachFails, Inv, TypeOK, Call
<1>2. \A u \in Terminals : Going(u)
  <2>1. conn \in [Terminals -> ConnState]
    BY DEF Inv, TypeOK
  <2>2. CASE FinishRestore
    BY <2>2 DEF FinishRestore, Going
  <2>3. ASSUME NEW t \in Terminals, conn' = [conn EXCEPT ![t] = "closed"]
        PROVE  \A u \in Terminals : Going(u)
    BY <2>1, <2>3 DEF Going
  <2> QED
    BY <2>2, <2>3 DEF AttachFails
<1>3. /\ gui'.broken = gui.broken /\ gui'.wait = gui.wait /\ gui'.pc = gui.pc
      /\ gui'.restoring \subseteq gui.restoring
      /\ preserved' = preserved \/ gui.restoring = {}
  <2>1. CASE FinishRestore
    BY <1>1, <2>1 DEF FinishRestore, Gui
  <2>2. ASSUME NEW t \in Terminals, gui' = [gui EXCEPT !.restoring = @ \ {t}, !.failed = @ \cup {t}],
               preserved' = preserved
        PROVE  /\ gui'.broken = gui.broken /\ gui'.wait = gui.wait /\ gui'.pc = gui.pc
               /\ gui'.restoring \subseteq gui.restoring
    BY <1>1, <2>2 DEF Gui
  <2> QED
    BY <1>1, <2>1, <2>2 DEF AttachFails
<1>4. OpenKept /\ \A u \in Terminals : Unmoved(u)
  BY <1>1, <1>3 DEF OpenKept, Unmoved
<1>5. \A u \in Terminals : TerminalInv(u)'
  BY <1>1, <1>2, <1>3, <1>4, QuietTerminal, SameSnapshots DEF OutputInv
<1>6. PhaseInv'
  BY <1>1, <1>3, QuietPhase DEF OutputInv, Undisturbed
<1>7. WindowInv'
  BY <1>1, <1>3 DEF OutputInv, WindowInv
<1> QED
  BY <1>5, <1>6, <1>7 DEF OutputKept

-----------------------------------------------------------------------------
(* What the window reads and uploads.                                        *)

\* Only terminal t moves.
LEMMA OneMoves ==
  ASSUME OutputInv, NEW t \in Terminals, OpenKept,
         \A u \in Terminals : u # t => Unmoved(u) /\ Going(u) /\ Untaken(u),
         TerminalInv(t)', PhaseInv', WindowInv'
  PROVE  OutputKept
<1>1. \A u \in Terminals : TerminalInv(u)'
  BY QuietTerminal DEF OutputInv
<1> QED
  BY <1>1 DEF OutputKept

\* Reading moves neither what is sent nor what is held.
LEMMA ReadTerminal ==
  ASSUME NEW t \in Terminals, TerminalInv(t), UNCHANGED <<bridge, conn, emitted, window>>,
         gui'.broken = gui.broken, stream'[t].sent = stream[t].sent,
         stream'[t].end # "none" => stream[t].end # "none",
         stream'[t].end = "shown" => stream'[t].shown = Len(stream[t].sent),
         Barrier(t)'
  PROVE  TerminalInv(t)'
<1>1. Fresh(t)' /\ Plain(t)' /\ Folded(t)' /\ Beginning(t)'
  BY DEF TerminalInv, Fresh, Plain, Folded, Beginning
<1>2. Whole(t)'
  BY DEF TerminalInv, Whole, Held, Open
<1>3. Ends(t)'
  BY DEF TerminalInv, Ends
<1> QED
  BY <1>1, <1>2, <1>3 DEF TerminalInv

LEMMA DrawOutput ==
  ASSUME Inv, OutputInv, NEW t \in Terminals, Draw(t)
  PROVE  OutputKept
<1>1. /\ gui \in Gui /\ op.todo \subseteq Terminals /\ stream \in [Terminals -> Stream]
      /\ stream[t] \in Stream /\ Len(stream[t].sent) \in Nat /\ stream[t].shown \in Nat
      /\ TerminalInv(t) /\ PhaseInv /\ WindowInv
  BY TerminalParts DEF Inv, TypeOK, Call, OutputInv
<1>2. /\ UNCHANGED <<bridge, tx, op, preserved, conn, emitted, window>>
      /\ \A u \in Terminals : u # t => stream'[u] = stream[u]
  BY <1>1 DEF Draw, ReceiveData, ReceiveBarrier, ReceiveEnd
<1>3. /\ gui'.broken = gui.broken /\ gui'.restoring = gui.restoring /\ gui'.pc = gui.pc
      /\ \A u \in Terminals : u # t => gui'.wait[u] = gui.wait[u]
  BY <1>1 DEF Draw, ReceiveData, ReceiveBarrier, ReceiveEnd, Gui
<1>4. OpenKept /\ \A u \in Terminals : u # t => Unmoved(u) /\ Going(u) /\ Untaken(u)
  BY <1>2, <1>3 DEF OpenKept, Unmoved, Going, Untaken
<1>5. t \notin gui.restoring
  <2> SUFFICES ASSUME stream[t] = Empty PROVE FALSE
    BY <1>1 DEF WindowInv
  <2>1. /\ stream[t].sent = <<>> /\ stream[t].shown = 0 /\ stream[t].barriers = <<>>
        /\ stream[t].end = "none" /\ Len(<<>>) = 0
    BY DEF Empty
  <2> QED
    BY <2>1 DEF Draw, ReceiveData, ReceiveBarrier, ReceiveEnd, DataNext, EndNext
<1>6. WindowInv'
  <2>1. gui.restoring \subseteq Terminals
    BY <1>1 DEF Gui
  <2> QED
    BY <1>1, <1>2, <1>3, <1>5, <2>1 DEF WindowInv
<1>7. CASE ReceiveData(t)
  <2>1. /\ stream'[t].sent = stream[t].sent /\ stream'[t].barriers = stream[t].barriers
        /\ stream'[t].end = stream[t].end /\ gui' = gui
        /\ stream[t].shown < Len(stream[t].sent)
    BY <1>1, <1>7 DEF ReceiveData, DataNext, Stream
  <2>2. stream[t].end # "shown"
    BY <1>1, <2>1 DEF TerminalInv, Ends
  <2>3. Barrier(t)'
    BY <1>1, <1>2, <2>1 DEF TerminalInv, Barrier
  <2>4. TerminalInv(t)'
    BY <1>1, <1>2, <2>1, <2>2, <2>3, ReadTerminal
  <2>5. PhaseInv'
    BY <1>1, <1>2, <2>1, QuietPhase DEF Undisturbed
  <2> QED
    BY <1>4, <1>6, <2>4, <2>5, OneMoves
<1>8. CASE ReceiveBarrier(t)
  <2>1. /\ stream'[t].sent = stream[t].sent /\ stream'[t].barriers = Tail(stream[t].barriers)
        /\ stream'[t].end = stream[t].end /\ stream'[t].shown = stream[t].shown
        /\ stream[t].barriers # <<>> /\ Head(stream[t].barriers) = stream[t].shown
    BY <1>1, <1>8 DEF ReceiveBarrier, Stream
  <2>2. Barrier(t)'
    <3> SUFFICES ASSUME bridge[t].mode = "paused" PROVE Barrier(t)'
      BY <1>2 DEF Barrier
    <3>1. stream[t].barriers = <<Len(stream[t].sent)>>
      BY <1>1, <2>1 DEF TerminalInv, Barrier
    <3>2. stream[t].shown = Len(stream[t].sent) /\ stream'[t].barriers = <<>>
      BY <2>1, <3>1
    <3> QED
      BY <1>1, <1>2, <2>1, <3>2 DEF TerminalInv, Barrier
  <2>3. TerminalInv(t)'
    BY <1>1, <1>2, <1>3, <2>1, <2>2, ReadTerminal DEF TerminalInv, Ends
  <2>4. PhaseInv'
    <3>1. ~Undisturbed(t)
      BY <2>1 DEF Undisturbed
    <3>2. \A u \in Terminals : Undisturbed(u) => Undisturbed(u)'
      BY <1>2, <1>3, <3>1 DEF Undisturbed
    <3> QED
      BY <1>1, <1>2, <1>3, <3>2, QuietPhase
  <2> QED
    BY <1>4, <1>6, <2>3, <2>4, OneMoves
<1>9. CASE ReceiveEnd(t)
  <2>1. /\ stream'[t].sent = stream[t].sent /\ stream'[t].barriers = stream[t].barriers
        /\ stream'[t].shown = stream[t].shown /\ gui'.wait = gui.wait
        /\ stream[t].end = "queued" /\ stream[t].shown = Len(stream[t].sent)
    BY <1>1, <1>9 DEF ReceiveEnd, EndNext, Stream, Gui
  <2>2. Barrier(t)'
    BY <1>1, <1>2, <2>1 DEF TerminalInv, Barrier
  <2>3. TerminalInv(t)'
    BY <1>1, <1>2, <1>3, <2>1, <2>2, ReadTerminal
  <2>4. PhaseInv'
    BY <1>1, <1>2, <1>3, <2>1, QuietPhase DEF Undisturbed
  <2> QED
    BY <1>4, <1>6, <2>3, <2>4, OneMoves
<1> QED
  BY <1>7, <1>8, <1>9 DEF Draw

\* The snapshot that is uploaded is all that was sent.
LEMMA UploadOutput ==
  ASSUME Inv, OutputInv, NEW t \in Terminals, Upload(t)
  PROVE  OutputKept
<1>1. /\ gui \in Gui /\ tx \in Transaction /\ stream[t].sent \in Seq(Nat)
      /\ TerminalInv(t) /\ PhaseInv /\ WindowInv
  BY TerminalParts DEF Inv, TypeOK, OutputInv
<1>2. /\ UNCHANGED <<bridge, op, preserved, conn, emitted, stream, window>>
      /\ gui.pc = "capture" /\ op.kind = "none" /\ gui.wait[t] = "reached"
  BY DEF Upload
<1>3. /\ gui'.broken = gui.broken /\ gui'.restoring = gui.restoring /\ gui'.pc # "begin"
      /\ gui'.wait[t] = "none" /\ \A u \in Terminals : u # t => gui'.wait[u] = gui.wait[u]
  <2>1. CASE gui' = [gui EXCEPT !.todo = @ \ {t}, !.wait[t] = "none"]
    BY <1>1, <1>2, <2>1 DEF Gui
  <2>2. CASE gui' = [gui EXCEPT !.pc = "abort", !.wait[t] = "none"]
    BY <1>1, <2>2 DEF Gui
  <2> QED
    BY <2>1, <2>2 DEF Upload
<1>4. /\ tx'.token = tx.token
      /\ \A u \in Terminals : u # t => tx'.full[u] = tx.full[u]
                                       /\ (u \in tx'.uploaded => u \in tx.uploaded)
      /\ t \in tx'.uploaded => tx'.full[t] = Screen(t) \/ (t \in tx.uploaded /\ tx' = tx)
  <2>1. CASE tx' = tx
    BY <2>1
  <2>2. CASE tx' = [tx EXCEPT !.full[t] = Screen(t), !.uploaded = @ \cup {t}]
    BY <1>1, <2>2 DEF Transaction
  <2> QED
    BY <2>1, <2>2 DEF Upload
<1>5. OpenKept /\ \A u \in Terminals : u # t => Unmoved(u) /\ Going(u) /\ Untaken(u)
  BY <1>2, <1>3, <1>4 DEF OpenKept, Unmoved, Going, Untaken
<1>6. Barrier(t)'
  <2> SUFFICES ASSUME bridge[t].mode = "paused" PROVE Barrier(t)'
    BY <1>2 DEF Barrier
  <2>1. stream[t].shown = Len(stream[t].sent)
    BY <1>1, <1>2 DEF TerminalInv, Barrier
  <2>2. Screen(t) = stream[t].sent
    BY <1>1, <2>1, SubSeqFull DEF Screen
  <2> QED
    BY <1>1, <1>2, <1>3, <1>4, <2>1, <2>2 DEF TerminalInv, Barrier
<1>7. TerminalInv(t)'
  BY <1>1, <1>2, <1>3, <1>6, ReadTerminal DEF TerminalInv, Ends
<1>8. PhaseInv'
  BY <1>2, <1>3 DEF PhaseInv
<1>9. WindowInv'
  BY <1>1, <1>2, <1>3, <1>4 DEF WindowInv
<1> QED
  BY <1>5, <1>7, <1>8, <1>9, OneMoves

-----------------------------------------------------------------------------
(* A new window, a new connection and a terminal that is taken over.         *)

LEMMA NoBytes == Len(<<>>) = 0 /\ <<>> \in Seq(Nat) /\ <<>> \o <<>> = <<>>
BY EmptySeq, ConcatEmptySeq

LEMMA ActivateOutput ==
  ASSUME Inv, OutputInv, Activate
  PROVE  OutputKept
<1>1. /\ gui \in Gui /\ HoldInv /\ window.gen \in Nat /\ WindowInv
      /\ \A u \in Terminals : TerminalInv(u)
  BY DEF Inv, TypeOK, OutputInv
<1>2. /\ UNCHANGED <<bridge, tx, op, preserved, conn, emitted>> /\ tx.token = 0
      /\ window'.gen = window.gen + 1 /\ window'.open
      /\ \A u \in Terminals : stream'[u] = Empty
      /\ gui'.pc = "idle" /\ gui'.restoring = preserved
  BY <1>1 DEF Activate, NoTx, Gui
<1>3. Empty.sent = <<>> /\ Empty.end = "none"
  BY DEF Empty
<1>4. ASSUME NEW u \in Terminals PROVE TerminalInv(u)'
  <2>1. bridge[u].sink \in Nat /\ emitted[u] \in Nat /\ ~Held(u) /\ bridge[u].mode # "paused"
    BY <1>1, <1>2, TerminalParts DEF Inv, TypeOK, HoldInv, Held
  <2>2. TerminalInv(u)
    BY <1>1
  <2>3. bridge[u].sink <= window.gen
    BY <2>2 DEF TerminalInv, Plain
  <2>4. Fresh(u)' /\ Folded(u)' /\ Ends(u)' /\ Barrier(u)'
    <3>1. stream'[u].sent = <<>> /\ stream'[u].end = "none"
      BY <1>2, <1>3
    <3> QED
      BY <1>2, <2>1, <2>2, <3>1 DEF TerminalInv, Fresh, Folded, Ends, Barrier
  <2>7. Plain(u)'
    <3>1. bridge[u].sink <= window.gen + 1
      BY <1>1, <2>1, <2>3
    <3> QED
      BY <1>2, <2>2, <3>1 DEF TerminalInv, Plain
  <2>5. Whole(u)'
    BY <1>1, <1>2, <2>1, <2>3 DEF Whole, Held, Open
  <2>6. Beginning(u)'
    BY <1>2, <1>3, <2>1, NoOutput, NoBytes DEF Beginning
  <2> QED
    BY <2>4, <2>5, <2>6, <2>7 DEF TerminalInv
<1>5. PhaseInv'
  BY <1>1, <1>2 DEF PhaseInv, HoldInv
<1>6. WindowInv'
  BY <1>2, preserved \subseteq Terminals DEF WindowInv, Inv, TypeOK
<1> QED
  BY <1>4, <1>5, <1>6 DEF OutputKept

LEMMA ConnectReturnsOutput ==
  ASSUME Inv, OutputInv, NEW t \in Terminals, ConnectReturns(t)
  PROVE  OutputKept
<1>1. /\ gui \in Gui /\ window.gen \in Nat /\ op.todo \subseteq Terminals
      /\ conn \in [Terminals -> ConnState] /\ bridge \in [Terminals -> Bridge]
      /\ TerminalInv(t) /\ PhaseInv /\ WindowInv
  BY DEF Inv, TypeOK, Call, OutputInv
<1>2. /\ UNCHANGED <<tx, op, preserved, emitted, stream, window>> /\ conn[t] = "connecting"
      /\ gui'.broken = gui.broken /\ gui'.restoring = gui.restoring /\ gui'.pc = gui.pc
      /\ gui'.wait = gui.wait
      /\ \A u \in Terminals : u # t => conn'[u] = conn[u] /\ bridge'[u] = bridge[u]
  BY <1>1 DEF ConnectReturns, Gui
<1>3. OpenKept /\ \A u \in Terminals : u # t => Unmoved(u) /\ Going(u) /\ Untaken(u)
  BY <1>2 DEF OpenKept, Unmoved, Going, Untaken
<1>4. emitted[t] = 0 /\ stream[t].sent = <<>> /\ stream[t].end = "none"
  BY <1>1, <1>2 DEF TerminalInv, Fresh
<1>5. PhaseInv' /\ WindowInv'
  BY <1>1, <1>2, QuietPhase DEF Undisturbed, WindowInv
<1>6. CASE bridge'[t] = Attached(window.gen) /\ conn'[t] = "running"
  <2>1. /\ bridge'[t].mode = "attached" /\ bridge'[t].sink = window.gen
        /\ bridge'[t].cache = <<>> /\ ~bridge'[t].ended
    BY <1>6 DEF Attached, Dead
  <2>2. Fresh(t)' /\ Plain(t)' /\ Folded(t)' /\ Ends(t)' /\ Barrier(t)'
    BY <1>1, <1>2, <1>4, <1>6, <2>1 DEF Fresh, Plain, Folded, Ends, Barrier
  <2>3. Whole(t)' /\ Beginning(t)'
    BY <1>2, <1>4, <2>1, NoOutput, NoBytes DEF Whole, Beginning
  <2> QED
    BY <1>3, <1>5, <2>2, <2>3, OneMoves DEF TerminalInv
<1>7. CASE bridge'[t] = bridge[t] /\ conn'[t] = "absent"
  <2>1. Unmoved(t) /\ Going(t) /\ Untaken(t)
    BY <1>2, <1>7 DEF Unmoved, Going, Untaken
  <2> QED
    BY <1>1, <1>3, <1>5, <2>1, QuietTerminal, OneMoves
<1> QED
  BY <1>1, <1>6, <1>7 DEF ConnectReturns

\* The new channel is given the whole output at once.
LEMMA AttachOutput ==
  ASSUME Inv, OutputInv, NEW t \in Terminals, Attach(t)
  PROVE  OutputKept
<1>1. /\ gui \in Gui /\ window.gen \in Nat /\ op.todo \subseteq Terminals /\ GroupInv
      /\ stream \in [Terminals -> Stream] /\ bridge \in [Terminals -> Bridge]
      /\ emitted[t] \in Nat /\ TerminalInv(t) /\ PhaseInv /\ WindowInv
  BY DEF Inv, TypeOK, Call, OutputInv
<1>2. /\ UNCHANGED <<tx, op, conn, emitted, window>> /\ bridge[t].mode = "detached"
      /\ t \in preserved /\ preserved' = preserved \ {t}
      /\ gui'.broken = gui.broken /\ gui'.restoring = gui.restoring \ {t} /\ gui'.pc = gui.pc
      /\ gui'.wait = gui.wait
      /\ \A u \in Terminals : u # t => stream'[u] = stream[u] /\ bridge'[u] = bridge[u]
  BY <1>1 DEF Attach, Gui
<1>3. OpenKept /\ \A u \in Terminals : u # t => Unmoved(u) /\ Going(u) /\ Untaken(u)
  BY <1>2 DEF OpenKept, Unmoved, Going, Untaken
<1> DEFINE restored == Restored(bridge[t])
           end      == IF bridge[t].ended THEN "queued" ELSE "none"
<1>4. /\ stream'[t] = [Empty EXCEPT !.sent = restored, !.end = end]
      /\ bridge'[t] = IF bridge[t].ended THEN Dead ELSE Attached(window.gen)
  BY <1>1 DEF Attach
<1>5. restored = Output(emitted[t])
  BY <1>1, <1>2 DEF TerminalInv, Folded, Restored
<1> HIDE DEF restored, end
<1>6. stream'[t].sent = Output(emitted[t]) /\ stream'[t].end = end /\ stream'[t].barriers = <<>>
  BY <1>4, <1>5 DEF Empty
<1>7. /\ bridge'[t].mode = IF bridge[t].ended THEN "dead" ELSE "attached"
      /\ bridge'[t].sink = IF bridge[t].ended THEN 0 ELSE window.gen
      /\ bridge'[t].cache = <<>> /\ ~bridge'[t].ended
  BY <1>4 DEF Attached, Dead
<1>8. Output(emitted[t]) \in Seq(Nat) /\ Len(Output(emitted[t])) = emitted[t]
      /\ Output(emitted[t]) \o <<>> = Output(emitted[t])
  BY <1>1, OutputType, ConcatEmptySeq
<1>9. conn[t] \notin {"absent", "connecting"} /\ (bridge[t].ended => conn[t] \in {"closing", "closed"})
  BY <1>1, <1>2 DEF GroupInv, TerminalInv, Ends
<1>10. Fresh(t)' /\ Plain(t)' /\ Folded(t)' /\ Ends(t)' /\ Barrier(t)'
  BY <1>1, <1>2, <1>6, <1>7, <1>9 DEF Fresh, Plain, Folded, Ends, Barrier, end
<1>11. Whole(t)' /\ Beginning(t)'
  BY <1>1, <1>2, <1>6, <1>7, <1>8 DEF Whole, Beginning
<1>12. PhaseInv'
  BY <1>1, <1>2, <1>6, QuietPhase DEF Undisturbed
<1>13. WindowInv'
  <2>1. gui.restoring \subseteq Terminals
    BY <1>1 DEF Gui
  <2> QED
    BY <1>1, <1>2, <2>1 DEF WindowInv
<1> QED
  BY <1>3, <1>10, <1>11, <1>12, <1>13, OneMoves DEF TerminalInv

-----------------------------------------------------------------------------
(* A transaction holds the output back and detaches it.                      *)

LEMMA PauseOutput ==
  ASSUME Inv, OutputInv, NEW t \in Terminals, Pause(t)
  PROVE  OutputKept
<1>1. /\ op \in Call /\ op.todo \subseteq Terminals /\ HoldInv /\ GroupInv
      /\ stream \in [Terminals -> Stream] /\ bridge \in [Terminals -> Bridge]
      /\ bridge[t].sink \in Nat
      /\ TerminalInv(t) /\ PhaseInv /\ WindowInv
  BY TerminalParts DEF Inv, TypeOK, Call, OutputInv
<1>2. /\ UNCHANGED <<tx, preserved, conn, emitted, window, gui>>
      /\ op.kind = "pause" /\ op.by = "begin" /\ gui.pc = "begin" /\ tx.uploaded = {}
      /\ t \in op.todo /\ Undisturbed(t) /\ gui.restoring = {}
  BY <1>1 DEF Pause, PhaseInv, HoldInv, GroupInv
<1>3. WindowInv'
  BY <1>1, <1>2 DEF WindowInv
<1>4. CASE bridge[t].mode = "attached" /\ Open(t, bridge[t].sink)
  <2>1. /\ bridge' = [bridge EXCEPT ![t] = Paused(bridge[t].sink, tx.token)]
        /\ stream' = [stream EXCEPT ![t].barriers = Append(@, Len(stream[t].sent))]
        /\ op' = [op EXCEPT !.todo = @ \ {t}]
    BY <1>4 DEF Pause
  <2>2. /\ bridge'[t].mode = "paused" /\ bridge'[t].sink = bridge[t].sink
        /\ bridge'[t].cache = <<>> /\ ~bridge'[t].ended
        /\ \A u \in Terminals : u # t => stream'[u] = stream[u] /\ bridge'[u] = bridge[u]
    BY <1>1, <2>1 DEF Paused, Dead
  <2>3. /\ stream'[t].sent = stream[t].sent /\ stream'[t].end = stream[t].end
        /\ stream'[t].barriers = <<Len(stream[t].sent)>>
    BY <1>1, <1>2, <2>1 DEF Stream, Undisturbed
  <2>4. op'.kind = "pause" /\ op'.by = "begin" /\ op'.todo = op.todo \ {t}
    BY <1>1, <1>2, <2>1 DEF Call
  <2>5. OpenKept /\ \A u \in Terminals : u # t => Unmoved(u) /\ Going(u) /\ Untaken(u)
    BY <1>2, <2>2 DEF OpenKept, Unmoved, Going, Untaken
  <2>6. Fresh(t)' /\ Plain(t)' /\ Folded(t)' /\ Beginning(t)' /\ Ends(t)'
    BY <1>1, <1>2, <1>4, <2>2, <2>3 DEF TerminalInv, Fresh, Plain, Folded, Beginning, Ends
  <2>7. Whole(t)'
    BY <1>1, <1>2, <1>4, <2>2, <2>3 DEF TerminalInv, Plain, Whole
  <2>8. Barrier(t)'
    BY <1>2, <2>2, <2>3 DEF Barrier, Undisturbed
  <2>9. PhaseInv'
    BY <1>1, <1>2, <2>2, <2>4 DEF PhaseInv, Begins, Undisturbed
  <2> QED
    BY <1>3, <2>5, <2>6, <2>7, <2>8, <2>9, OneMoves DEF TerminalInv
<1>5. CASE ~(bridge[t].mode = "attached" /\ Open(t, bridge[t].sink))
  <2>1. UNCHANGED <<bridge, stream>> /\ op'.kind = "undo" /\ op'.by = "begin"
    BY <1>1, <1>2, <1>5 DEF Pause, Call
  <2>2. PhaseInv'
    BY <2>1 DEF PhaseInv, Begins
  <2>3. \A u \in Terminals : Going(u) /\ Untaken(u)
    BY <1>2, SameGoing, SameSnapshots
  <2> QED
    BY <1>2, <2>1, <2>2, <2>3, CallStep
<1> QED
  BY <1>4, <1>5

\* The snapshot and what was held since are the whole output.
LEMMA DetachOutput ==
  ASSUME Inv, OutputInv, NEW t \in Terminals, Detach(t)
  PROVE  OutputKept
<1>1. /\ op \in Call /\ tx \in Transaction /\ HoldInv /\ GroupInv
      /\ bridge \in [Terminals -> Bridge]
      /\ TerminalInv(t) /\ PhaseInv /\ WindowInv
  BY DEF Inv, TypeOK, OutputInv
<1>2. /\ UNCHANGED <<preserved, conn, emitted, stream, window, gui>>
      /\ op.kind = "detach" /\ t \in op.todo /\ t \in tx.uploaded
  BY <1>1 DEF Detach, PhaseInv, HoldInv
<1>3. WindowInv'
  BY <1>1, <1>2 DEF WindowInv, Detach, Transaction
<1> DEFINE full   == tx.full[t]
           keep   == Len(full) + Len(bridge[t].cache) + ScreenSize <= TerminalLimit
           folded == IF keep THEN full ELSE <<>>
           replay == Replay(t)
           next   == [bridge[t] EXCEPT !.mode = "detached", !.parsed = replay,
                                       !.full = folded, !.truncated = ~keep]
<1>4. CASE /\ bridge' = [bridge EXCEPT ![t] = next] /\ op' = [op EXCEPT !.todo = @ \ {t}]
           /\ tx' = [tx EXCEPT !.full[t] = <<>>] /\ bridge[t].mode = "paused"
  <2>1. replay = Output(emitted[t]) /\ full \o bridge[t].cache = Output(emitted[t])
    BY <1>1, <1>2, <1>4 DEF TerminalInv, Barrier, Whole, Held, Replay
  <2>2. bridge'[t] = next /\ bridge[t] \in Bridge
        /\ \A u \in Terminals : u # t => bridge'[u] = bridge[u]
    BY <1>1, <1>4
  <2>3. ~keep \/ folded = full
    OBVIOUS
  <2> HIDE DEF keep, folded, replay
  <2>4. /\ bridge'[t].mode = "detached" /\ bridge'[t].sink = bridge[t].sink
        /\ bridge'[t].cache = bridge[t].cache /\ bridge'[t].parsed = replay
        /\ bridge'[t].full = folded /\ bridge'[t].truncated = ~keep
        /\ bridge'[t].ended = bridge[t].ended
    BY <2>2 DEF Bridge
  <2>5. /\ tx'.uploaded = tx.uploaded /\ tx'.terminals = tx.terminals
        /\ \A u \in Terminals : u # t => tx'.full[u] = tx.full[u]
    BY <1>1, <1>4 DEF Transaction
  <2>6. op'.kind = "detach" /\ op'.by = op.by
    BY <1>1, <1>2, <1>4 DEF Call
  <2>7. OpenKept /\ \A u \in Terminals : u # t => Unmoved(u) /\ Going(u) /\ Untaken(u)
    BY <1>2, <2>2, <2>5 DEF OpenKept, Unmoved, Going, Untaken
  <2>8. Fresh(t)' /\ Plain(t)' /\ Beginning(t)' /\ Ends(t)' /\ Barrier(t)'
    BY <1>1, <1>2, <1>4, <2>4 DEF TerminalInv, Fresh, Plain, Beginning, Ends, Barrier
  <2>9. Whole(t)'
    BY <1>1, <1>2, <1>4, <2>4 DEF TerminalInv, Whole, Held
  <2>10. Folded(t)'
    BY <1>2, <2>1, <2>3, <2>4 DEF Folded
  <2>11. PhaseInv'
    BY <1>1, <1>2, <2>5, <2>6 DEF PhaseInv, Begins, Undisturbed
  <2> QED
    BY <1>3, <2>7, <2>8, <2>9, <2>10, <2>11, OneMoves DEF TerminalInv
<1>5. CASE UNCHANGED <<bridge, tx>> /\ op' = [op EXCEPT !.kind = "undo", !.todo = tx.terminals]
  <2>1. op'.kind = "undo" /\ op'.by = op.by
    BY <1>1, <1>5 DEF Call
  <2>2. PhaseInv'
    BY <1>1, <1>2, <2>1 DEF PhaseInv, Begins, Undisturbed
  <2>3. \A u \in Terminals : Going(u) /\ Untaken(u)
    BY <1>2, <1>5, SameGoing, SameSnapshots
  <2> QED
    BY <1>2, <1>5, <2>2, <2>3, CallStep
<1> QED
  BY <1>4, <1>5 DEF Detach

LEMMA FinalizeOutput ==
  ASSUME Inv, OutputInv, Finalize
  PROVE  OutputKept
<1>1. /\ HoldInv /\ GroupInv /\ gui \in Gui /\ bridge \in [Terminals -> Bridge]
      /\ window \in [gen : Nat, open : BOOLEAN] /\ \A u \in Terminals : TerminalInv(u)
  BY DEF Inv, TypeOK, OutputInv
<1>2. /\ UNCHANGED <<conn, emitted, stream>> /\ tx'.token = 0 /\ tx'.uploaded = {}
      /\ op'.kind = "none" /\ gui'.pc = "idle" /\ \A u \in Terminals : gui'.wait[u] = "none"
      /\ gui'.broken = gui.broken /\ gui'.restoring = {}
      /\ window'.gen = window.gen /\ ~window'.open
      /\ \A u \in tx.terminals : bridge[u].mode = "detached"
  BY <1>1 DEF Finalize, GroupValid, HoldInv, GroupInv, NoTx, NoWait, Idle, Gui
<1>3. OpenKept /\ PhaseInv' /\ WindowInv'
  BY <1>2 DEF OpenKept, PhaseInv, WindowInv
<1>4. ASSUME NEW u \in Terminals, u \in tx.terminals PROVE TerminalInv(u)'
  <2> DEFINE cache == IF bridge[u].truncated THEN <<>> ELSE bridge[u].cache
  <2>1. /\ bridge'[u] = [bridge[u] EXCEPT !.sink = 0, !.cache = cache]
        /\ bridge[u] \in Bridge /\ bridge[u].mode = "detached" /\ TerminalInv(u)
    BY <1>1, <1>2, <1>4 DEF Finalize
  <2>2. ~bridge[u].truncated => cache = bridge[u].cache
    OBVIOUS
  <2> HIDE DEF cache
  <2>3. /\ bridge'[u].mode = "detached" /\ bridge'[u].sink = 0 /\ bridge'[u].cache = cache
        /\ bridge'[u].full = bridge[u].full /\ bridge'[u].parsed = bridge[u].parsed
        /\ bridge'[u].truncated = bridge[u].truncated /\ bridge'[u].ended = bridge[u].ended
    BY <2>1 DEF Bridge
  <2>4. 0 <= window.gen
    BY <1>1
  <2>5. Fresh(u)' /\ Plain(u)' /\ Whole(u)' /\ Beginning(u)' /\ Ends(u)' /\ Barrier(u)'
    BY <1>2, <2>1, <2>3, <2>4
       DEF TerminalInv, Fresh, Plain, Whole, Held, Beginning, Ends, Barrier
  <2>6. Folded(u)'
    BY <1>2, <2>1, <2>2, <2>3 DEF TerminalInv, Folded
  <2> QED
    BY <2>5, <2>6 DEF TerminalInv
<1>5. ASSUME NEW u \in Terminals, u \notin tx.terminals PROVE TerminalInv(u)'
  <2>1. Unmoved(u) /\ Going(u) /\ Untaken(u)
    BY <1>2, <1>5 DEF Finalize, Unmoved, Going, Untaken
  <2> QED
    BY <1>1, <1>3, <2>1, QuietTerminal
<1> QED
  BY <1>3, <1>4, <1>5 DEF OutputKept

-----------------------------------------------------------------------------
(* What a bridge releases, and what the terminals emit.                      *)

LEMMA FlushedParts ==
  ASSUME TypeOK, NEW t \in Terminals, NEW extra, Flush(t, extra)
  PROVE  /\ \A u \in Terminals : u # t => bridge'[u] = bridge[u] /\ stream'[u] = stream[u]
         /\ stream'[t].barriers = stream[t].barriers
         /\ \/ bridge'[t].mode = "dead" /\ bridge'[t].sink = 0 /\ stream'[t] = stream[t]
            \/ /\ bridge'[t].mode = IF bridge[t].ended THEN "dead" ELSE "attached"
               /\ bridge'[t].sink = IF bridge[t].ended THEN 0 ELSE bridge[t].sink
               /\ stream'[t].sent = stream[t].sent \o (bridge[t].cache \o extra)
               /\ stream'[t].end \in {stream[t].end, "queued"}
               /\ ~bridge[t].ended => stream'[t].end = stream[t].end
         /\ bridge'[t].cache = <<>> /\ ~bridge'[t].ended
         /\ stream'[t].shown = stream[t].shown
<1>1. /\ bridge \in [Terminals -> Bridge] /\ stream \in [Terminals -> Stream]
      /\ stream[t] \in Stream
  BY DEF TypeOK
<1>2. CASE FlushFails(t, extra)
  <2>1. bridge' = [bridge EXCEPT ![t] = Dead] /\ UNCHANGED stream
    BY <1>2 DEF Flush
  <2> QED
    BY <1>1, <2>1 DEF Dead
<1>3. CASE ~FlushFails(t, extra)
  <2> DEFINE pending == Pending(t, extra)
             end     == IF bridge[t].ended /\ Open(t, bridge[t].sink) THEN "queued"
                                                                      ELSE stream[t].end
             next    == IF bridge[t].ended THEN Dead ELSE Attached(bridge[t].sink)
  <2>1. /\ stream' = [stream EXCEPT ![t].sent = @ \o pending, ![t].end = end]
        /\ bridge' = [bridge EXCEPT ![t] = next]
    BY <1>3 DEF Flush
  <2>2. pending = bridge[t].cache \o extra
    BY DEF Pending
  <2>3. /\ end \in {stream[t].end, "queued"}
        /\ ~bridge[t].ended => end = stream[t].end
    OBVIOUS
  <2>4. /\ next.mode = IF bridge[t].ended THEN "dead" ELSE "attached"
        /\ next.sink = IF bridge[t].ended THEN 0 ELSE bridge[t].sink
        /\ next.cache = <<>> /\ ~next.ended
    BY DEF Attached, Dead
  <2> HIDE DEF pending, end, next
  <2>5. /\ stream'[t].sent = stream[t].sent \o pending /\ stream'[t].end = end
        /\ stream'[t].barriers = stream[t].barriers /\ stream'[t].shown = stream[t].shown
        /\ \A u \in Terminals : u # t => bridge'[u] = bridge[u] /\ stream'[u] = stream[u]
        /\ bridge'[t] = next
    BY <1>1, <2>1 DEF Stream
  <2> QED
    BY <2>2, <2>3, <2>4, <2>5
<1> QED
  BY <1>2, <1>3

\* A flush brings a channel up to date, or the bridge is gone.
LEMMA FlushWhole ==
  ASSUME Inv, NEW t \in Terminals, TerminalInv(t), Held(t),
         NEW extra \in Seq(Nat), Flush(t, extra), TypeOK', UNCHANGED <<window, gui>>,
         stream[t].sent \o (bridge[t].cache \o extra) = Output(emitted'[t]),
         emitted[t] <= emitted'[t], extra # <<>> => ~bridge[t].ended,
         conn'[t] = conn[t] \/ conn'[t] \in {"closing", "closed"}
  PROVE  TerminalInv(t)'
<1>1. /\ TypeOK /\ GroupInv /\ emitted[t] \in Nat /\ emitted'[t] \in Nat
      /\ Len(stream[t].sent) \in Nat
      /\ bridge[t].sink \in Nat /\ window.gen \in Nat
  BY TerminalParts DEF Inv, TypeOK
<1>2. /\ conn[t] \notin {"absent", "connecting"} /\ bridge[t].mode # "dead"
      /\ stream[t].end = "none" /\ bridge[t].sink <= window.gen
      /\ bridge[t].ended => conn'[t] \in {"closing", "closed"}
  BY <1>1 DEF GroupInv, Held, TerminalInv, Ends, Plain
<1>3. Output(emitted'[t]) \in Seq(Nat) /\ Len(Output(emitted'[t])) = emitted'[t]
      /\ Output(emitted'[t]) \o <<>> = Output(emitted'[t])
  BY <1>1, OutputType, ConcatEmptySeq
<1>4. bridge'[t].cache = <<>> /\ ~bridge'[t].ended /\ bridge'[t].mode \in {"dead", "attached"}
  BY <1>1, FlushedParts
<1>5. CASE bridge'[t].mode = "dead" /\ bridge'[t].sink = 0 /\ stream'[t] = stream[t]
  <2>1. Fresh(t)' /\ Plain(t)' /\ Folded(t)' /\ Ends(t)' /\ Barrier(t)' /\ Whole(t)'
    BY <1>1, <1>2, <1>4, <1>5
       DEF Fresh, Plain, Folded, Ends, Barrier, Whole, Held
  <2>2. Beginning(t)'
    BY <1>1, <1>5 DEF TerminalInv, Beginning
  <2> QED
    BY <2>1, <2>2 DEF TerminalInv
<1>6. CASE /\ bridge'[t].mode = IF bridge[t].ended THEN "dead" ELSE "attached"
           /\ bridge'[t].sink = IF bridge[t].ended THEN 0 ELSE bridge[t].sink
           /\ stream'[t].sent = stream[t].sent \o (bridge[t].cache \o extra)
           /\ stream'[t].end \in {stream[t].end, "queued"}
           /\ ~bridge[t].ended => stream'[t].end = stream[t].end
  <2>1. Fresh(t)' /\ Plain(t)' /\ Folded(t)' /\ Ends(t)' /\ Barrier(t)'
    BY <1>1, <1>2, <1>4, <1>6 DEF Fresh, Plain, Folded, Ends, Barrier
  <2>2. Whole(t)' /\ Beginning(t)'
    BY <1>3, <1>4, <1>6, emitted'[t] <= emitted'[t] DEF Whole, Beginning, Held
  <2> QED
    BY <2>1, <2>2 DEF TerminalInv
<1> QED
  BY <1>1, <1>5, <1>6, FlushedParts

LEMMA UndoOutput ==
  ASSUME Inv, OutputInv, TypeOK', NEW t \in Terminals, Undo(t)
  PROVE  OutputKept
<1>1. /\ TypeOK /\ op \in Call /\ HoldInv /\ GroupInv /\ emitted[t] \in Nat
      /\ bridge[t].cache \in Seq(Nat)
      /\ TerminalInv(t) /\ PhaseInv /\ WindowInv
  BY TerminalParts DEF Inv, TypeOK, OutputInv
<1>2. /\ UNCHANGED <<tx, preserved, conn, emitted, window, gui>>
      /\ op.kind = "undo" /\ op' = [op EXCEPT !.todo = @ \ {t}] /\ gui.restoring = {}
  BY <1>1 DEF Undo, HoldInv, GroupInv
<1>3. op'.kind = "undo" /\ op'.by = op.by
  BY <1>1, <1>2 DEF Call
<1>4. WindowInv'
  BY <1>1, <1>2 DEF WindowInv
<1>5. CASE HeldFor(bridge[t], tx.token)
  <2>1. Flush(t, <<>>) /\ Held(t) /\ <<>> \in Seq(Nat)
    BY <1>5, NoBytes DEF Undo, HeldFor, Held
  <2>2. bridge[t].cache \o <<>> = bridge[t].cache
        /\ stream[t].sent \o bridge[t].cache = Output(emitted[t])
    BY <1>1, <2>1, ConcatEmptySeq DEF TerminalInv, Whole
  <2>3. TerminalInv(t)'
    <3> DEFINE extra == <<>>
    <3>1. /\ Flush(t, extra) /\ extra \in Seq(Nat) /\ (extra # <<>> => ~bridge[t].ended)
          /\ stream[t].sent \o (bridge[t].cache \o extra) = Output(emitted'[t])
      BY <1>2, <2>1, <2>2
    <3>2. emitted[t] <= emitted'[t] /\ conn'[t] = conn[t]
      BY <1>1, <1>2
    <3> HIDE DEF extra
    <3> QED
      BY <1>1, <1>2, <2>1, <3>1, <3>2, FlushWhole
  <2>4. /\ \A u \in Terminals : u # t => bridge'[u] = bridge[u] /\ stream'[u] = stream[u]
        /\ stream'[t].barriers = stream[t].barriers
    BY <1>1, <2>1, FlushedParts
  <2>5. OpenKept /\ \A u \in Terminals : u # t => Unmoved(u) /\ Going(u) /\ Untaken(u)
    BY <1>2, <2>4 DEF OpenKept, Unmoved, Going, Untaken
  <2>6. PhaseInv'
    BY <1>1, <1>2, <1>3, <2>4 DEF PhaseInv, Undisturbed, Begins
  <2> QED
    BY <1>4, <2>3, <2>5, <2>6, OneMoves
<1>6. CASE ~HeldFor(bridge[t], tx.token)
  <2>1. UNCHANGED <<bridge, stream>>
    BY <1>6 DEF Undo
  <2>2. PhaseInv'
    BY <1>1, <1>2, <1>3, <2>1 DEF PhaseInv, Undisturbed, Begins
  <2>3. \A u \in Terminals : Going(u) /\ Untaken(u)
    BY <1>2, SameGoing, SameSnapshots
  <2> QED
    BY <1>2, <2>1, <2>2, <2>3, CallStep
<1> QED
  BY <1>5, <1>6

\* A terminal that a new window waits for moves nothing on its channel.
LEMMA RestoringWindow ==
  ASSUME Inv, OutputInv, NEW t \in Terminals, UNCHANGED <<preserved, window, gui>>,
         tx'.token = tx.token,
         \A u \in Terminals : u # t => stream'[u] = stream[u],
         Held(t) \/ bridge[t].mode = "attached" \/ stream'[t] = stream[t]
  PROVE  WindowInv'
<1>1. GroupInv /\ WindowInv /\ gui.restoring \subseteq Terminals
  BY DEF Inv, TypeOK, Gui, OutputInv
<1>2. t \in gui.restoring => stream'[t] = stream[t]
  BY <1>1 DEF GroupInv, WindowInv, Held
<1> QED
  BY <1>1, <1>2 DEF WindowInv

LEMMA EmitEndOutput ==
  ASSUME Inv, OutputInv, NEW t \in Terminals, EmitEnd(t)
  PROVE  OutputKept
<1>1. /\ bridge \in [Terminals -> Bridge] /\ stream \in [Terminals -> Stream]
      /\ conn \in [Terminals -> ConnState] /\ op.todo \subseteq Terminals
      /\ stream[t].sent \in Seq(Nat) /\ window.gen \in Nat /\ emitted[t] \in Nat
      /\ TerminalInv(t) /\ PhaseInv /\ WindowInv
  BY TerminalParts DEF Inv, TypeOK, Call, OutputInv
<1>2. /\ conn[t] = "running" /\ conn'[t] = "closing"
      /\ UNCHANGED <<tx, op, preserved, emitted, window, gui>>
      /\ \A u \in Terminals : u # t => /\ conn'[u] = conn[u] /\ bridge'[u] = bridge[u]
                                       /\ stream'[u] = stream[u]
  BY <1>1 DEF EmitEnd
<1>3. OpenKept /\ \A u \in Terminals : u # t => Unmoved(u) /\ Going(u) /\ Untaken(u)
  BY <1>2 DEF OpenKept, Unmoved, Going, Untaken
<1>4. CASE /\ bridge[t].mode = "attached" /\ Open(t, bridge[t].sink)
           /\ stream' = [stream EXCEPT ![t].end = "queued"]
           /\ bridge' = [bridge EXCEPT ![t] = Dead]
  <2>1. /\ stream'[t].sent = stream[t].sent /\ stream'[t].barriers = stream[t].barriers
        /\ stream'[t].end = "queued" /\ bridge'[t] = Dead
    BY <1>1, <1>4 DEF Stream
  <2>2. bridge'[t].mode = "dead" /\ bridge'[t].sink = 0 /\ ~bridge'[t].ended
        /\ bridge'[t].cache = <<>>
    BY <2>1 DEF Dead
  <2>3. stream[t].sent = Output(emitted[t])
    <3>1. stream[t].sent \o <<>> = Output(emitted[t])
      BY <1>1, <1>4 DEF TerminalInv, Plain, Whole
    <3> QED
      BY <1>1, <3>1, ConcatEmptySeq
  <2>4. Fresh(t)' /\ Plain(t)' /\ Whole(t)' /\ Folded(t)' /\ Ends(t)' /\ Barrier(t)'
    BY <1>1, <1>2, <2>1, <2>2, <2>3 DEF Fresh, Plain, Whole, Held, Folded, Ends, Barrier
  <2>5. Beginning(t)'
    BY <1>1, <1>2, <2>1 DEF TerminalInv, Beginning
  <2>6. PhaseInv'
    BY <1>1, <1>2, <2>1, QuietPhase DEF Undisturbed
  <2>7. WindowInv'
    BY <1>2, <1>4, RestoringWindow
  <2> QED
    BY <1>3, <2>4, <2>5, <2>6, <2>7, OneMoves DEF TerminalInv
<1>5. CASE /\ bridge' = [bridge EXCEPT ![t].ended = TRUE] /\ UNCHANGED stream
  <2>1. /\ bridge'[t].mode = bridge[t].mode /\ bridge'[t].sink = bridge[t].sink
        /\ bridge'[t].cache = bridge[t].cache /\ bridge'[t].full = bridge[t].full
        /\ bridge'[t].parsed = bridge[t].parsed
        /\ bridge'[t].truncated = bridge[t].truncated
    BY <1>1, <1>5 DEF Bridge
  <2>2. Fresh(t)' /\ Plain(t)' /\ Folded(t)' /\ Beginning(t)' /\ Ends(t)' /\ Barrier(t)'
    BY <1>1, <1>2, <1>5, <2>1
       DEF TerminalInv, Fresh, Plain, Folded, Beginning, Ends, Barrier
  <2>3. Whole(t)'
    BY <1>1, <1>2, <1>5, <2>1 DEF TerminalInv, Whole, Held, Open
  <2>4. PhaseInv'
    BY <1>1, <1>2, <1>5, QuietPhase DEF Undisturbed
  <2>5. WindowInv'
    BY <1>2, <1>5, RestoringWindow
  <2> QED
    BY <1>3, <2>2, <2>3, <2>4, <2>5, OneMoves DEF TerminalInv
<1>6. CASE UNCHANGED <<bridge, stream>>
  <2>1. Unmoved(t) /\ Going(t) /\ Untaken(t)
    BY <1>2, <1>6 DEF Unmoved, Going, Untaken
  <2>2. PhaseInv'
    BY <1>1, <1>2, <1>6, QuietPhase DEF Undisturbed
  <2>3. WindowInv'
    BY <1>2, <1>6, RestoringWindow
  <2> QED
    BY <1>1, <1>3, <2>1, <2>2, <2>3, QuietTerminal, OneMoves
<1> QED
  BY <1>4, <1>5, <1>6 DEF EmitEnd

\* One more unit, which is sent, held, folded into the screen or lost with the bridge.
LEMMA EmitDataTerminal ==
  ASSUME Inv, OutputInv, TypeOK', NEW t \in Terminals, EmitData(t)
  PROVE  /\ TerminalInv(t)'
         /\ stream'[t].barriers = stream[t].barriers
         /\ Held(t) \/ bridge[t].mode = "attached" \/ stream'[t] = stream[t]
         /\ \A u \in Terminals : u # t => /\ conn'[u] = conn[u] /\ bridge'[u] = bridge[u]
                                          /\ stream'[u] = stream[u]
         /\ tx'.token = tx.token /\ tx'.uploaded = tx.uploaded
         /\ tx'.terminals = tx.terminals /\ tx'.full = tx.full
<1> DEFINE unit == emitted[t] + 1
<1>1. /\ TypeOK /\ bridge \in [Terminals -> Bridge] /\ stream \in [Terminals -> Stream]
      /\ conn \in [Terminals -> ConnState] /\ tx \in Transaction
      /\ stream[t] \in Stream /\ bridge[t] \in Bridge
      /\ stream[t].sent \in Seq(Nat) /\ bridge[t].cache \in Seq(Nat)
      /\ bridge[t].full \in Seq(Nat) /\ bridge[t].parsed \in Seq(Nat)
      /\ Len(stream[t].sent) \in Nat /\ emitted[t] \in Nat /\ TerminalInv(t)
      /\ bridge[t].sink \in Nat /\ window.gen \in Nat
  BY TerminalParts DEF Inv, TypeOK, OutputInv
<1>2. /\ UNCHANGED <<op, preserved, window, gui>> /\ conn[t] = "running"
      /\ emitted' = [emitted EXCEPT ![t] = unit]
  BY DEF EmitData
<1>3. unit \in Nat /\ emitted[t] <= unit /\ emitted'[t] = unit /\ <<unit>> \in Seq(Nat)
  BY <1>1, <1>2, TerminalParts DEF TypeOK
<1>4. ~bridge[t].ended /\ stream[t].end = "none"
  BY <1>1, <1>2 DEF TerminalInv, Ends
<1>5. Output(unit) \in Seq(Nat) /\ Len(Output(unit)) = unit /\ Output(unit) \o <<>> = Output(unit)
  BY <1>3, OutputType, ConcatEmptySeq
<1>6. ASSUME NEW s \in Seq(Nat), NEW c \in Seq(Nat), s \o c = Output(emitted[t])
      PROVE  s \o Append(c, unit) = Output(unit) /\ s \o (c \o <<unit>>) = Output(unit)
  BY <1>1, <1>6, OneMore
<1> HIDE DEF unit
<1>7. CASE EmitOverflow(t, unit) /\ Held(t)
  <2>1. /\ Flush(t, <<unit>>) /\ tx' = [tx EXCEPT !.invalid = TRUE]
        /\ conn' = [conn EXCEPT ![t] = IF FlushFails(t, <<unit>>) THEN "closing" ELSE @]
    BY <1>7 DEF EmitOverflow
  <2>2. /\ tx'.token = tx.token /\ tx'.uploaded = tx.uploaded
        /\ tx'.terminals = tx.terminals /\ tx'.full = tx.full
    BY <1>1, <2>1 DEF Transaction
  <2>3. conn'[t] = conn[t] \/ conn'[t] = "closing"
    BY <1>1, <2>1
  <2>4. stream[t].sent \o (bridge[t].cache \o <<unit>>) = Output(unit)
    BY <1>1, <1>6, <1>7 DEF TerminalInv, Whole
  <2>5. TerminalInv(t)'
    BY <1>1, <1>2, <1>3, <1>4, <1>7, <2>1, <2>3, <2>4, FlushWhole
  <2>6. /\ \A u \in Terminals : u # t => bridge'[u] = bridge[u] /\ stream'[u] = stream[u]
        /\ stream'[t].barriers = stream[t].barriers
    BY <1>1, <2>1, FlushedParts
  <2> QED
    BY <1>1, <1>7, <2>1, <2>2, <2>5, <2>6
<1>8. CASE EmitAttached(t, unit)
  <2>1. UNCHANGED <<bridge, tx>> /\ bridge[t].mode = "attached" /\ bridge[t].cache = <<>>
    BY <1>1, <1>8 DEF EmitAttached, TerminalInv, Plain
  <2>2. CASE Open(t, bridge[t].sink)
    <3>1. stream' = [stream EXCEPT ![t].sent = Append(@, unit)] /\ UNCHANGED conn
      BY <1>8, <2>2 DEF EmitAttached
    <3>2. /\ stream'[t].sent = Append(stream[t].sent, unit)
          /\ stream'[t].barriers = stream[t].barriers /\ stream'[t].end = stream[t].end
          /\ \A u \in Terminals : u # t => stream'[u] = stream[u]
      BY <1>1, <3>1 DEF Stream
    <3>3. stream'[t].sent = Output(unit)
      <4>1. stream[t].sent \o (<<>> \o <<unit>>) = Output(unit)
        BY <1>1, <1>6, <2>1, <2>2 DEF TerminalInv, Whole
      <4>2. <<>> \o <<unit>> = <<unit>>
        BY <1>3, ConcatEmptySeq
      <4>3. Append(stream[t].sent, unit) = stream[t].sent \o <<unit>>
        BY <1>1, <1>3, AppendIsConcat
      <4> QED
        BY <3>2, <4>1, <4>2, <4>3
    <3>4. Fresh(t)' /\ Plain(t)' /\ Folded(t)' /\ Ends(t)' /\ Barrier(t)'
      BY <1>1, <1>2, <1>4, <2>1, <3>1, <3>2
         DEF TerminalInv, Fresh, Plain, Folded, Ends, Barrier
    <3>5. Whole(t)' /\ Beginning(t)'
      BY <1>3, <1>5, <2>1, <3>3 DEF Whole, Beginning
    <3> QED
      BY <2>1, <3>1, <3>2, <3>4, <3>5 DEF TerminalInv
  <2>3. CASE ~Open(t, bridge[t].sink)
    <3>1. UNCHANGED stream /\ conn' = [conn EXCEPT ![t] = "closing"]
      BY <1>8, <2>3 DEF EmitAttached
    <3>2. Fresh(t)' /\ Plain(t)' /\ Folded(t)' /\ Ends(t)' /\ Barrier(t)'
      BY <1>1, <1>2, <1>4, <2>1, <3>1 DEF TerminalInv, Fresh, Plain, Folded, Ends, Barrier
    <3>3. Whole(t)'
      BY <1>2, <2>1, <2>3 DEF Whole, Held, Open
    <3>4. Beginning(t)'
      BY <1>1, <1>3, <3>1 DEF TerminalInv, Beginning
    <3> QED
      BY <1>1, <2>1, <3>1, <3>2, <3>3, <3>4 DEF TerminalInv
  <2> QED
    BY <2>2, <2>3
<1>9. CASE EmitPaused(t, unit) /\ ~(EmitOverflow(t, unit) /\ Held(t))
  <2>1. /\ bridge' = [bridge EXCEPT ![t].cache = Append(@, unit)] /\ UNCHANGED <<stream, tx, conn>>
        /\ bridge[t].mode = "paused"
    BY <1>9 DEF EmitPaused, Held
  <2>2. /\ bridge'[t].mode = "paused" /\ bridge'[t].sink = bridge[t].sink
        /\ bridge'[t].cache = Append(bridge[t].cache, unit)
        /\ bridge'[t].ended = bridge[t].ended
        /\ \A u \in Terminals : u # t => bridge'[u] = bridge[u]
    BY <1>1, <2>1 DEF Bridge
  <2>3. stream[t].sent \o Append(bridge[t].cache, unit) = Output(unit)
    BY <1>1, <1>6, <2>1 DEF TerminalInv, Whole, Held
  <2>4. Fresh(t)' /\ Plain(t)' /\ Folded(t)' /\ Ends(t)' /\ Barrier(t)'
    BY <1>1, <1>2, <1>4, <2>1, <2>2 DEF TerminalInv, Fresh, Plain, Folded, Ends, Barrier
  <2>5. Whole(t)'
    BY <1>3, <2>1, <2>2, <2>3 DEF Whole
  <2>6. Beginning(t)'
    BY <1>1, <1>3, <2>1 DEF TerminalInv, Beginning
  <2> QED
    BY <2>1, <2>2, <2>4, <2>5, <2>6 DEF TerminalInv
<1>10. CASE EmitDetached(t, unit) /\ ~(EmitOverflow(t, unit) /\ Held(t))
  <2> DEFINE parsed == Append(bridge[t].parsed, unit)
             more   == Append(bridge[t].cache, unit)
             held   == [bridge[t] EXCEPT !.parsed = parsed, !.cache = more]
             folded == [bridge[t] EXCEPT !.parsed = parsed, !.full = <<>>, !.cache = <<>>,
                                         !.truncated = TRUE]
  <2>1. /\ UNCHANGED <<stream, tx, conn>> /\ bridge[t].mode = "detached"
        /\ \/ bridge'[t] = held
           \/ bridge'[t] = folded /\ bridge[t].sink = 0
        /\ \A u \in Terminals : u # t => bridge'[u] = bridge[u]
    BY <1>1, <1>10 DEF EmitDetached, Held
  <2>2. parsed = Output(unit)
    <3>1. bridge[t].parsed = Output(emitted[t])
      BY <1>1, <2>1 DEF TerminalInv, Folded
    <3>2. bridge[t].parsed \o <<>> = Output(emitted[t]) /\ <<>> \in Seq(Nat)
      BY <1>1, <3>1, ConcatEmptySeq
    <3>3. bridge[t].parsed \o (<<>> \o <<unit>>) = Output(unit) /\ <<>> \o <<unit>> = <<unit>>
      BY <1>1, <1>3, <1>6, <3>2, ConcatEmptySeq
    <3> QED
      BY <1>1, <1>3, <3>3, AppendIsConcat
  <2>3. ~bridge[t].truncated => bridge[t].full \o more = Output(unit)
    BY <1>1, <1>6, <2>1 DEF TerminalInv, Folded
  <2>4. Held(t) => stream[t].sent \o more = Output(unit)
    BY <1>1, <1>6 DEF TerminalInv, Whole
  <2> HIDE DEF parsed, more
  <2>5. /\ bridge'[t].mode = "detached" /\ bridge'[t].sink = bridge[t].sink
        /\ bridge'[t].parsed = parsed /\ bridge'[t].ended = bridge[t].ended
        /\ \/ /\ bridge'[t].cache = more /\ bridge'[t].full = bridge[t].full
              /\ bridge'[t].truncated = bridge[t].truncated
           \/ bridge'[t].truncated /\ bridge[t].sink = 0
    BY <1>1, <2>1 DEF Bridge
  <2>6. Fresh(t)' /\ Plain(t)' /\ Ends(t)' /\ Barrier(t)'
    BY <1>1, <1>2, <1>4, <2>1, <2>5 DEF TerminalInv, Fresh, Plain, Ends, Barrier
  <2>7. Whole(t)'
    BY <1>3, <2>1, <2>4, <2>5 DEF Whole, Held
  <2>8. Folded(t)'
    BY <1>3, <2>2, <2>3, <2>5 DEF Folded
  <2>9. Beginning(t)'
    BY <1>1, <1>3, <2>1 DEF TerminalInv, Beginning
  <2> QED
    BY <2>1, <2>6, <2>7, <2>8, <2>9 DEF TerminalInv
<1>11. CASE EmitDead(t)
  <2>1. UNCHANGED <<bridge, stream, tx, conn>> /\ bridge[t].mode = "dead"
    BY <1>11 DEF EmitDead
  <2>2. Fresh(t)' /\ Plain(t)' /\ Whole(t)' /\ Folded(t)' /\ Ends(t)' /\ Barrier(t)'
    BY <1>1, <1>2, <1>4, <2>1 DEF TerminalInv, Fresh, Plain, Whole, Held, Folded, Ends, Barrier
  <2>3. Beginning(t)'
    BY <1>1, <1>3, <2>1 DEF TerminalInv, Beginning
  <2> QED
    BY <2>1, <2>2, <2>3 DEF TerminalInv
<1>12. \/ EmitAttached(t, unit) \/ EmitPaused(t, unit) \/ EmitDetached(t, unit) \/ EmitDead(t)
  BY DEF EmitData, unit
<1> QED
  BY <1>7, <1>8, <1>9, <1>10, <1>11, <1>12

LEMMA EmitDataOutput ==
  ASSUME Inv, OutputInv, TypeOK', NEW t \in Terminals, EmitData(t)
  PROVE  OutputKept
<1>1. /\ UNCHANGED <<op, preserved, window, gui>> /\ op.todo \subseteq Terminals /\ PhaseInv
      /\ \A u \in Terminals : u # t => emitted'[u] = emitted[u]
  BY DEF EmitData, Inv, TypeOK, Call, OutputInv
<1>2. OpenKept /\ \A u \in Terminals : u # t => Unmoved(u) /\ Going(u) /\ Untaken(u)
  BY <1>1, EmitDataTerminal DEF OpenKept, Unmoved, Going, Untaken
<1>3. PhaseInv'
  BY <1>1, EmitDataTerminal, QuietPhase DEF Undisturbed
<1>4. WindowInv'
  BY <1>1, EmitDataTerminal, RestoringWindow
<1> QED
  BY <1>2, <1>3, <1>4, EmitDataTerminal, OneMoves

-----------------------------------------------------------------------------
(* The theorems.                                                             *)

LEMMA OutputInit == Init => OutputInv
<1> SUFFICES ASSUME Init PROVE OutputInv
  OBVIOUS
<1>1. /\ op.kind = "none" /\ gui.pc = "idle" /\ gui.restoring = {} /\ tx.token = 0
      /\ window.gen = 1
  BY DEF Init, Idle, NoTx
<1>2. ASSUME NEW t \in Terminals PROVE TerminalInv(t)
  <2>1. /\ emitted[t] = 0 /\ stream[t] = Empty
        /\ bridge[t] = Dead \/ bridge[t] = Attached(1)
    BY DEF Init
  <2>2. stream[t].sent = <<>> /\ stream[t].end = "none"
    BY <2>1 DEF Empty
  <2>3. /\ bridge[t].mode \in {"dead", "attached"} /\ bridge[t].sink \in {0, 1}
        /\ bridge[t].cache = <<>> /\ ~bridge[t].ended
    <3>1. CASE bridge[t] = Dead
      BY <3>1 DEF Dead
    <3>2. CASE bridge[t] = Attached(1)
      BY <3>2 DEF Attached, Dead
    <3> QED
      BY <2>1, <3>1, <3>2
  <2>4. Fresh(t) /\ Plain(t) /\ Folded(t) /\ Ends(t) /\ Barrier(t)
    BY <1>1, <2>1, <2>2, <2>3 DEF Fresh, Plain, Folded, Ends, Barrier
  <2>5. Whole(t) /\ Beginning(t)
    BY <2>1, <2>2, <2>3, NoOutput, NoBytes DEF Whole, Beginning
  <2> QED
    BY <2>4, <2>5 DEF TerminalInv
<1>3. PhaseInv /\ WindowInv
  BY <1>1 DEF PhaseInv, WindowInv
<1> QED
  BY <1>2, <1>3 DEF OutputInv

LEMMA OutputNext ==
  ASSUME DrainBeforeRetry, Inv, OutputInv, TypeOK', [Next]_vars
  PROVE  OutputInv'
<1> SUFFICES OutputKept
  BY DEF OutputInv, OutputKept
<1>1. ASSUME NEW t \in Terminals, TerminalStep(t) PROVE OutputKept
  BY <1>1, EmitDataOutput, EmitEndOutput, ConnectionOutput, ConnectReturnsOutput
     DEF TerminalStep
<1>2. CASE WindowStep
  BY <1>2, EnterOutput, CaptureOutput, BeginOutput, AbortOutput, ActivateOutput, DrawOutput,
     UploadOutput, AttachOutput, RestoreOutput, ConnectionOutput DEF WindowStep
<1>3. CASE ServiceStep
  BY <1>3, BeginOutput, FinalizeOutput, CaptureOutput, AbortOutput, PauseOutput,
     DetachOutput, UndoOutput DEF ServiceStep
<1>4. ASSUME NEW k \in Tokens, Expire(k) \/ TimerAbort(k) PROVE OutputKept
  BY <1>4, AbortOutput
<1>5. CASE UNCHANGED vars
  <2>1. UNCHANGED <<bridge, tx, op, preserved, conn, emitted, stream, window, gui>>
    BY <1>5 DEF vars
  <2>2. \A u \in Terminals : Going(u) /\ Untaken(u)
    BY <2>1, SameGoing, SameSnapshots
  <2>3. PhaseInv'
    BY <2>1 DEF OutputInv, PhaseInv, Undisturbed, Begins
  <2>4. tx'.token # 0 \/ gui'.pc # "idle" => tx.token # 0 \/ gui.pc # "idle" \/ window.open
    BY <2>1
  <2> QED
    BY <2>1, <2>2, <2>3, <2>4, CallStep
<1> QED
  BY <1>1, <1>2, <1>3, <1>4, <1>5 DEF Next

LEMMA OutputCorrect ==
  ASSUME DrainBeforeRetry
  PROVE  Spec => []OutputInv
<1>1. Inv /\ OutputInv /\ TypeOK' /\ [Next]_vars => OutputInv'
  BY OutputNext
<1> QED
  BY <1>1, OutputInit, InvCorrect, TypeCorrect, PTL DEF Spec

\* Nothing that a terminal has emitted is lost, doubled or reordered on the ways it
\* takes: to the old window, into the cache of the mode, and before the shown end
\* (lightweight.rs, dispatch_output, commit and attach).  The hypothesis is about the
\* window: it has read its barriers before it begins again.
THEOREM OutputComplete ==
  ASSUME DrainBeforeRetry
  PROVE  Spec => []OutputIntact
<1>1. Inv /\ OutputInv => FallbackIntact
  <2> SUFFICES ASSUME Inv, OutputInv, NEW t \in Terminals, HasWindow(t)
               PROVE  stream[t].sent \o bridge[t].cache = Output(emitted[t])
    BY DEF FallbackIntact
  <2>1. window.gen # 0 /\ Whole(t)
    BY DEF Inv, HoldInv, OutputInv, TerminalInv
  <2> QED
    BY <2>1 DEF HasWindow, Whole, Held, Open
<1>2. Inv /\ OutputInv => PreservedIntact
  BY DEF Inv, TypeOK, GroupInv, OutputInv, TerminalInv, Folded, PreservedIntact
<1>3. Inv /\ OutputInv => EndAfterOutput
  <2> SUFFICES ASSUME Inv, OutputInv, NEW t \in Terminals, stream[t].end = "shown"
               PROVE  Screen(t) = Output(emitted[t])
    BY DEF EndAfterOutput
  <2>1. stream[t].sent \in Seq(Nat)
    BY TerminalParts DEF Inv
  <2>2. stream[t].sent = Output(emitted[t]) /\ stream[t].shown = Len(stream[t].sent)
    BY DEF OutputInv, TerminalInv, Ends
  <2> QED
    BY <2>1, <2>2, SubSeqFull DEF Screen
<1> QED
  BY <1>1, <1>2, <1>3, OutputCorrect, InvCorrect, PTL DEF OutputIntact

\* A snapshot that stands in for the channel of a paused terminal holds all that was
\* sent on it, provided that the window has read the barriers of earlier attempts;
\* the run lightweight_retry shows what happens when it has not.
THEOREM SnapshotsDrained ==
  ASSUME DrainBeforeRetry
  PROVE  Spec => []SnapshotDrained
<1>1. Inv /\ OutputInv => SnapshotDrained
  BY DEF Inv, TypeOK, Transaction, OutputInv, TerminalInv, Barrier, SnapshotDrained
<1> QED
  BY <1>1, OutputCorrect, InvCorrect, PTL

-----------------------------------------------------------------------------
(* Lightweight mode implements a plain stream for every terminal.            *)

Finished == {t \in Terminals : conn[t] # "running"}

Over == {t \in Terminals : window.open /\ stream[t].end = "shown"}

LEMMA ShownOutput ==
  ASSUME NEW s \in Stream, ShownSent(s), NEW n \in Nat,
         s.sent = Output(Len(s.sent)), Len(s.sent) <= n
  PROVE  /\ SubSeq(s.sent, 1, s.shown) = Output(s.shown)
         /\ Len(Output(s.shown)) = s.shown /\ s.shown <= n
<1> DEFINE sent  == s.sent
           shown == s.shown
<1>1. /\ sent \in Seq(Nat) /\ Len(sent) \in Nat /\ shown \in Nat /\ shown <= Len(sent)
  BY LenProperties DEF Stream, ShownSent
<1>2. sent = Output(Len(sent)) /\ Len(sent) <= n
  OBVIOUS
<1> HIDE DEF sent, shown
<1>4. \A i \in 1..shown : sent[i] = i
  <2>1. \A i \in 1..Len(sent) : Output(Len(sent))[i] = i
    BY <1>1, OutputType
  <2> QED
    BY <1>1, <1>2, <2>1
<1>5. /\ SubSeq(sent, 1, shown) \in Seq(Nat) /\ Len(SubSeq(sent, 1, shown)) = shown
      /\ \A i \in 1..shown : SubSeq(sent, 1, shown)[i] = i
  <2>1. \A i \in 1..shown : sent[i] \in Nat
    BY <1>1, <1>4
  <2>2. /\ SubSeq(sent, 1, shown) \in Seq(Nat)
        /\ Len(SubSeq(sent, 1, shown)) = IF 1 <= shown THEN shown - 1 + 1 ELSE 0
        /\ \A i \in 1..(shown - 1 + 1) : SubSeq(sent, 1, shown)[i] = sent[1 + i - 1]
    BY <1>1, <2>1, SubSeqProperties
  <2> QED
    BY <1>1, <1>4, <2>2
<1>6. /\ Output(shown) \in Seq(Nat) /\ Len(Output(shown)) = shown
      /\ \A i \in 1..shown : Output(shown)[i] = i
  BY <1>1, OutputType
<1>7. SubSeq(sent, 1, shown) = Output(shown)
  BY <1>5, <1>6, SeqEqual
<1>8. shown <= n
  BY <1>1, <1>2
<1> QED
  BY <1>6, <1>7, <1>8 DEF sent, shown

\* What is known of both ends of a step.
Both == TypeOK /\ Inv /\ OutputInv /\ TypeOK' /\ OutputInv'

LEMMA SameView ==
  ASSUME Both, window'.open = window.open,
         \A t \in Terminals : stream'[t].shown = stream[t].shown
  PROVE  View' = View
<1>1. \A t \in Terminals : Screen(t)' = Screen(t)
  <2> SUFFICES ASSUME NEW t \in Terminals PROVE Screen(t)' = Screen(t)
    OBVIOUS
  <2>1. Screen(t) = Output(stream[t].shown)
    BY ShownOutput DEF Both, TypeOK, OutputInv, TerminalInv, Beginning, Screen
  <2>2. Screen(t)' = Output(stream'[t].shown)
    BY ShownOutput DEF Both, TypeOK, OutputInv, TerminalInv, Beginning, Screen
  <2> QED
    BY <2>1, <2>2
<1> QED
  BY <1>1 DEF View

\* No output and no end is shown, and no connection begins.
Calm ==
  /\ emitted' = emitted /\ window'.open = window.open
  /\ \A t \in Terminals :
       /\ conn'[t] = "running" => conn[t] = "running"
       /\ stream'[t].shown = stream[t].shown
       /\ stream'[t].end = "shown" <=> stream[t].end = "shown"

LEMMA CalmUser ==
  ASSUME Both, Calm
  PROVE  User!Next
<1> DEFINE T == {t \in Terminals : conn[t] = "running" /\ conn'[t] # "running"}
<1>1. View' = View
  BY SameView DEF Calm
<1>2. Finished' = Finished \cup T /\ T \cap Finished = {} /\ T \in SUBSET Terminals
  BY DEF Finished, Calm
<1>3. Over' = Over
  BY DEF Over, Calm
<1> HIDE DEF T
<1>4. \E S \in SUBSET Terminals : User!Finish(S)
  BY <1>1, <1>2, <1>3 DEF User!Finish, Finished, Over, Calm
<1> QED
  BY <1>4 DEF User!Next

\* Steps that move no channel.
LEMMA StillCalm ==
  ASSUME Both, UNCHANGED <<emitted, stream>>, window'.open = window.open,
         \A t \in Terminals : conn'[t] = "running" => conn[t] = "running"
  PROVE  User!Next
BY CalmUser DEF Calm

LEMMA StillSteps ==
  ASSUME Both,
         \/ Enter \/ CaptureFails \/ CaptureDone
         \/ BeginRefused \/ Begin \/ CommitRefused \/ Commit \/ AbortCall \/ FinishRestore
         \/ BeginDone \/ FinalizeFails \/ UndoDone
         \/ \E t \in Terminals : \/ FinishConnection(t) \/ Connect(t) \/ BreakChannel(t)
                                 \/ Upload(t) \/ AttachFails(t) \/ Detach(t)
         \/ \E k \in Tokens : Expire(k) \/ TimerAbort(k)
  PROVE  User!Next
<1>1. UNCHANGED <<emitted, stream>> /\ window' = window
  BY DEF Enter, CaptureFails, CaptureDone, BeginRefused, Begin, CommitRefused, Commit, AbortCall,
     FinishRestore, BeginDone, FinalizeFails, UndoDone, FinishConnection, Connect, BreakChannel,
     Upload, AttachFails, Detach, Expire, TimerAbort
<1>2. conn \in [Terminals -> ConnState]
  BY DEF Both, TypeOK
<1>3. \A t \in Terminals : conn'[t] = "running" => conn[t] = "running"
  BY <1>2 DEF Enter, CaptureFails, CaptureDone, BeginRefused, Begin, CommitRefused, Commit, AbortCall,
     FinishRestore, BeginDone, FinalizeFails, UndoDone, FinishConnection, Connect, BreakChannel,
     Upload, AttachFails, Detach, Expire, TimerAbort
<1> QED
  BY <1>1, <1>3, StillCalm

\* Steps that move one channel, not what it shows.
LEMMA CalmSteps ==
  ASSUME Both, NEW t \in Terminals,
         EmitEnd(t) \/ ReceiveBarrier(t) \/ Pause(t) \/ Undo(t) \/ Attach(t)
  PROVE  User!Next
<1>1. /\ TypeOK /\ stream \in [Terminals -> Stream] /\ stream[t] \in Stream
      /\ conn \in [Terminals -> ConnState] /\ TerminalInv(t) /\ WindowInv
  BY DEF Both, TypeOK, OutputInv
<1>2. emitted' = emitted /\ window' = window
      /\ \A u \in Terminals : conn'[u] = "running" => conn[u] = "running"
  BY <1>1 DEF EmitEnd, ReceiveBarrier, Pause, Undo, Attach
<1> SUFFICES /\ \A u \in Terminals : u # t => stream'[u] = stream[u]
             /\ stream'[t].shown = stream[t].shown
             /\ stream'[t].end = "shown" <=> stream[t].end = "shown"
  BY <1>2, CalmUser DEF Calm
<1>3. CASE UNCHANGED stream
  BY <1>3
<1>4. CASE EmitEnd(t) /\ stream' = [stream EXCEPT ![t].end = "queued"]
  <2>1. bridge[t].mode # "dead" \/ UNCHANGED stream
    BY <1>4 DEF EmitEnd
  <2>2. stream[t].end = "none" \/ UNCHANGED stream
    BY <1>1, <2>1 DEF TerminalInv, Ends
  <2> QED
    BY <1>1, <1>4, <2>2 DEF Stream
<1>5. CASE ReceiveBarrier(t)
  BY <1>1, <1>5 DEF ReceiveBarrier, Stream
<1>6. CASE Pause(t) /\ stream' = [stream EXCEPT ![t].barriers = Append(@, Len(stream[t].sent))]
  BY <1>1, <1>6 DEF Stream
<1>7. CASE Undo(t) /\ HeldFor(bridge[t], tx.token)
  <2>1. Flush(t, <<>>) /\ bridge[t].mode # "dead"
    BY <1>7 DEF Undo, HeldFor
  <2>2. stream[t].end = "none"
    BY <1>1, <2>1 DEF TerminalInv, Ends
  <2> QED
    BY <1>1, <2>1, <2>2, FlushedParts
<1>8. CASE Attach(t)
  <2> DEFINE sent == Restored(bridge[t])
             end  == IF bridge[t].ended THEN "queued" ELSE "none"
  <2>1. stream' = [stream EXCEPT ![t] = [Empty EXCEPT !.sent = sent, !.end = end]]
        /\ t \in gui.restoring
    BY <1>8 DEF Attach
  <2>2. stream[t] = Empty /\ end # "shown"
    BY <1>1, <2>1 DEF WindowInv
  <2> HIDE DEF sent, end
  <2> QED
    BY <1>1, <2>1, <2>2 DEF Empty
<1> QED
  BY <1>3, <1>4, <1>5, <1>6, <1>7, <1>8 DEF EmitEnd, Pause, Undo

\* Emitting shows nothing.
LEMMA EmitDataShown ==
  ASSUME TypeOK, NEW t \in Terminals, TerminalInv(t), EmitData(t)
  PROVE  /\ stream'[t].shown = stream[t].shown /\ stream'[t].end = stream[t].end
         /\ conn' = conn \/ conn' = [conn EXCEPT ![t] = "closing"]
<1> DEFINE unit == emitted[t] + 1
<1>1. /\ stream \in [Terminals -> Stream] /\ stream[t] \in Stream
      /\ conn \in [Terminals -> ConnState]
  BY DEF TypeOK
<1>2. ~bridge[t].ended
  BY DEF TerminalInv, Ends, EmitData
<1> HIDE DEF unit
<1>3. CASE EmitOverflow(t, unit)
  <2>1. Flush(t, <<unit>>)
        /\ conn' = [conn EXCEPT ![t] = IF FlushFails(t, <<unit>>) THEN "closing" ELSE @]
    BY <1>3 DEF EmitOverflow
  <2>2. conn' = conn \/ conn' = [conn EXCEPT ![t] = "closing"]
    BY <1>1, <2>1
  <2> QED
    BY <1>2, <2>1, <2>2, FlushedParts
<1>4. CASE UNCHANGED stream /\ (conn' = conn \/ conn' = [conn EXCEPT ![t] = "closing"])
  BY <1>4
<1>5. CASE stream' = [stream EXCEPT ![t].sent = Append(@, unit)] /\ UNCHANGED conn
  BY <1>1, <1>5 DEF Stream
<1>6. \/ EmitAttached(t, unit) \/ EmitPaused(t, unit) \/ EmitDetached(t, unit) \/ EmitDead(t)
  BY DEF EmitData, unit
<1> QED
  BY <1>3, <1>4, <1>5, <1>6 DEF EmitAttached, EmitPaused, EmitDetached, EmitDead

LEMMA EmitUser ==
  ASSUME Both, NEW t \in Terminals, EmitData(t)
  PROVE  User!Next
<1>1. /\ TypeOK /\ Inv /\ OutputInv /\ TypeOK' /\ TerminalInv(t) /\ emitted[t] \in Nat
      /\ MaxOutput \in Nat /\ conn \in [Terminals -> ConnState]
  BY BoundAssumption DEF Both, TypeOK, OutputInv
<1>2. /\ conn[t] = "running" /\ emitted[t] + 1 <= MaxOutput /\ UNCHANGED window
      /\ emitted' = [emitted EXCEPT ![t] = @ + 1]
  BY DEF EmitData
<1>3. /\ stream'[t].shown = stream[t].shown /\ stream'[t].end = stream[t].end
      /\ conn' = conn \/ conn' = [conn EXCEPT ![t] = "closing"]
  BY <1>1, EmitDataShown
<1>4. \A u \in Terminals : u # t => stream'[u] = stream[u]
  BY <1>1, EmitDataTerminal
<1>5. View' = View /\ Over' = Over
  BY <1>2, <1>3, <1>4, SameView DEF Over
<1>6. t \notin Finished /\ (Finished' = Finished \/ Finished' = Finished \cup {t})
  BY <1>1, <1>2, <1>3 DEF Finished
<1>7. emitted[t] < MaxOutput
  BY <1>1, <1>2
<1>8. \E u \in Terminals : User!Emit(u)
  BY <1>2, <1>5, <1>6, <1>7 DEF User!Emit, Finished, Over
<1> QED
  BY <1>8 DEF User!Next

LEMMA StartUser ==
  ASSUME Both, NEW t \in Terminals, ConnectReturns(t)
  PROVE  User!Next
<1>1. conn \in [Terminals -> ConnState] /\ TerminalInv(t) /\ GroupInv
  BY DEF Both, TypeOK, OutputInv, Inv
<1>2. conn[t] = "connecting" /\ UNCHANGED <<emitted, stream, window>>
  BY DEF ConnectReturns
<1>3. CASE conn' = [conn EXCEPT ![t] = "absent"]
  BY <1>1, <1>2, <1>3, StillCalm
<1>4. CASE conn' = [conn EXCEPT ![t] = "running"]
  <2>1. emitted[t] = 0 /\ window.open
    BY <1>1, <1>2 DEF TerminalInv, Fresh, GroupInv
  <2>2. View' = View /\ Over' = Over
    BY <1>2, SameView DEF Over
  <2>3. t \in Finished /\ Finished' = Finished \ {t}
    BY <1>1, <1>2, <1>4 DEF Finished
  <2>4. \E u \in Terminals : User!Start(u)
    BY <1>2, <2>1, <2>2, <2>3 DEF User!Start, Finished, Over
  <2> QED
    BY <2>4 DEF User!Next
<1> QED
  BY <1>3, <1>4 DEF ConnectReturns

LEMMA ShowUser ==
  ASSUME Both, NEW t \in Terminals, ReceiveData(t)
  PROVE  User!Next
<1>1. /\ stream \in [Terminals -> Stream] /\ stream[t] \in Stream /\ TerminalInv(t)
      /\ Len(stream[t].sent) \in Nat /\ stream[t].shown \in Nat /\ emitted[t] \in Nat
  BY TerminalParts DEF Both, TypeOK, OutputInv
<1>2. /\ UNCHANGED <<conn, emitted, window>> /\ window.open
      /\ stream' = [stream EXCEPT ![t].shown = @ + 1]
      /\ stream[t].shown < Len(stream[t].sent)
  BY DEF ReceiveData, DataNext
<1>3. /\ stream'[t].shown = stream[t].shown + 1 /\ stream'[t].end = stream[t].end
      /\ stream'[t].sent = stream[t].sent
      /\ \A u \in Terminals : u # t => stream'[u] = stream[u]
  BY <1>1, <1>2 DEF Stream
<1> DEFINE n == stream[t].shown + 1
<1>4. /\ Len(View[t]) = stream[t].shown /\ n \in Len(View[t])..emitted[t]
  <2>1. View[t] = Output(stream[t].shown) /\ Len(Output(stream[t].shown)) = stream[t].shown
    BY <1>2, ShownOutput DEF Both, TypeOK, OutputInv, TerminalInv, Beginning, View, Screen
  <2>2. Len(stream[t].sent) <= emitted[t]
    BY <1>1 DEF TerminalInv, Beginning
  <2> QED
    BY <1>1, <1>2, <2>1, <2>2
<1>5. View' = [View EXCEPT ![t] = Output(n)]
  <2>1. Screen(t)' = Output(n)
    BY <1>3, ShownOutput DEF Both, TypeOK, OutputInv, TerminalInv, Beginning, Screen
  <2>2. \A u \in Terminals : u # t => Screen(u)' = Screen(u)
    BY <1>3 DEF Screen
  <2> QED
    BY <1>2, <2>1, <2>2 DEF View
<1>6. Finished' = Finished /\ Over' = Over
  BY <1>2, <1>3 DEF Finished, Over
<1>7. t \notin Over
  BY <1>1, <1>2 DEF Over, TerminalInv, Ends
<1> HIDE DEF n
<1>8. \E u \in Terminals : User!Show(u)
  BY <1>2, <1>4, <1>5, <1>6, <1>7 DEF User!Show, User!Prefix, Output, Finished, Over
<1> QED
  BY <1>8 DEF User!Next

LEMMA ShowEndUser ==
  ASSUME Both, NEW t \in Terminals, ReceiveEnd(t)
  PROVE  User!Next
<1>1. /\ stream \in [Terminals -> Stream] /\ stream[t] \in Stream /\ TerminalInv(t)
      /\ emitted[t] \in Nat
  BY DEF Both, TypeOK, OutputInv
<1>2. /\ UNCHANGED <<conn, emitted, window>> /\ window.open
      /\ stream' = [stream EXCEPT ![t].end = "shown"]
      /\ stream[t].end = "queued" /\ stream[t].shown = Len(stream[t].sent)
  BY DEF ReceiveEnd, EndNext
<1>3. /\ stream'[t].shown = stream[t].shown /\ stream'[t].end = "shown"
      /\ \A u \in Terminals : u # t => stream'[u] = stream[u]
  BY <1>1, <1>2 DEF Stream
<1>4. View' = View
  BY <1>2, <1>3, SameView
<1>5. Over' = Over \cup {t} /\ t \notin Over /\ Finished' = Finished
  BY <1>2, <1>3 DEF Over, Finished
<1>6. t \in Finished /\ View[t] = Output(emitted[t])
  <2>1. conn[t] # "running" /\ stream[t].sent = Output(emitted[t])
    BY <1>1, <1>2 DEF TerminalInv, Ends
  <2>2. stream[t].shown = emitted[t]
    BY <1>1, <1>2, <2>1, OutputType
  <2>3. View[t] = Output(stream[t].shown)
    BY <1>2, ShownOutput DEF Both, TypeOK, OutputInv, TerminalInv, Beginning, View, Screen
  <2> QED
    BY <2>1, <2>2, <2>3 DEF Finished
<1>7. \E u \in Terminals : User!ShowEnd(u)
  BY <1>2, <1>4, <1>5, <1>6 DEF User!ShowEnd, User!Prefix, Output, Finished, Over
<1> QED
  BY <1>7 DEF User!Next

\* The window is destroyed, or a new one appears with nothing on its channels.
LEMMA WindowUser ==
  ASSUME Both, Finalize \/ Activate
  PROVE  User!Next
<1>1. window \in [gen : Nat, open : BOOLEAN] /\ HoldInv /\ WindowInv
  BY DEF Both, TypeOK, Inv, OutputInv
<1>2. UNCHANGED <<conn, emitted>> /\ (Activate => ~window.open /\ window'.open)
      /\ (Finalize => window.open /\ ~window'.open)
  <2>1. CASE Finalize
    <3>1. tx.token # 0 /\ window' = [window EXCEPT !.open = FALSE] /\ UNCHANGED <<conn, emitted>>
      BY <1>1, <2>1 DEF Finalize, HoldInv
    <3>2. window.open /\ ~window'.open
      BY <1>1, <3>1 DEF WindowInv
    <3> QED
      BY <3>1, <3>2 DEF Activate
  <2>2. CASE Activate
    <3>1. ~window.open /\ window'.open /\ UNCHANGED <<conn, emitted>>
      BY <2>2 DEF Activate
    <3>2. ~Finalize
      BY <1>1, <3>1 DEF Finalize, HoldInv, WindowInv
    <3> QED
      BY <3>1, <3>2
  <2> QED
    BY <2>1, <2>2
<1>3. Finished' = Finished
  BY <1>2 DEF Finished
<1>4. ~window.open => View = [t \in Terminals |-> <<>>] /\ Over = {}
  BY DEF View, Over
<1>5. CASE Finalize
  <2>1. window.open /\ ~window'.open
    BY <1>1, <1>2, <1>5 DEF Finalize, HoldInv, WindowInv
  <2>2. View' = [t \in Terminals |-> <<>>] /\ Over' = {}
    BY <2>1 DEF View, Over
  <2>3. User!Close
    BY <1>2, <1>3, <2>1, <2>2 DEF User!Close, User!Blank, Finished, Over
  <2> QED
    BY <2>3 DEF User!Next
<1>6. CASE Activate
  <2>1. ~window.open /\ window'.open /\ stream' = [t \in Terminals |-> Empty]
    BY <1>2, <1>6 DEF Activate
  <2>2. \A t \in Terminals : stream'[t].end # "shown" /\ Screen(t)' = <<>>
    <3>1. SubSeq(<<>>, 1, 0) = <<>>
      BY SubSeqEmpty
    <3> QED
      BY <2>1, <3>1 DEF Empty, Screen
  <2>3. View' = View /\ Over' = Over
    BY <1>4, <2>1, <2>2 DEF View, Over
  <2>4. User!Reopen
    BY <1>2, <1>3, <2>1, <2>3 DEF User!Reopen, Finished, Over
  <2> QED
    BY <2>4 DEF User!Next
<1> QED
  BY <1>5, <1>6

LEMMA UserInit == Init => User!Init
<1> SUFFICES ASSUME Init PROVE User!Init
  OBVIOUS
<1>1. /\ emitted = [t \in Terminals |-> 0] /\ window.open \in BOOLEAN
      /\ \A t \in Terminals : stream[t].sent = <<>> /\ stream[t].shown = 0
                              /\ stream[t].end = "none"
  BY DEF Init, Empty
<1>2. SubSeq(<<>>, 1, 0) = <<>>
  BY SubSeqEmpty
<1>3. View = [t \in Terminals |-> <<>>] /\ Over = {} /\ Finished \in SUBSET Terminals
  BY <1>1, <1>2 DEF View, Screen, Over, Finished
<1> QED
  BY <1>1, <1>3 DEF User!Init, User!Blank, Over, Finished

LEMMA UserNext ==
  ASSUME Both, Next
  PROVE  User!Next
BY StillSteps, CalmSteps, EmitUser, StartUser, ShowUser, ShowEndUser, WindowUser
   DEF Next, TerminalStep, WindowStep, ServiceStep, Draw

\* To the user of the window, holds, snapshots, the destruction of the window and the
\* restore of its terminals look like one stream per terminal (lightweight.rs and the
\* commands of lightweight_mode.rs together).
THEOREM LooksLikeStreams ==
  ASSUME DrainBeforeRetry
  PROVE  Spec => UserView
<1>1. Both /\ [Next]_vars => [User!Next]_(User!vars)
  <2>1. CASE Both /\ Next
    BY <2>1, UserNext
  <2>2. CASE UNCHANGED vars
    <3>1. UNCHANGED <<emitted, window, stream, conn>>
      BY <2>2 DEF vars
    <3>2. View' = View /\ Finished' = Finished /\ Over' = Over
      BY <3>1 DEF View, Screen, Finished, Over
    <3> QED
      BY <3>1, <3>2 DEF User!vars, Finished, Over
  <2> QED
    BY <2>1, <2>2
<1>2. TypeOK /\ Inv /\ OutputInv /\ TypeOK' /\ OutputInv' => Both
  BY DEF Both
<1> QED
  BY <1>1, <1>2, UserInit, OutputCorrect, InvCorrect, TypeCorrect, PTL DEF Spec, UserView, User!Spec

-----------------------------------------------------------------------------
(* The budget.  Used is a fold over the terminals; a fold is a recursive     *)
(* function, and two such functions are compared by looking at a smallest    *)
(* set on which they differ.  With that, one step adds to Used at most what  *)
(* it adds to one terminal, and every step that adds has checked the sum.    *)

Less == {p \in Nat \X Nat : p[1] < p[2]}

\* Every set of numbers that is not empty has a least one.
LEMMA LeastNumber ==
  ASSUME NEW S \in SUBSET Nat, S # {}
  PROVE  \E n \in S : \A m \in S : n <= m
<1>1. Less = OpToRel(<, Nat)
  BY Zenon DEF Less, OpToRel
<1>2. IsWellFoundedOn(Less, Nat)
  BY <1>1, NatLessThanWellFounded, Zenon
<1>3. PICK n \in S : \A m \in S : ~(<<m, n>> \in Less)
  BY <1>2, WFMin, Zenon
<1>4. \A m \in S : m < n => <<m, n>> \in Less
  BY SMT DEF Less
<1>5. \A m \in S : ~(m < n)
  BY <1>3, <1>4, Zenon
<1>. QED BY <1>5, SMT

\* Of the finite sets in a set of sets one has no part in it but itself.
LEMMA LeastSet ==
  ASSUME NEW S, IsFiniteSet(S), NEW Bad \in SUBSET SUBSET S, Bad # {}
  PROVE  \E s \in Bad : \A r \in SUBSET s : r # s => r \notin Bad
<1>. DEFINE Sizes == {Cardinality(s) : s \in Bad}
<1>1. \A s \in SUBSET S : IsFiniteSet(s) /\ Cardinality(s) \in Nat
  BY FS_Subset, FS_CardinalityType
<1>2. Sizes \in SUBSET Nat /\ Sizes # {}
  BY <1>1
<1>3. PICK n \in Sizes : \A m \in Sizes : n <= m
  BY <1>2, LeastNumber
<1>4. PICK s \in Bad : n = Cardinality(s)
  OBVIOUS
<1>5. ASSUME NEW r \in SUBSET s, r # s, r \in Bad PROVE FALSE
  <2>1. Cardinality(r) < Cardinality(s)
    BY <1>1, <1>5, FS_Subset
  <2>2. Cardinality(s) <= Cardinality(r)
    BY <1>3, <1>4, <1>5
  <2>. QED BY <1>1, <1>5, <2>1, <2>2
<1>. QED BY <1>5

\* The sums of v over the parts of S.
First(s) == CHOOSE x \in s : TRUE
Sums(v, S, f) == f = [s \in SUBSET S |-> IF s = {} THEN 0 ELSE v[First(s)] + f[s \ {First(s)}]]

LEMMA FirstIn ==
  \A s : s # {} =>
    First(s) \in s /\ s \ {First(s)} \in SUBSET s /\ s \ {First(s)} # s
BY DEF First

LEMMA SumsStep ==
  ASSUME NEW v, NEW S, NEW f, Sums(v, S, f), NEW s \in SUBSET S
  PROVE  f[s] = IF s = {} THEN 0 ELSE v[First(s)] + f[s \ {First(s)}]
BY Zenon DEF Sums

LEMMA SumsAgree ==
  ASSUME NEW v, NEW S, NEW R, NEW f, NEW g, Sums(v, S, f), Sums(v, R, g),
         NEW Q, IsFiniteSet(Q), Q \subseteq S, Q \subseteq R
  PROVE  f[Q] = g[Q]
<1>. DEFINE Bad == {s \in SUBSET Q : f[s] # g[s]}
<1>. SUFFICES ASSUME Bad # {} PROVE FALSE
  OBVIOUS
<1>0. /\ Bad \in SUBSET SUBSET Q
      /\ \A s : s \in Bad <=> s \in SUBSET Q /\ f[s] # g[s]
  OBVIOUS
<1>. HIDE DEF Bad
<1>1. PICK s \in Bad : \A r \in SUBSET s : r # s => r \notin Bad
  BY <1>0, LeastSet
<1>2. s \in SUBSET S /\ s \in SUBSET R /\ s \in SUBSET Q /\ f[s] # g[s]
  BY <1>0
<1>5. s \in SUBSET S
  BY <1>2
<1>6. s \in SUBSET R
  BY <1>2
<1>7. f[s] = IF s = {} THEN 0 ELSE v[First(s)] + f[s \ {First(s)}]
  BY <1>5, Zenon DEF Sums
<1>8. g[s] = IF s = {} THEN 0 ELSE v[First(s)] + g[s \ {First(s)}]
  BY <1>6, Zenon DEF Sums
<1>4. s # {} => f[s \ {First(s)}] = g[s \ {First(s)}]
  <2>1. ASSUME s # {} PROVE s \ {First(s)} \in SUBSET s /\ s \ {First(s)} # s
    BY <2>1, FirstIn
  <2>2. ASSUME s # {} PROVE s \ {First(s)} \notin Bad /\ s \ {First(s)} \in SUBSET Q
    BY <1>1, <1>2, <2>1, <2>2
  <2>. QED BY <1>0, <2>2
<1>. QED BY <1>2, <1>4, <1>7, <1>8

LEMMA SumsExist ==
  ASSUME NEW v, NEW S, IsFiniteSet(S)
  PROVE  \E f : Sums(v, S, f)
<1>. DEFINE Bad == {s \in SUBSET S : ~\E f : Sums(v, s, f)}
<1>. SUFFICES ASSUME Bad # {} PROVE FALSE
  <2>1. S \in SUBSET S
    OBVIOUS
  <2>. QED BY <2>1
<1>0. /\ Bad \in SUBSET SUBSET S
      /\ \A s : s \in Bad <=> s \in SUBSET S /\ ~\E f : Sums(v, s, f)
  OBVIOUS
<1>. HIDE DEF Bad
<1>1. PICK s \in Bad : \A r \in SUBSET s : r # s => r \notin Bad
  BY <1>0, LeastSet
<1>. DEFINE h(r) == CHOOSE f : Sums(v, r, f)
            below(r) == IF r = {} THEN 0 ELSE v[First(r)] + h(r \ {First(r)})[r \ {First(r)}]
            F == [r \in SUBSET s |-> below(r)]
<1>2. \A r \in SUBSET s : r # s => Sums(v, r, h(r))
  BY <1>0, <1>1
<1>. HIDE DEF h
<1>3. \A r \in SUBSET s : IsFiniteSet(r)
  BY <1>0, FS_Subset
<1>4. \A r \in SUBSET s : r # s => h(r)[r] = below(r)
  <2>. SUFFICES ASSUME NEW r \in SUBSET s, r # s PROVE h(r)[r] = below(r)
    OBVIOUS
  <2>1. h(r)[r] = IF r = {} THEN 0 ELSE v[First(r)] + h(r)[r \ {First(r)}]
    <3>1. Sums(v, r, h(r)) /\ r \in SUBSET r
      BY <1>2
    <3>. QED BY <3>1, SumsStep
  <2>. DEFINE q == r \ {First(r)}
  <2>2. ASSUME r # {} PROVE h(r)[q] = h(q)[q]
    <3>1. q \in SUBSET r /\ q # s /\ q \in SUBSET s
      BY <2>2, FirstIn
    <3>2. Sums(v, r, h(r)) /\ Sums(v, q, h(q)) /\ IsFiniteSet(q)
      BY <1>2, <1>3, <3>1
    <3>. HIDE DEF q
    <3>. QED BY <3>1, <3>2, SumsAgree
  <2>. QED BY <2>1, <2>2
<1>5. \A r \in SUBSET s : F[r] = IF r = {} THEN 0 ELSE v[First(r)] + F[r \ {First(r)}]
  <2>. SUFFICES ASSUME NEW r \in SUBSET s, r # {}
                PROVE  F[r \ {First(r)}] = h(r \ {First(r)})[r \ {First(r)}]
    OBVIOUS
  <2>. DEFINE q == r \ {First(r)}
  <2>1. q \in SUBSET s /\ q # s
    BY FirstIn
  <2>. HIDE DEF q
  <2>2. F[q] = h(q)[q]
    BY <1>4, <2>1
  <2>. QED BY <2>2 DEF q
<1>6. Sums(v, s, F)
  <2>1. F = [r \in SUBSET s |-> F[r]]
    OBVIOUS
  <2>. HIDE DEF F
  <2>2. [r \in SUBSET s |-> F[r]]
         = [r \in SUBSET s |-> IF r = {} THEN 0 ELSE v[First(r)] + F[r \ {First(r)}]]
    BY <1>5
  <2>. QED BY <2>1, <2>2, Zenon DEF Sums
<1>. QED BY <1>0, <1>6

\* When one summand grows by d and no other grows, so does the sum.
LEMMA SumsGrow ==
  ASSUME NEW S, IsFiniteSet(S), NEW v \in [S -> Nat], NEW w \in [S -> Nat],
         NEW f, NEW g, Sums(v, S, f), Sums(w, S, g), NEW t, NEW d \in Nat,
         t \in S => w[t] <= v[t] + d, \A u \in S : u # t => w[u] <= v[u]
  PROVE  f[S] \in Nat /\ g[S] \in Nat /\ g[S] <= f[S] + d
<1>. DEFINE Good(s) == f[s] \in Nat /\ g[s] \in Nat /\ g[s] <= f[s] + (IF t \in s THEN d ELSE 0)
            Bad == {s \in SUBSET S : ~Good(s)}
<1>1. Bad = {}
  <2>. SUFFICES ASSUME Bad # {} PROVE FALSE
    OBVIOUS
  <2>0. /\ Bad \in SUBSET SUBSET S
        /\ \A s : s \in Bad <=> s \in SUBSET S /\ ~Good(s)
    OBVIOUS
  <2>. HIDE DEF Bad
  <2>1. PICK s \in Bad : \A r \in SUBSET s : r # s => r \notin Bad
    BY <2>0, LeastSet
  <2>2. s \in SUBSET S /\ ~Good(s)
    BY <2>0
  <2>12. s \in SUBSET S
    BY <2>2
  <2>13. f[s] = IF s = {} THEN 0 ELSE v[First(s)] + f[s \ {First(s)}]
    BY <2>12, Zenon DEF Sums
  <2>14. g[s] = IF s = {} THEN 0 ELSE w[First(s)] + g[s \ {First(s)}]
    BY <2>12, Zenon DEF Sums
  <2>3. /\ f[s] = IF s = {} THEN 0 ELSE v[First(s)] + f[s \ {First(s)}]
        /\ g[s] = IF s = {} THEN 0 ELSE w[First(s)] + g[s \ {First(s)}]
    BY <2>13, <2>14
  <2>4. s # {}
    BY <2>2, <2>3
  <2>. DEFINE x == First(s)
              r == s \ {x}
  <2>5. x \in s /\ r \in SUBSET S /\ r \in SUBSET s /\ r # s
    BY <2>2, <2>4, FirstIn
  <2>6. Good(r)
    <3>1. r \notin Bad
      BY <2>1, <2>5
    <3>. QED BY <2>0, <2>5, <3>1
  <2>7. v[x] \in Nat /\ w[x] \in Nat /\ w[x] <= v[x] + (IF x = t THEN d ELSE 0)
    <3>1. x \in S
      BY <2>2, <2>5
    <3>. HIDE DEF x, r
    <3>2. v[x] \in Nat /\ w[x] \in Nat
      BY <3>1
    <3>. QED BY <3>1, <3>2
  <2>8. f[s] = v[x] + f[r] /\ g[s] = w[x] + g[r]
    BY <2>3, <2>4
  <2>9. t \in r <=> t \in s /\ t # x
    OBVIOUS
  <2>. HIDE DEF x, r
  <2>10. CASE t = x
    BY <2>2, <2>5, <2>6, <2>7, <2>8, <2>9, <2>10
  <2>11. CASE t # x
    BY <2>2, <2>5, <2>6, <2>7, <2>8, <2>9, <2>11
  <2>. QED BY <2>10, <2>11
<1>2. Good(S)
  BY <1>1
<1>. QED BY <1>2

\* A terminal's share of what is used, and all the shares.
Weight(t) == Reserved(t) + Len(tx.full[t])
Weights == [t \in Terminals |-> Weight(t)]

UsedIsSum == \E f : Sums(Weights, Terminals, f) /\ Used = f[Terminals]

LEMMA UsedSums == UsedIsSum
<1>. DEFINE w(x)  == Reserved(x) + Len(tx.full[x])
            F(f) == [s \in SUBSET Terminals |->
                       IF s = {} THEN 0 ELSE w(First(s)) + f[s \ {First(s)}]]
            H    == CHOOSE f : f = F(f)
<1>1. Used = H[Terminals]
  BY Zenon DEF Used, MapThenSumSet, MapThenFoldSet, First
<1>2. ASSUME NEW f PROVE f = F(f) <=> Sums(Weights, Terminals, f)
  <2>1. ASSUME NEW s \in SUBSET Terminals, s # {} PROVE w(First(s)) = Weights[First(s)]
    <3>1. First(s) \in Terminals
      BY <2>1, FirstIn
    <3>. QED BY <3>1 DEF Weights, Weight
  <2>. HIDE DEF w
  <2>. QED BY <2>1 DEF Sums
<1>. HIDE DEF F
<1>3. \E f : f = F(f)
  BY <1>2, SumsExist, FiniteAssumption
<1>4. H = F(H)
  BY <1>3, Zenon
<1>. QED BY <1>1, <1>2, <1>4, Zenon DEF UsedIsSum

LEMMA UsedSumsNext == UsedIsSum'
BY UsedSums, PTL

WeightsTyped ==
  TypeOK => Weights \in [Terminals -> Nat] /\ \A t \in Terminals : Weights[t] = Weight(t)

LEMMA WeightParts ==
  ASSUME TypeOK, NEW t \in Terminals
  PROVE  /\ Len(tx.full[t]) \in Nat /\ Len(bridge[t].cache) \in Nat /\ Len(bridge[t].full) \in Nat
         /\ ScreenSize \in Nat /\ Reserved(t) \in Nat /\ Weight(t) \in Nat
<1>1. tx.full[t] \in Seq(Nat)
  BY DEF TypeOK, Transaction
<1>2. bridge[t].cache \in Seq(Nat) /\ bridge[t].full \in Seq(Nat)
  BY TerminalParts
<1>3. ScreenSize \in Nat
  BY LimitAssumption
<1>4. Len(tx.full[t]) \in Nat /\ Len(bridge[t].cache) \in Nat /\ Len(bridge[t].full) \in Nat
  BY <1>1, <1>2, LenProperties
<1>5. Reserved(t) \in Nat
  <2>1. CASE bridge[t].mode = "detached"
    <3>1. Reserved(t) = Len(bridge[t].cache) + Len(bridge[t].full) + ScreenSize
      BY <2>1, Zenon DEF Reserved
    <3>. DEFINE c == Len(bridge[t].cache)
                f == Len(bridge[t].full)
    <3>2. c \in Nat /\ f \in Nat /\ Reserved(t) = c + f + ScreenSize
      BY <1>4, <3>1
    <3>. HIDE DEF c, f
    <3>. QED BY <1>3, <3>2
  <2>2. CASE bridge[t].mode # "detached"
    BY <1>4, <2>2 DEF Reserved
  <2>. QED BY <2>1, <2>2
<1>6. Weight(t) \in Nat
  BY <1>4, <1>5 DEF Weight
<1>. QED BY <1>3, <1>4, <1>5, <1>6

LEMMA WeightType == WeightsTyped
BY WeightParts DEF WeightsTyped, Weights

LEMMA WeightTypeNext == WeightsTyped'
BY WeightType, PTL

\* When what one terminal has reserved grows by at most d and that of no other grows, the
\* sum grows by at most d.
LEMMA UsedGrows ==
  ASSUME TypeOK, TypeOK', NEW t, NEW d \in Nat,
         t \in Terminals => Weight(t)' <= Weight(t) + d,
         \A u \in Terminals : u # t => Weight(u)' <= Weight(u)
  PROVE  Used \in Nat /\ Used' \in Nat /\ Used' <= Used + d
<1>1. Weights \in [Terminals -> Nat] /\ \A u \in Terminals : Weights[u] = Weight(u)
  BY WeightType DEF WeightsTyped
<1>2. Weights' \in [Terminals -> Nat] /\ \A u \in Terminals : Weights'[u] = Weight(u)'
  BY WeightTypeNext DEF WeightsTyped
<1>3. PICK f : Sums(Weights, Terminals, f) /\ Used = f[Terminals]
  BY UsedSums DEF UsedIsSum
<1>4. PICK g : Sums(Weights', Terminals, g) /\ Used' = g[Terminals]
  BY UsedSumsNext DEF UsedIsSum
<1>5. /\ t \in Terminals => Weights'[t] <= Weights[t] + d
      /\ \A u \in Terminals : u # t => Weights'[u] <= Weights[u]
  BY <1>1, <1>2
<1>6. f[Terminals] \in Nat /\ g[Terminals] \in Nat /\ g[Terminals] <= f[Terminals] + d
  <2>. DEFINE v == Weights
              w == Weights'
  <2>1. /\ v \in [Terminals -> Nat] /\ w \in [Terminals -> Nat]
        /\ Sums(v, Terminals, f) /\ Sums(w, Terminals, g)
        /\ t \in Terminals => w[t] <= v[t] + d
        /\ \A u \in Terminals : u # t => w[u] <= v[u]
    BY <1>1, <1>2, <1>3, <1>4, <1>5
  <2>. HIDE DEF v, w
  <2>. QED BY <2>1, SumsGrow, FiniteAssumption
<1>. QED BY <1>3, <1>4, <1>6

Lighter(t) == Weight(t)' <= Weight(t)

\* A sum of zeros is zero.
LEMMA SumsNothing ==
  ASSUME NEW S, IsFiniteSet(S), NEW v, \A u \in S : v[u] = 0, NEW f, Sums(v, S, f)
  PROVE  f[S] = 0
<1>. DEFINE Bad == {s \in SUBSET S : f[s] # 0}
<1>. SUFFICES ASSUME Bad # {} PROVE FALSE
  OBVIOUS
<1>1. /\ Bad \in SUBSET SUBSET S
      /\ \A s : s \in Bad <=> s \in SUBSET S /\ f[s] # 0
  OBVIOUS
<1>. HIDE DEF Bad
<1>2. PICK s \in Bad : \A r \in SUBSET s : r # s => r \notin Bad
  BY <1>1, LeastSet
<1>3. s \in SUBSET S
  BY <1>1
<1>4. f[s] = IF s = {} THEN 0 ELSE v[First(s)] + f[s \ {First(s)}]
  BY <1>3, Zenon DEF Sums
<1>5. s # {} /\ f[s] # 0
  BY <1>1, <1>4
<1>6. First(s) \in S /\ s \ {First(s)} \in SUBSET s /\ s \ {First(s)} # s
  BY <1>3, <1>5, FirstIn
<1>7. f[s \ {First(s)}] = 0
  <2>1. s \ {First(s)} \notin Bad /\ s \ {First(s)} \in SUBSET S
    BY <1>2, <1>3, <1>6
  <2>. QED BY <1>1, <2>1
<1>. QED BY <1>4, <1>5, <1>6, <1>7

LEMMA BudgetInit == Init => WithinBudget
<1>. SUFFICES ASSUME Init PROVE WithinBudget
  OBVIOUS
<1>1. \A t \in Terminals : bridge[t] = Attached(1) \/ bridge[t] = Dead
  BY DEF Init
<1>2. \A t \in Terminals : bridge[t].mode # "detached" /\ bridge[t].cache = <<>>
  <2>1. /\ Dead.mode = "dead" /\ Dead.cache = <<>>
        /\ Attached(1).mode = "attached" /\ Attached(1).cache = <<>>
    BY DEF Dead, Attached
  <2>. QED BY <1>1, <2>1
<1>3. \A t \in Terminals : tx.full[t] = <<>>
  BY DEF Init, NoTx
<1>4. \A t \in Terminals : Reserved(t) = Len(<<>>)
  BY <1>2, Zenon DEF Reserved
<1>5. \A t \in Terminals : Weights[t] = 0
  BY <1>3, <1>4, NoBytes DEF Weights, Weight
<1>6. PICK f : Sums(Weights, Terminals, f) /\ Used = f[Terminals]
  BY UsedSums DEF UsedIsSum
<1>7. Used = 0
  BY <1>5, <1>6, SumsNothing, FiniteAssumption
<1>. QED BY <1>7, LimitAssumption DEF WithinBudget

LEMMA UsedType == TypeOK => Used \in Nat
<1>. SUFFICES ASSUME TypeOK PROVE Used \in Nat
  OBVIOUS
<1>1. Weights \in [Terminals -> Nat]
  BY WeightType DEF WeightsTyped
<1>2. PICK f : Sums(Weights, Terminals, f) /\ Used = f[Terminals]
  BY UsedSums DEF UsedIsSum
<1>. DEFINE w == Weights
<1>3. /\ w \in [Terminals -> Nat] /\ Sums(w, Terminals, f) /\ 0 \in Nat
      /\ (0 \in Terminals => w[0] <= w[0] + 0)
      /\ \A u \in Terminals : u # 0 => w[u] <= w[u]
  BY <1>1, <1>2
<1>. HIDE DEF w
<1>4. f[Terminals] \in Nat
  BY <1>3, SumsGrow, FiniteAssumption
<1>. QED BY <1>2, <1>4

\* A step that adds to no share, and one that adds to a single share what still fits.
LEMMA NothingGrows ==
  ASSUME TypeOK, TypeOK', WithinBudget, \A u \in Terminals : Lighter(u)
  PROVE  WithinBudget'
<1>1. \A t : (t \in Terminals => Weight(t)' <= Weight(t) + 0)
  <2>1. ASSUME NEW t \in Terminals PROVE Weight(t)' <= Weight(t) + 0
    <3>1. Weight(t) \in Nat /\ Weight(t)' \in Nat
      BY WeightType, WeightTypeNext DEF WeightsTyped
    <3>. QED BY <3>1 DEF Lighter
  <2>. QED BY <2>1
<1>2. Used \in Nat /\ Used' \in Nat /\ Used' <= Used + 0
  <2>1. 0 \in Terminals => Weight(0)' <= Weight(0) + 0
    BY <1>1
  <2>2. \A u \in Terminals : u # 0 => Weight(u)' <= Weight(u)
    BY DEF Lighter
  <2>. QED BY <2>1, <2>2, UsedGrows
<1>. QED BY <1>2, LimitAssumption DEF WithinBudget

LEMMA OneGrows ==
  ASSUME TypeOK, TypeOK', NEW t \in Terminals, NEW d \in Nat, Used + d <= GlobalLimit,
         Weight(t)' <= Weight(t) + d, \A u \in Terminals : u # t => Lighter(u)
  PROVE  WithinBudget'
<1>1. Used \in Nat /\ Used' \in Nat /\ Used' <= Used + d
  BY UsedGrows DEF Lighter
<1>. QED BY <1>1, LimitAssumption DEF WithinBudget

\* A terminal that a step does not touch weighs what it did.
LEMMA Untouched ==
  ASSUME TypeOK, NEW u \in Terminals, bridge'[u] = bridge[u], tx'.full[u] = tx.full[u]
  PROVE  Lighter(u)
<1>1. Weight(u)' = Weight(u)
  BY Zenon DEF Weight, Reserved
<1>2. Weight(u) \in Nat
  BY WeightType DEF WeightsTyped
<1>. QED BY <1>1, <1>2 DEF Lighter

\* One that is given back weighs only its snapshot.
LEMMA GivenBack ==
  ASSUME TypeOK, NEW u \in Terminals, bridge'[u].mode # "detached", bridge'[u].cache = <<>>,
         tx'.full[u] = tx.full[u]
  PROVE  Lighter(u)
<1>. DEFINE s == Len(tx.full[u])
            r == Reserved(u)
<1>1. s \in Nat
  BY LenProperties DEF TypeOK, Transaction
<1>2. Reserved(u)' = 0
  BY NoBytes DEF Reserved
<1>3. r \in Nat
  BY WeightParts
<1>4. Weight(u) = r + s /\ Weight(u)' = 0 + s
  BY <1>2 DEF Weight
<1>. HIDE DEF s, r
<1>. QED BY <1>1, <1>3, <1>4 DEF Lighter

LEMMA SameCaches ==
  ASSUME TypeOK, NEW u \in Terminals, tx'.full[u] = tx.full[u], bridge'[u].mode = bridge[u].mode,
         bridge'[u].cache = bridge[u].cache, bridge'[u].full = bridge[u].full
  PROVE  Lighter(u)
<1>1. Weight(u)' = Weight(u)
  BY Zenon DEF Weight, Reserved
<1>2. Weight(u) \in Nat
  BY WeightParts
<1>. QED BY <1>1, <1>2 DEF Lighter

LEMMA SameWeights ==
  ASSUME TypeOK, TypeOK', WithinBudget, UNCHANGED <<bridge, tx>>
  PROVE  WithinBudget'
BY Untouched, NothingGrows

LEMMA GroupFreed ==
  ASSUME TypeOK, TypeOK', WithinBudget, UNCHANGED bridge, tx'.full = NoTx.full
  PROVE  WithinBudget'
<1>1. ASSUME NEW u \in Terminals PROVE Lighter(u)
  <2>. DEFINE s == Len(tx.full[u])
              r == Reserved(u)
  <2>1. s \in Nat /\ r \in Nat
    BY WeightParts
  <2>2. Reserved(u)' = r
    BY Zenon DEF Reserved
  <2>3. Len(tx'.full[u]) = 0
    BY NoBytes DEF NoTx
  <2>4. Weight(u) = r + s /\ Weight(u)' = r + 0
    BY <2>2, <2>3 DEF Weight
  <2>. HIDE DEF s, r
  <2>. QED BY <2>1, <2>4 DEF Lighter
<1>. QED BY <1>1, NothingGrows

LEMMA OneGivenBack ==
  ASSUME TypeOK, TypeOK', WithinBudget, NEW t \in Terminals, NEW b \in Bridge,
         b.mode # "detached", b.cache = <<>>,
         bridge' = [bridge EXCEPT ![t] = b], tx'.full = tx.full
  PROVE  WithinBudget'
<1>1. /\ bridge'[t] = b
      /\ \A u \in Terminals : u # t => bridge'[u] = bridge[u]
  BY DEF TypeOK
<1>2. \A u \in Terminals : Lighter(u)
  BY <1>1, Untouched, GivenBack
<1>. QED BY <1>2, NothingGrows

LEMMA DefaultBridges ==
  ASSUME NEW s \in Nat, NEW k \in Nat
  PROVE  /\ Dead \in Bridge /\ Dead.mode = "dead" /\ Dead.cache = <<>>
         /\ Attached(s) \in Bridge /\ Attached(s).mode = "attached" /\ Attached(s).cache = <<>>
         /\ Paused(s, k) \in Bridge /\ Paused(s, k).mode = "paused" /\ Paused(s, k).cache = <<>>
BY DeadType, AttachedType, PausedType DEF Dead, Attached, Paused

LEMMA FlushBudget ==
  ASSUME TypeOK, TypeOK', WithinBudget, NEW t \in Terminals, NEW extra, Flush(t, extra),
         tx'.full = tx.full
  PROVE  WithinBudget'
<1>1. bridge[t].sink \in Nat
  BY TerminalParts
<1>2. PICK b \in {Dead, Attached(bridge[t].sink)} : bridge' = [bridge EXCEPT ![t] = b]
  BY DEF Flush
<1>3. b \in Bridge /\ b.mode # "detached" /\ b.cache = <<>>
  BY <1>1, <1>2, DefaultBridges
<1>. QED BY <1>2, <1>3, OneGivenBack

\* What a bridge reserves, of its value.
Cost(b) ==
  IF b.mode = "detached" THEN Len(b.cache) + Len(b.full) + ScreenSize ELSE Len(b.cache)

\* A bridge reserves d more than before, and d more fits.
LEMMA BridgeGrows ==
  ASSUME TypeOK, TypeOK', NEW t \in Terminals, NEW b \in Bridge,
         bridge' = [bridge EXCEPT ![t] = b], tx'.full = tx.full,
         NEW d \in Nat, Used + d <= GlobalLimit,
         NEW c \in Nat, Cost(b) = c, c <= Reserved(t) + d
  PROVE  WithinBudget'
<1>1. /\ bridge'[t] = b
      /\ \A u \in Terminals : u # t => bridge'[u] = bridge[u]
  BY DEF TypeOK
<1>2. \A u \in Terminals : u # t => Lighter(u)
  BY <1>1, Untouched
<1>3. Weight(t)' <= Weight(t) + d
  <2>. DEFINE s == Len(tx.full[t])
              r == Reserved(t)
  <2>1. s \in Nat /\ r \in Nat
    BY WeightParts
  <2>2. Reserved(t)' = c
    <3>1. Reserved(t)' = Cost(bridge'[t])
      BY Zenon DEF Reserved, Cost
    <3>. QED BY <1>1, <3>1
  <2>3. Weight(t) = r + s /\ Weight(t)' = c + s
    BY <2>2 DEF Weight
  <2>4. c <= r + d
    OBVIOUS
  <2>. HIDE DEF s, r
  <2>. QED BY <2>1, <2>3, <2>4
<1>. QED BY <1>2, <1>3, OneGrows

LEMMA PausedBudget ==
  ASSUME TypeOK, TypeOK', WithinBudget, NEW t \in Terminals, NEW unit \in Nat,
         EmitPaused(t, unit)
  PROVE  WithinBudget'
<1>. DEFINE b == [bridge[t] EXCEPT !.cache = Append(@, unit)]
            n == Len(bridge[t].cache)
<1>1. CASE Fits(n, TerminalLimit)
  <2>1. bridge' = [bridge EXCEPT ![t] = b] /\ tx'.full = tx.full /\ bridge[t].mode = "paused"
    BY <1>1 DEF EmitPaused, TypeOK
  <2>2. b \in Bridge /\ b.mode = "paused" /\ b.cache = Append(bridge[t].cache, unit)
    <3>1. bridge[t] \in Bridge
      BY TerminalParts
    <3>2. b \in Bridge
      BY <3>1, AppendedCacheType
    <3>3. b.mode = bridge[t].mode /\ b.cache = Append(bridge[t].cache, unit)
      BY <3>1 DEF Bridge
    <3>. QED BY <2>1, <3>2, <3>3
  <2>3. Len(b.cache) = n + 1 /\ n \in Nat
    BY <2>2, TerminalParts, AppendProperties, LenProperties
  <2>4. Cost(b) = n + 1
    BY <2>2, <2>3, Zenon DEF Cost
  <2>5. Reserved(t) = n
    BY <2>1 DEF Reserved
  <2>6. Used + 1 <= GlobalLimit
    BY <1>1 DEF Fits
  <2>. HIDE DEF b, n
  <2>7. n + 1 \in Nat /\ n + 1 <= Reserved(t) + 1
    BY <2>3, <2>5
  <2>. QED BY <2>1, <2>2, <2>4, <2>6, <2>7, BridgeGrows
<1>2. CASE ~Fits(n, TerminalLimit)
  <2>1. Flush(t, <<unit>>) /\ tx'.full = tx.full
    BY <1>2 DEF EmitPaused, EmitOverflow, TypeOK, Transaction
  <2>. QED BY <2>1, FlushBudget
<1>. QED BY <1>1, <1>2

LEMMA DetachedBudget ==
  ASSUME TypeOK, TypeOK', WithinBudget, NEW t \in Terminals, NEW unit \in Nat,
         EmitDetached(t, unit)
  PROVE  WithinBudget'
<1>. DEFINE b    == bridge[t]
            n    == Len(b.cache)
            m    == Len(b.full)
            seen == [b EXCEPT !.parsed = Append(@, unit)]
            more == [seen EXCEPT !.cache = Append(@, unit)]
            fold == [seen EXCEPT !.full = <<>>, !.cache = <<>>, !.truncated = TRUE]
<1>1. n \in Nat /\ m \in Nat /\ ScreenSize \in Nat
  BY WeightParts
<1>2. b \in Bridge /\ seen \in Bridge /\ b.cache \in Seq(Nat)
  BY TerminalParts, AppendedCacheType
<1>3. /\ b.mode = "detached"
      /\ \/ /\ Fits(n + m + ScreenSize, TerminalLimit)
            /\ bridge' = [bridge EXCEPT ![t] = more] /\ tx' = tx
         \/ EmitOverflow(t, unit)
         \/ bridge' = [bridge EXCEPT ![t] = fold] /\ tx' = tx
  BY DEF EmitDetached
<1>4. Reserved(t) = n + m + ScreenSize
  BY <1>3, Zenon DEF Reserved
<1>5. CASE /\ Fits(n + m + ScreenSize, TerminalLimit)
           /\ bridge' = [bridge EXCEPT ![t] = more] /\ tx' = tx
  <2>1. /\ more \in Bridge /\ more.mode = "detached"
        /\ more.cache = Append(b.cache, unit) /\ more.full = b.full
    <3>1. seen.mode = b.mode /\ seen.cache = b.cache /\ seen.full = b.full
      BY <1>2 DEF Bridge
    <3>. HIDE DEF seen, b
    <3>2. more \in Bridge
      BY <1>2, AppendedCacheType
    <3>3. more.mode = seen.mode /\ more.cache = Append(seen.cache, unit) /\ more.full = seen.full
      BY <1>2 DEF Bridge
    <3>. QED BY <1>3, <3>1, <3>2, <3>3
  <2>2. Len(more.cache) = n + 1
    BY <1>2, <2>1, AppendProperties
  <2>3. Cost(more) = (n + 1) + m + ScreenSize
    BY <2>1, <2>2, Zenon DEF Cost
  <2>4. Used + 1 <= GlobalLimit
    BY <1>5 DEF Fits
  <2>. HIDE DEF b, n, m, seen, more
  <2>5. (n + 1) + m + ScreenSize \in Nat /\ (n + 1) + m + ScreenSize <= Reserved(t) + 1
    BY <1>1, <1>4
  <2>. QED BY <1>5, <2>1, <2>3, <2>4, <2>5, BridgeGrows
<1>6. CASE EmitOverflow(t, unit)
  <2>1. Flush(t, <<unit>>) /\ tx'.full = tx.full
    BY <1>6 DEF EmitOverflow, TypeOK, Transaction
  <2>. QED BY <2>1, FlushBudget
<1>7. CASE bridge' = [bridge EXCEPT ![t] = fold] /\ tx' = tx
  <2>1. fold \in Bridge /\ fold.mode = "detached" /\ fold.cache = <<>> /\ fold.full = <<>>
    <3>1. seen.mode = b.mode
      BY <1>2 DEF Bridge
    <3>. HIDE DEF seen, b
    <3>2. fold \in Bridge /\ fold.mode = seen.mode /\ fold.cache = <<>> /\ fold.full = <<>>
      BY <1>2, NoBytes DEF Bridge
    <3>. QED BY <1>3, <3>1, <3>2
  <2>2. Cost(fold) = 0 + 0 + ScreenSize
    BY <2>1, NoBytes, Zenon DEF Cost
  <2>3. Used \in Nat /\ Used <= GlobalLimit
    BY UsedType DEF WithinBudget
  <2>. HIDE DEF b, n, m, seen, fold
  <2>4. /\ 0 + 0 + ScreenSize \in Nat /\ 0 + 0 + ScreenSize <= Reserved(t) + 0
        /\ Used + 0 <= GlobalLimit
    BY <1>1, <1>4, <2>3, LimitAssumption
  <2>. QED BY <1>7, <2>1, <2>2, <2>4, BridgeGrows
<1>. QED BY <1>3, <1>5, <1>6, <1>7

LEMMA EmitBudget ==
  ASSUME TypeOK, TypeOK', WithinBudget, NEW t \in Terminals, TerminalStep(t)
  PROVE  WithinBudget'
<1>1. CASE EmitData(t)
  <2>1. emitted[t] + 1 \in Nat
    BY TerminalParts
  <2>2. \/ UNCHANGED <<bridge, tx>>
        \/ EmitPaused(t, emitted[t] + 1)
        \/ EmitDetached(t, emitted[t] + 1)
    BY <1>1 DEF EmitData, EmitAttached, EmitDead
  <2>. QED BY <2>1, <2>2, SameWeights, PausedBudget, DetachedBudget
<1>2. CASE EmitEnd(t)
  <2>1. tx' = tx
    BY <1>2 DEF EmitEnd
  <2>2. CASE UNCHANGED bridge
    BY <2>1, <2>2, SameWeights
  <2>3. CASE bridge' = [bridge EXCEPT ![t] = Dead]
    <3>1. Dead \in Bridge /\ Dead.mode # "detached" /\ Dead.cache = <<>>
      BY DefaultBridges
    <3>. HIDE DEF Dead
    <3>. QED BY <2>1, <2>3, <3>1, OneGivenBack
  <2>4. CASE bridge' = [bridge EXCEPT ![t].ended = TRUE]
    <3>1. /\ bridge'[t].mode = bridge[t].mode /\ bridge'[t].cache = bridge[t].cache
          /\ bridge'[t].full = bridge[t].full
      BY <2>4 DEF TypeOK, Bridge
    <3>2. \A u \in Terminals : u # t => bridge'[u] = bridge[u]
      BY <2>4 DEF TypeOK
    <3>3. \A u \in Terminals : Lighter(u)
      BY <2>1, <3>1, <3>2, SameCaches, Untouched
    <3>. QED BY <3>3, NothingGrows
  <2>. QED BY <1>2, <2>2, <2>3, <2>4 DEF EmitEnd
<1>3. CASE FinishConnection(t) \/ Connect(t)
  BY <1>3, SameWeights DEF FinishConnection, Connect
<1>4. CASE ConnectReturns(t)
  <2>1. tx' = tx /\ (UNCHANGED bridge \/ bridge' = [bridge EXCEPT ![t] = Attached(window.gen)])
    BY <1>4 DEF ConnectReturns
  <2>2. window.gen \in Nat
    BY DEF TypeOK
  <2>3. /\ Attached(window.gen) \in Bridge /\ Attached(window.gen).mode # "detached"
        /\ Attached(window.gen).cache = <<>>
    BY <2>2, DefaultBridges
  <2>. QED BY <2>1, <2>3, SameWeights, OneGivenBack
<1>. QED BY <1>1, <1>2, <1>3, <1>4 DEF TerminalStep

LEMMA UploadBudget ==
  ASSUME TypeOK, TypeOK', WithinBudget, NEW t \in Terminals, Upload(t)
  PROVE  WithinBudget'
<1>1. CASE SnapshotAccepted(t)
  <2>. DEFINE d == Len(Screen(t))
              s == Len(tx.full[t])
              r == Reserved(t)
  <2>1. /\ bridge' = bridge /\ tx'.full = [tx.full EXCEPT ![t] = Screen(t)]
        /\ Used + d <= GlobalLimit
    BY <1>1 DEF Upload, SnapshotAccepted, TypeOK, Transaction
  <2>2. tx'.full[t] = Screen(t) /\ \A u \in Terminals : u # t => tx'.full[u] = tx.full[u]
    BY <2>1 DEF TypeOK, Transaction
  <2>3. d \in Nat
    BY <2>2, LenProperties DEF TypeOK, Transaction
  <2>4. s \in Nat /\ r \in Nat
    BY WeightParts
  <2>5. Reserved(t)' = r
    BY <2>1, Zenon DEF Reserved
  <2>6. Weight(t) = r + s /\ Weight(t)' = r + d
    BY <2>2, <2>5 DEF Weight
  <2>7. \A u \in Terminals : u # t => Lighter(u)
    BY <2>1, <2>2, Untouched
  <2>. HIDE DEF d, s, r
  <2>8. Weight(t)' <= Weight(t) + d
    BY <2>3, <2>4, <2>6
  <2>. QED BY <2>1, <2>3, <2>7, <2>8, OneGrows
<1>2. CASE ~SnapshotAccepted(t)
  BY <1>2, SameWeights DEF Upload
<1>. QED BY <1>1, <1>2

LEMMA DetachBudget ==
  ASSUME TypeOK, TypeOK', WithinBudget, NEW t \in Terminals, Detach(t)
  PROVE  WithinBudget'
<1>1. CASE UNCHANGED <<bridge, tx>>
  BY <1>1, SameWeights
<1>2. CASE ~UNCHANGED <<bridge, tx>>
  <2>. DEFINE b    == bridge[t]
              full == tx.full[t]
              keep == Len(full) + Len(b.cache) + ScreenSize <= TerminalLimit
              next == [b EXCEPT !.mode = "detached", !.parsed = Replay(t),
                                !.full = IF keep THEN full ELSE <<>>, !.truncated = ~keep]
              s    == Len(full)
              n    == Len(b.cache)
              m    == Len(next.full)
  <2>1. /\ bridge' = [bridge EXCEPT ![t] = next] /\ tx' = [tx EXCEPT !.full[t] = <<>>]
        /\ b.mode = "paused" /\ Used + ScreenSize <= GlobalLimit
    BY <1>2 DEF Detach
  <2>2. bridge'[t] = next /\ \A u \in Terminals : u # t => bridge'[u] = bridge[u]
    BY <2>1 DEF TypeOK
  <2>3. tx'.full[t] = <<>> /\ \A u \in Terminals : u # t => tx'.full[u] = tx.full[u]
    BY <2>1 DEF TypeOK, Transaction
  <2>4. b \in Bridge
    BY TerminalParts
  <2>5. next.mode = "detached" /\ next.cache = b.cache /\ (next.full = full \/ next.full = <<>>)
    BY <2>4 DEF Bridge
  <2>. HIDE DEF next
  <2>6. s \in Nat /\ n \in Nat /\ ScreenSize \in Nat
    BY WeightParts
  <2>7. m \in Nat /\ m <= s
    BY <2>5, <2>6, NoBytes
  <2>8. Reserved(t) = n
    BY <2>1, Zenon DEF Reserved
  <2>9. Reserved(t)' = n + m + ScreenSize
    <3>1. bridge'[t].mode = "detached" /\ Len(bridge'[t].cache) = n /\ Len(bridge'[t].full) = m
      BY <2>2, <2>5
    <3>. HIDE DEF b, n, m
    <3>. QED BY <3>1, Zenon DEF Reserved
  <2>10. Weight(t) = n + s
    BY <2>8 DEF Weight
  <2>11. Weight(t)' = (n + m + ScreenSize) + 0
    BY <2>3, <2>9, NoBytes DEF Weight
  <2>12. \A u \in Terminals : u # t => Lighter(u)
    BY <2>2, <2>3, Untouched
  <2>. HIDE DEF b, full, keep, s, n, m
  <2>13. Weight(t)' <= Weight(t) + ScreenSize
    BY <2>6, <2>7, <2>10, <2>11
  <2>. QED BY <2>1, <2>6, <2>12, <2>13, OneGrows
<1>. QED BY <1>1, <1>2

LEMMA FinalizeBudget ==
  ASSUME TypeOK, TypeOK', WithinBudget, Finalize
  PROVE  WithinBudget'
<1>. SUFFICES ASSUME NEW u \in Terminals PROVE Lighter(u)
  BY NothingGrows
<1>. DEFINE s == Len(tx.full[u])
            n == Len(bridge[u].cache)
            m == Len(bridge[u].full)
            k == Len(bridge'[u].cache)
<1>1. s \in Nat /\ n \in Nat /\ m \in Nat /\ ScreenSize \in Nat
  BY WeightParts
<1>2. /\ bridge'[u].mode = bridge[u].mode /\ bridge'[u].full = bridge[u].full
      /\ (bridge'[u].cache = bridge[u].cache \/ bridge'[u].cache = <<>>)
  <2>1. bridge[u] \in Bridge
    BY TerminalParts
  <2>2. bridge'[u] = IF u \in tx.terminals
          THEN [bridge[u] EXCEPT !.sink = 0, !.cache = IF bridge[u].truncated THEN <<>> ELSE @]
          ELSE bridge[u]
    BY DEF Finalize
  <2>. QED BY <2>1, <2>2 DEF Bridge
<1>3. k \in Nat /\ k <= n
  BY <1>1, <1>2, NoBytes
<1>4. Len(tx'.full[u]) = 0
  BY NoBytes DEF Finalize, NoTx
<1>5. CASE bridge[u].mode = "detached"
  <2>1. Reserved(u) = n + m + ScreenSize
    BY <1>5, Zenon DEF Reserved
  <2>2. Reserved(u)' = k + m + ScreenSize
    BY <1>2, <1>5, Zenon DEF Reserved
  <2>3. Weight(u) = (n + m + ScreenSize) + s /\ Weight(u)' = (k + m + ScreenSize) + 0
    BY <1>4, <2>1, <2>2 DEF Weight
  <2>. HIDE DEF s, n, m, k
  <2>. QED BY <1>1, <1>3, <2>3 DEF Lighter
<1>6. CASE bridge[u].mode # "detached"
  <2>1. Reserved(u) = n
    BY <1>6, Zenon DEF Reserved
  <2>2. Reserved(u)' = k
    BY <1>2, <1>6, Zenon DEF Reserved
  <2>3. Weight(u) = n + s /\ Weight(u)' = k + 0
    BY <1>4, <2>1, <2>2 DEF Weight
  <2>. HIDE DEF s, n, m, k
  <2>. QED BY <1>1, <1>3, <2>3 DEF Lighter
<1>. QED BY <1>5, <1>6

LEMMA ServiceBudget ==
  ASSUME TypeOK, TypeOK', WithinBudget, ServiceStep
  PROVE  WithinBudget'
<1>1. CASE BeginDone \/ FinalizeFails
  BY <1>1, SameWeights DEF BeginDone, FinalizeFails
<1>2. CASE Finalize
  BY <1>2, FinalizeBudget
<1>3. CASE UndoDone
  <2>1. bridge' = bridge /\ tx' = NoTx
    BY <1>3 DEF UndoDone
  <2>. QED BY <2>1, GroupFreed
<1>4. ASSUME NEW t \in Terminals, Pause(t) PROVE WithinBudget'
  <2>. DEFINE b == Paused(bridge[t].sink, tx.token)
  <2>1. tx' = tx /\ (UNCHANGED bridge \/ bridge' = [bridge EXCEPT ![t] = b])
    BY <1>4 DEF Pause
  <2>2. bridge[t].sink \in Nat /\ tx.token \in Nat
    BY TerminalParts DEF TypeOK, Transaction
  <2>3. b \in Bridge /\ b.mode # "detached" /\ b.cache = <<>>
    BY <2>2, DefaultBridges
  <2>. HIDE DEF b
  <2>. QED BY <2>1, <2>3, SameWeights, OneGivenBack
<1>5. ASSUME NEW t \in Terminals, Detach(t) PROVE WithinBudget'
  BY <1>5, DetachBudget
<1>6. ASSUME NEW t \in Terminals, Undo(t) PROVE WithinBudget'
  <2>1. tx' = tx /\ (UNCHANGED bridge \/ Flush(t, <<>>))
    BY <1>6 DEF Undo
  <2>. QED BY <2>1, SameWeights, FlushBudget
<1>. QED BY <1>1, <1>2, <1>3, <1>4, <1>5, <1>6 DEF ServiceStep

LEMMA WindowBudget ==
  ASSUME TypeOK, TypeOK', WithinBudget, WindowStep
  PROVE  WithinBudget'
<1>1. CASE \/ Enter \/ CaptureFails \/ CaptureDone \/ Activate \/ BeginRefused \/ CommitRefused
           \/ Commit \/ AbortCall \/ FinishRestore
  BY <1>1, SameWeights DEF Enter, CaptureFails, CaptureDone, Activate, BeginRefused,
     CommitRefused, Commit, AbortCall, FinishRestore
<1>2. CASE Begin
  <2>1. bridge' = bridge /\ tx'.full = NoTx.full
    BY <1>2 DEF Begin, NoTx
  <2>. QED BY <2>1, GroupFreed
<1>3. ASSUME NEW t \in Terminals, Draw(t) \/ BreakChannel(t) \/ AttachFails(t)
      PROVE  WithinBudget'
  BY <1>3, SameWeights DEF Draw, ReceiveData, ReceiveBarrier, ReceiveEnd, BreakChannel,
     AttachFails
<1>4. ASSUME NEW t \in Terminals, Upload(t) PROVE WithinBudget'
  BY <1>4, UploadBudget
<1>5. ASSUME NEW t \in Terminals, Attach(t) PROVE WithinBudget'
  <2>1. window.gen \in Nat
    BY DEF TypeOK
  <2>2. PICK b \in {Dead, Attached(window.gen)} : bridge' = [bridge EXCEPT ![t] = b]
    BY <1>5 DEF Attach
  <2>3. b \in Bridge /\ b.mode # "detached" /\ b.cache = <<>>
    BY <2>1, <2>2, DefaultBridges
  <2>4. tx' = tx
    BY <1>5 DEF Attach
  <2>. QED BY <2>2, <2>3, <2>4, OneGivenBack
<1>. QED BY <1>1, <1>2, <1>3, <1>4, <1>5 DEF WindowStep

\* What the caches and the uploaded snapshots of a transaction have reserved together never
\* exceeds the global limit, however many terminals hold output back at once: every
\* reservation is checked against the sum, and no release, abort or fold adds to it
\* (CacheBudget and CachedBytes of lightweight.rs).
THEOREM BudgetKept == Spec => []WithinBudget
<1>1. TypeOK /\ TypeOK' /\ WithinBudget /\ [Next]_vars => WithinBudget'
  <2>. SUFFICES ASSUME TypeOK, TypeOK', WithinBudget, [Next]_vars PROVE WithinBudget'
    OBVIOUS
  <2>1. ASSUME NEW t \in Terminals, TerminalStep(t) PROVE WithinBudget'
    BY <2>1, EmitBudget
  <2>2. CASE WindowStep
    BY <2>2, WindowBudget
  <2>3. CASE ServiceStep
    BY <2>3, ServiceBudget
  <2>4. ASSUME NEW k \in Tokens, Expire(k) \/ TimerAbort(k) PROVE WithinBudget'
    BY <2>4, SameWeights DEF Expire, TimerAbort
  <2>5. CASE UNCHANGED vars
    BY <2>5, SameWeights DEF vars
  <2>. QED BY <2>1, <2>2, <2>3, <2>4, <2>5 DEF Next
<1>. QED BY <1>1, BudgetInit, TypeCorrect, PTL DEF Spec
=============================================================================
