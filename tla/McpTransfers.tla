---------------------------- MODULE McpTransfers -----------------------------
(***************************************************************************)
(* The links through which MCP agents move files over HTTP: the tickets    *)
(* behind them (mcp_transfer/ticket.rs) and the handlers that use a ticket *)
(* (mcp_transfer/http.rs), with what ends them: the time of a ticket, a    *)
(* new token or the end of the server (mcp/http.rs).  A handler runs until *)
(* its next await; hyper drops it at an await when its client goes away.   *)
(***************************************************************************)
EXTENDS Naturals, FiniteSets

CONSTANTS Downloads, Uploads, \* tickets of the two kinds
          Handlers,           \* requests in progress
          MaxTickets,         \* MAX_TICKETS
          MaxActiveTransfers, \* MAX_ACTIVE_TRANSFERS
          None

Tickets == Downloads \cup Uploads

VARIABLES ticket,   \* "unused", "ready", "active", or "gone" from the store
          late,     \* tickets past their time
          revoked,  \* tickets whose token is cancelled
          handler,  \* step, ticket, permit and result of each handler; whether it is the task of a GET
          shutdown, \* the server is stopped
          stored    \* files stored through each ticket

vars == <<ticket, late, revoked, handler, shutdown, stored>>

Idle == [step |-> "idle", ticket |-> None, head |-> FALSE, permit |-> FALSE,
         task |-> FALSE, ok |-> FALSE]

Init ==
  /\ ticket = [t \in Tickets |-> "unused"] /\ late = {} /\ revoked = {} /\ shutdown = FALSE
  /\ handler = [h \in Handlers |-> Idle] /\ stored = [t \in Tickets |-> 0]

In(set) == {t \in Tickets : ticket[t] \in set}
Kept(h, step) == handler' = [handler EXCEPT ![h].step = step]

\* The tickets that prune_expired removes and cancels.
Pruned == {t \in In({"ready"}) : t \in late}
Swept(tk) == [t \in Tickets |-> IF t \in Pruned THEN "gone" ELSE tk[t]]

FreePermits == MaxActiveTransfers - Cardinality({h \in Handlers : handler[h].permit})
Cancelled(h) == shutdown \/ handler[h].ticket \in revoked
-----------------------------------------------------------------------------
\* The store.

Issue(t) ==
  /\ ticket[t] = "unused" /\ revoked' = revoked \cup Pruned
  /\ LET kept == Swept(ticket)
         full == Cardinality({u \in Tickets : kept[u] \in {"ready", "active"}}) >= MaxTickets
     IN ticket' = IF full THEN kept ELSE [kept EXCEPT ![t] = "ready"]
  /\ UNCHANGED <<late, handler, shutdown, stored>>

TimePasses ==
  /\ \E t \in In({"ready", "active"}) \ late : late' = late \cup {t}
  /\ UNCHANGED <<ticket, revoked, handler, shutdown, stored>>

\* Changed: the tokens are not cancelled.
ClearOnly ==
  /\ In({"ready", "active"}) # {} /\ UNCHANGED <<shutdown, revoked>>
  /\ ticket' = [t \in Tickets |-> IF ticket[t] = "unused" THEN "unused" ELSE "gone"]
  /\ UNCHANGED <<late, handler, stored>>

\* clear, for a new token, or after the shutdown of the server.
Clear ==
  /\ In({"ready", "active"}) # {} /\ shutdown' \in {shutdown, TRUE}
  /\ ticket' = [t \in Tickets |-> IF ticket[t] = "unused" THEN "unused" ELSE "gone"]
  /\ revoked' = revoked \cup In({"ready", "active"})
  /\ UNCHANGED <<late, handler, stored>>
-----------------------------------------------------------------------------
\* The handlers.

\* HEAD of a download: peek and a permit.
Head(h, t) ==
  /\ handler[h].step = "idle" /\ t \in In({"ready", "active"}) \ Pruned
  /\ ticket' = Swept(ticket) /\ revoked' = revoked \cup Pruned /\ FreePermits > 0
  /\ handler' = [handler EXCEPT ![h] = [Idle EXCEPT !.step = "authorize", !.ticket = t, !.head = TRUE, !.permit = TRUE]]
  /\ UNCHANGED <<late, shutdown, stored>>

\* peek of the page of an upload, or of a ticket that is not there.
Page ==
  /\ Pruned # {} /\ ticket' = Swept(ticket) /\ revoked' = revoked \cup Pruned
  /\ UNCHANGED <<late, handler, shutdown, stored>>

\* Changed: an active ticket begins again.
BeginAny(h, t) ==
  /\ handler[h].step = "idle" /\ t \in In({"ready", "active"}) \ Pruned
  /\ ticket' = [Swept(ticket) EXCEPT ![t] = "active"] /\ revoked' = revoked \cup Pruned
  /\ handler' = [handler EXCEPT ![h] = [Idle EXCEPT !.ticket = t,
       !.step = IF FreePermits > 0 THEN "authorize" ELSE "finish", !.permit = FreePermits > 0]]
  /\ UNCHANGED <<late, shutdown, stored>>

\* begin, and a permit or 429.
Begin(h, t) ==
  /\ handler[h].step = "idle" /\ t \in In({"ready"}) \ Pruned
  /\ ticket' = [Swept(ticket) EXCEPT ![t] = "active"] /\ revoked' = revoked \cup Pruned
  /\ handler' = [handler EXCEPT ![h] = [Idle EXCEPT !.ticket = t,
       !.step = IF FreePermits > 0 THEN "authorize" ELSE "finish", !.permit = FreePermits > 0]]
  /\ UNCHANGED <<late, shutdown, stored>>

Returns(h) == handler' = [handler EXCEPT ![h] = Idle]
Fails(h) == IF handler[h].head THEN Returns(h) ELSE Kept(h, "finish")

Authorize(h) ==
  /\ handler[h].step = "authorize" /\ (Kept(h, "connect") \/ Fails(h))
  /\ UNCHANGED <<ticket, late, revoked, shutdown, stored>>

Connect(h) ==
  /\ handler[h].step = "connect"
  /\ Kept(h, IF handler[h].ticket \in Uploads THEN "stream" ELSE "info") \/ Fails(h)
  /\ UNCHANGED <<ticket, late, revoked, shutdown, stored>>

\* remote_file_info and the range; a GET answers and streams in a task of its own.
Info(h) ==
  /\ handler[h].step = "info"
  /\ \/ ~handler[h].head /\ handler' = [handler EXCEPT ![h].step = "stream", ![h].task = TRUE]
     \/ Kept(h, "disconnect")
  /\ UNCHANGED <<ticket, late, revoked, shutdown, stored>>

\* The end of stream_remote_file or upload_remote_stream_exclusive.
Streamed(h, ok) ==
  /\ handler[h].step = "stream"
  /\ handler' = [handler EXCEPT ![h].step = "disconnect", ![h].ok = ok]
  /\ stored' = [stored EXCEPT ![handler[h].ticket] = @ + (IF ok /\ handler[h].ticket \in Uploads THEN 1 ELSE 0)]
  /\ UNCHANGED <<ticket, late, revoked, shutdown>>

Stop(h) == Cancelled(h) /\ Streamed(h, FALSE)

Disconnect(h) ==
  /\ handler[h].step = "disconnect" /\ IF handler[h].head THEN Returns(h) ELSE Kept(h, "finish")
  /\ UNCHANGED <<ticket, late, revoked, shutdown, stored>>

\* Changed: an upload is finished as a download is.
Reusable(h) == IF handler[h].ticket \in late THEN "gone" ELSE "ready"
Finished(h) ==
  IF handler[h].ticket \in late \/ (handler[h].ok /\ handler[h].ticket \in Uploads) THEN "gone" ELSE "ready"

\* finish_download or finish_upload, and the drop of the permit.
Finish(h) ==
  /\ handler[h].step = "finish" /\ Returns(h)
  /\ ticket' = IF ticket[handler[h].ticket] = "gone" THEN ticket
               ELSE [ticket EXCEPT ![handler[h].ticket] = Finished(h)]
  /\ UNCHANGED <<late, revoked, shutdown, stored>>

\* A handler whose client is gone; an SSH connection it opened stays open.
ClientGone(h) ==
  /\ handler[h].step # "idle" /\ ~handler[h].task /\ Returns(h)
  /\ UNCHANGED <<ticket, late, revoked, shutdown, stored>>

Next ==
  \/ \E t \in Tickets : Issue(t)
  \/ TimePasses \/ Clear \/ Page
  \/ \E h \in Handlers :
       \/ \E t \in Downloads : Head(h, t)
       \/ \E t \in Tickets : Begin(h, t)
       \/ Authorize(h) \/ Connect(h) \/ Info(h) \/ Stop(h) \/ Disconnect(h) \/ Finish(h) \/ ClientGone(h)
       \/ \E ok \in BOOLEAN : Streamed(h, ok)

\* Every await but those of the stream has a timeout; a stream ends at the
\* latest when its select sees the cancelled token.
Fairness ==
  \A h \in Handlers : /\ WF_vars(Authorize(h)) /\ WF_vars(Connect(h)) /\ WF_vars(Info(h))
                      /\ WF_vars(Stop(h)) /\ WF_vars(Disconnect(h)) /\ WF_vars(Finish(h))
-----------------------------------------------------------------------------
\* At most one upload succeeds through a link, whatever requests use it, and
\* whichever of them fail, are refused a permit or lose their client.
UploadOnce == \A t \in Uploads : stored[t] <= 1

\* No transfer outlives the token it was authorized with, or the server: what
\* still uses a link that was cleared comes to its end.
ClearedEnds ==
  \A h \in Handlers :
    (handler[h].step # "idle" /\ (shutdown \/ ticket[handler[h].ticket] = "gone")) ~> handler[h].step = "idle"

\* The page of an upload says that a failed upload can be retried while the
\* link is valid, the tool that a download can: only a request that still runs
\* keeps a link from being used.
Retryable == \A t \in Tickets : ticket[t] = "active" => \E h \in Handlers : handler[h].ticket = t /\ ~handler[h].head
=============================================================================
