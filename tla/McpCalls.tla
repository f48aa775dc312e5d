------------------------------ MODULE McpCalls ------------------------------
(***************************************************************************)
(* The KIS transport, trading/mcp_client.py: a call is POSTed to the MCP   *)
(* server and answered on a separate SSE stream, matched by message id.    *)
(* The stream may drop at any time, and is reopened by a background loop   *)
(* and also by any caller that finds no session.  A caller is a coroutine  *)
(* that makes one call; the ones in Orders call order-stock.  The server   *)
(* and the network are external.                                           *)
(***************************************************************************)
EXTENDS Integers, FiniteSets

CONSTANTS
  Orders,         \* callers that place an order
  Queries,        \* callers of any other tool
  Admins,         \* POST /mcp/reconnect requests
  MaxConcurrent,  \* _MAX_CONCURRENT_CALLS
  MaxReconnects,  \* _SSE_MAX_RECONNECT_ATTEMPTS
  MaxStreams      \* bound: SSE streams the server opens in one behaviour

Calls  == Orders \cup Queries
Actors == Calls \cup Admins

ASSUME McpAssumption ==
  /\ IsFiniteSet(Calls)
  /\ Calls \cap Admins = {}
  /\ MaxConcurrent \in Nat \ {0} /\ MaxReconnects \in Nat /\ MaxStreams \in Nat

VARIABLES
  pc,          \* where an actor stands
  attempt,     \* _retry of a call: 0, 1 or 2
  pending,     \* calls whose current message id is in _pending
  meta,        \* _pending_order_meta: <<order, attempt>>, one message id each
  result,      \* what the future of a call holds, "none" before it is set
  request,     \* a call's message: "none", "sent", or the answer on the stream
  via,         \* the stream whose session a sent message was posted to, else 0
  executed,    \* how often the server has executed the call of an order
  unconfirmed, \* _unconfirmed_orders
  spawned,     \* a recovery task has been created and has not started
  taken,       \* orders the recovery tasks are working on
  recorded,    \* orders a recovery has passed to confirm_and_record
  loop,        \* where _sse_loop stands
  session,     \* _session_id, as the number of its stream; 0 for None
  ready,       \* the event of the loop's first stream is set
  failures,    \* _reconnect_count
  streams      \* streams opened

callVars   == <<attempt, pending, meta, result>>
serverVars == <<request, via, executed>>
recoverVars == <<unconfirmed, spawned, taken, recorded>>
loopVars   == <<loop, session, ready, failures, streams>>
vars == <<pc, callVars, serverVars, recoverVars, loopVars>>

Steps     == {"idle", "lock", "closing", "opening", "handshake", "queued",
              "posting", "waiting", "backoff", "ok", "failed"}
LoopSteps == {"opening", "open", "asleep", "reopening", "greeting", "ended",
              "closing"}
Answers   == {"ok", "unreadable", "refused", "throttled"}

-----------------------------------------------------------------------------
(* is_connected, the semaphore and the pending futures.                      *)

\* The POST client exists from startup on, but for the steps of one reconnect.
Connected == session # 0

Connecting == {c \in Actors : pc[c] \in {"closing", "opening", "handshake"}}

InSemaphore == {c \in Calls : pc[c] \in {"posting", "waiting", "backoff"}}

\* Variant: every order whose message was ever tracked is kept.
LostOrdersTracked == {c \in Orders : \E k \in 0 .. 2 : <<c, k>> \in meta}

\* The pending orders a failing connection keeps for the recovery.
LostOrders == {c \in Orders \cap pending : <<c, attempt[c]>> \in meta}

\* _fail_all_pending, for a stream that is gone with the answers on it: no
\* future is left to wait for an answer that cannot come.
FailAllPending ==
  /\ unconfirmed' = unconfirmed \cup LostOrders
  /\ meta' = meta \ {<<c, attempt[c]>> : c \in pending}
  /\ result' = [c \in Calls |-> IF c \in pending THEN "lost" ELSE result[c]]
  /\ pending' = {}
  /\ request' = [c \in Calls |-> IF request[c] \in Answers THEN "none" ELSE request[c]]

Goto(c, step) == pc' = [pc EXCEPT ![c] = step]

\* The call returns: its future is gone, and with keep its order meta is not.
Return(c, step, keep) ==
  /\ Goto(c, step)
  /\ pending' = pending \ {c}
  /\ meta' = IF keep THEN meta ELSE meta \ {<<c, attempt[c]>>}
  /\ result' = [result EXCEPT ![c] = "none"]
  /\ UNCHANGED <<attempt, serverVars, recoverVars, loopVars>>

Init ==
  /\ pc = [c \in Actors |-> "idle"]
  /\ attempt = [c \in Calls |-> 0]
  /\ pending = {} /\ meta = {}
  /\ result = [c \in Calls |-> "none"]
  /\ request = [c \in Calls |-> "none"]
  /\ via = [c \in Calls |-> 0]
  /\ executed = [c \in Orders |-> 0]
  /\ unconfirmed = {} /\ spawned = FALSE /\ taken = {} /\ recorded = {}
  /\ loop = "opening" /\ session = 0 /\ ready = FALSE
  /\ failures = 0 /\ streams = 0

-----------------------------------------------------------------------------
(* ensure_connected.                                                         *)

\* call_tool: with a session the call goes on; without one it reconnects, by
\* force, for the clients of the lost session are still there.  The admin
\* request reconnects in any case.
Start(c) ==
  /\ pc[c] = "idle"
  /\ Goto(c, IF c \in Calls /\ Connected THEN "queued" ELSE "lock")
  /\ UNCHANGED <<callVars, serverVars, recoverVars, loopVars>>

\* Under _connect_lock: forced, so the connection is not looked at again;
\* disconnect cancels the loop and awaits it.
TakeConnectLock(c) ==
  /\ pc[c] = "lock" /\ Connecting = {}
  /\ Goto(c, "closing")
  /\ loop' = "closing"
  /\ UNCHANGED <<callVars, serverVars, recoverVars, session, ready, failures, streams>>

\* The rest of disconnect, and connect up to its first await.
Reconnect(c) ==
  /\ pc[c] = "closing"
  /\ Goto(c, "opening")
  /\ FailAllPending
  /\ loop' = "opening" /\ session' = 0 /\ ready' = FALSE /\ failures' = 0
  /\ UNCHANGED <<attempt, via, executed, spawned, taken, recorded, streams>>

\* ensure_connected answers: an admin has its answer, a call goes on or fails.
Connect(c, up) ==
  /\ Goto(c, IF up /\ c \in Calls THEN "queued" ELSE IF up THEN "ok" ELSE "failed")
  /\ UNCHANGED <<callVars, serverVars, recoverVars, loopVars>>

\* _start_sse waits ten seconds for the session of the loop's first stream.
AwaitSession(c) ==
  /\ pc[c] = "opening"
  /\ \/ /\ ready
        /\ Goto(c, "handshake")
        /\ UNCHANGED <<callVars, serverVars, recoverVars, loopVars>>
     \/ ~ready /\ Connect(c, FALSE)

\* _mcp_initialize answers, times out or raises.
Handshake(c) ==
  /\ pc[c] = "handshake"
  /\ Connect(c, Connected) \/ Connect(c, FALSE)

-----------------------------------------------------------------------------
(* _call_tool_inner.                                                         *)

\* The message ids whose order meta is recorded as they are posted.
Tracks(c) == c \in Orders

\* A new message id with its future; without a session the POST raises at
\* once.  A call waits for the semaphore first; one that retries holds it.
Post(c) ==
  /\ \/ pc[c] = "queued" /\ Cardinality(InSemaphore) < MaxConcurrent
     \/ pc[c] = "backoff"
  /\ IF Connected
     THEN /\ Goto(c, "posting")
          /\ pending' = pending \cup {c}
          /\ meta' = IF Tracks(c) THEN meta \cup {<<c, attempt[c]>>} ELSE meta
          /\ request' = [request EXCEPT ![c] = "sent"]
          /\ via' = [via EXCEPT ![c] = session]
          /\ UNCHANGED <<attempt, result, executed, recoverVars, loopVars>>
     ELSE Return(c, "failed", FALSE)

\* The POST is accepted, answered with another status, or raises.
PostReturns(c) ==
  /\ pc[c] = "posting"
  /\ \/ /\ Goto(c, "waiting")
        /\ UNCHANGED <<callVars, serverVars, recoverVars, loopVars>>
     \/ Return(c, "failed", TRUE)
     \/ Return(c, "failed", FALSE)

\* Variant: a connection that is lost is tried again like a busy server.
RetriedLost(c) == result[c] \in {"throttled", "lost"} /\ attempt[c] < 2

\* Variant: the number of retries is not bounded.
RetriedForever(c) == result[c] = "throttled"

\* _maybe_retry_rate_limit: only an answer that says the server did not take
\* the call for the calls per second is followed by another message.
Retried(c) == result[c] = "throttled" /\ attempt[c] < 2

\* The future is set: an answer that cannot be read leaves the order meta or
\* not, after where reading it stops.
Resume(c) ==
  /\ pc[c] = "waiting" /\ result[c] # "none"
  /\ \/ result[c] = "ok" /\ Return(c, "ok", FALSE)
     \/ result[c] = "unreadable" /\ \E keep \in BOOLEAN : Return(c, "failed", keep)
     \/ result[c] \in {"refused", "throttled", "lost"} /\ ~Retried(c)
          /\ Return(c, "failed", TRUE)
     \/ /\ Retried(c)
        /\ Goto(c, "backoff")
        /\ attempt' = [attempt EXCEPT ![c] = IF @ < 2 THEN @ + 1 ELSE @]
        /\ result' = [result EXCEPT ![c] = "none"]
        /\ UNCHANGED <<pending, meta, serverVars, recoverVars, loopVars>>

\* Thirty seconds without an answer.
TimesOut(c) ==
  /\ pc[c] = "waiting" /\ result[c] = "none"
  /\ Return(c, "failed", FALSE)

-----------------------------------------------------------------------------
(* The server and the stream.                                                *)

\* The server receives a message, at any time after it was posted, and executes
\* the call or answers why not; the answer is lost unless the stream of the
\* session it was posted to is still up.
Receive(c) ==
  /\ request[c] = "sent"
  /\ \E a \in Answers :
       /\ request' = [request EXCEPT ![c] = IF via[c] = session THEN a ELSE "none"]
       /\ executed' = IF c \in Orders /\ a \in {"ok", "unreadable"}
                      THEN [executed EXCEPT ![c] = @ + 1] ELSE executed
  /\ via' = [via EXCEPT ![c] = 0]
  /\ UNCHANGED <<pc, callVars, recoverVars, loopVars>>

\* _handle_sse_event: an answer nobody waits for any more is only logged.
Deliver(c) ==
  /\ request[c] \in Answers /\ loop # "closing"
  /\ request' = [request EXCEPT ![c] = "none"]
  /\ pending' = pending \ {c}
  /\ result' = IF c \in pending THEN [result EXCEPT ![c] = request[c]] ELSE result
  /\ UNCHANGED <<pc, attempt, meta, via, executed, recoverVars, loopVars>>

OpenStream == streams' = streams + 1 /\ session' = streams + 1

\* The endpoint event of the loop's first stream.
FirstStream ==
  /\ loop = "opening" /\ streams < MaxStreams
  /\ OpenStream
  /\ loop' = "open" /\ ready' = TRUE
  /\ UNCHANGED <<pc, callVars, serverVars, recoverVars, failures>>

\* A stream has ended, or reopening it failed: what is pending fails, and the
\* loop sleeps or, after too many failures, ends.
StreamLost ==
  /\ FailAllPending
  /\ session' = 0 /\ failures' = failures + 1
  /\ loop' = IF failures + 1 > MaxReconnects THEN "ended" ELSE "asleep"
  /\ UNCHANGED <<pc, attempt, via, executed, spawned, taken, recorded, ready, streams>>

Drop        == loop \in {"opening", "open"} /\ StreamLost
RejoinFails == loop \in {"reopening", "greeting"} /\ StreamLost

Wake ==
  /\ loop = "asleep" /\ loop' = "reopening"
  /\ UNCHANGED <<pc, callVars, serverVars, recoverVars, session, ready, failures, streams>>

\* The endpoint event of a later stream: there is a session again, and the
\* loop goes on with the handshake.
NextStream ==
  /\ loop = "reopening" /\ streams < MaxStreams
  /\ OpenStream
  /\ loop' = "greeting"
  /\ UNCHANGED <<pc, callVars, serverVars, recoverVars, ready, failures>>

\* The handshake is done, and orders left unconfirmed are to be recovered.
Rejoined ==
  /\ loop = "greeting" /\ loop' = "open" /\ failures' = 0
  /\ spawned' = (spawned \/ unconfirmed # {})
  /\ UNCHANGED <<pc, callVars, serverVars, unconfirmed, taken, recorded,
                 session, ready, streams>>

\* _recover_unconfirmed_orders takes the list ...
RecoverStarts ==
  /\ spawned /\ spawned' = FALSE
  /\ taken' = taken \cup unconfirmed /\ unconfirmed' = {}
  /\ UNCHANGED <<pc, callVars, serverVars, recorded, loopVars>>

\* ... and looks for each order, by its symbol, in the order list, which may
\* not answer; the ones it finds with a fill are recorded, all are dropped.
RecoverEnds ==
  /\ taken # {}
  /\ \E done \in (SUBSET taken) \ {{}} : \E found \in SUBSET done :
       /\ taken' = taken \ done
       /\ recorded' = recorded \cup found
  /\ UNCHANGED <<pc, callVars, serverVars, unconfirmed, spawned, loopVars>>

-----------------------------------------------------------------------------
Connects(c) == TakeConnectLock(c) \/ Reconnect(c) \/ AwaitSession(c) \/ Handshake(c)

Calling(c) == Post(c) \/ PostReturns(c) \/ Resume(c) \/ TimesOut(c)

Next ==
  \/ \E c \in Actors : Start(c) \/ Connects(c)
  \/ \E c \in Calls : Calling(c) \/ Receive(c) \/ Deliver(c)
  \/ FirstStream \/ Drop \/ Wake \/ NextStream \/ Rejoined \/ RejoinFails
  \/ RecoverStarts \/ RecoverEnds

Spec == Init /\ [][Next]_vars

\* Every await of a call ends: the waits for a session, the handshake, the POST
\* and the answer have timeouts, disconnect waits for a task it has cancelled,
\* and locks are handed on.  Nothing is assumed of the server or the network.
FairSpec ==
  /\ Spec
  /\ \A c \in Actors : WF_vars(Connects(c))
  /\ \A c \in Calls : WF_vars(Calling(c))

-----------------------------------------------------------------------------
(* Properties.                                                               *)

\* Type invariant of the calls, the stream and the recovery.
TypeOK ==
  /\ pc \in [Actors -> Steps]
  /\ attempt \in [Calls -> 0 .. 2]
  /\ pending \subseteq Calls
  /\ meta \subseteq Orders \X (0 .. 2)
  /\ result \in [Calls -> Answers \cup {"none", "lost"}]
  /\ request \in [Calls -> Answers \cup {"none", "sent"}]
  /\ via \in [Calls -> Nat]
  /\ executed \in [Orders -> Nat]
  /\ unconfirmed \subseteq Orders /\ taken \subseteq Orders /\ recorded \subseteq Orders
  /\ spawned \in BOOLEAN
  /\ loop \in LoopSteps
  /\ session \in Nat /\ ready \in BOOLEAN /\ failures \in Nat /\ streams \in Nat

\* However streams drop, calls are retried and answers arrive late, the broker
\* executes the order of one call at most once.
PlacedOnce == \A c \in Orders : executed[c] <= 1

\* The recovery only ever looks for orders whose caller was not told that they
\* were accepted: what the caller confirms is not recorded a second time.
RecoversUnanswered ==
  \A c \in unconfirmed \cup taken \cup recorded : pc[c] # "ok" /\ result[c] # "ok"

\* An order that waits for its answer is tracked under its present message id:
\* if the connection is lost now, the recovery will know of it.
WaitingTracked == \A c \in Orders \cap pending : <<c, attempt[c]>> \in meta

\* A caller that finds no session has it looked for once more under the lock: it
\* closes no connection that another caller has opened meanwhile.
OthersKept ==
  [][\A c \in Calls : pc[c] = "lock" /\ pc'[c] = "closing" => ~Connected]_vars

\* Every call returns, whatever the stream and the server do.
CallsReturn ==
  \A c \in Calls : (pc[c] # "idle") ~> (pc[c] \in {"ok", "failed"})

=============================================================================
