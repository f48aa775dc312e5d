------------------------------ MODULE Realtime ------------------------------
(***************************************************************************)
(* From the broker's price stream to the agent's handlers.                 *)
(*                                                                         *)
(* The scheduler and the agent subscribe and unsubscribe stocks on one     *)
(* WebSocket; the monitor polls the holdings' prices when the stream is    *)
(* down or silent; the detector turns prices into events, at most one of a *)
(* kind per stock and minute; the bus hands the events to the agent one    *)
(* after the other.                                                        *)
(*                                                                         *)
(* A step is the code between two awaits; connecting and sending is one.   *)
(***************************************************************************)
EXTENDS Naturals, Sequences, FiniteSets

CONSTANTS
  Stocks,
  FirstHeld,  \* the stocks held at the start, with their levels set
  Limit,      \* subscriptions the broker allows in a session (41)
  MaxUpsets,  \* bound: how many of an update, a loss of the connection
              \* and a change of the phase happen, each at most once
  MaxQueue    \* bound: events the bus has waiting when a price comes in

none == "none"

\* No quotes; quotes but no automated orders; automated orders.
Phases  == {"closed", "quotes", "auto"}
Kinds   == {"market", "exit"}
Callers == {"scheduler", "agent"}

ASSUME RealtimeAssumption ==
  /\ IsFiniteSet(Stocks) /\ none \notin Stocks /\ FirstHeld \subseteq Stocks
  /\ Limit \in Nat /\ MaxUpsets \in Nat
  /\ MaxQueue \in Nat \ {0}

VARIABLES
  ws,      \* the connection as _get_ws sees it: none, open, closed
  live,    \* the stocks the broker sends on the open connection
  subs,    \* KISWebSocket._subscriptions
  prio,    \* StreamManager._priority_symbols
  op,      \* the subscription work of each caller
  polling, \* _polling_active, with the poll task
  silent,  \* no data came for 60 s
  phase,   \* the trading phase
  held,    \* the stocks that are held
  levels,  \* the stocks with a stop or a target
  danger,  \* the stocks whose price is beyond one of the levels they have
  dedup,   \* stocks whose exit event was published less than EVENT_DEDUP_SEC ago
  queue,   \* the bus's queue
  bus,     \* the event that is being handled: its kind and stock, and pc
  spent    \* what of MaxUpsets is used

streamVars == <<ws, live, subs, prio, op>>
monitorVars == <<polling, silent>>
marketVars == <<phase, held, levels, danger>>
busVars == <<dedup, queue, bus>>
vars == <<streamVars, monitorVars, marketVars, busVars, spent>>

NoOp == [rem |-> {}, add |-> {}, cur |-> none]
NoEvent == [kind |-> none, stock |-> none, pc |-> "idle"]

InDanger(s) == s \in danger

-----------------------------------------------------------------------------
(* Subscribing and unsubscribing.                                           *)

Working(c) == op[c] # NoOp

\* update_subscriptions: what to remove and to add is decided at once.
UpdateSubscriptions(new) ==
  /\ ~Working("scheduler") /\ "update" \notin spent /\ Cardinality(spent) < MaxUpsets
  /\ op' = [op EXCEPT !["scheduler"] = [NoOp EXCEPT !.rem = prio \ new, !.add = new \ prio]]
  /\ spent' = spent \cup {"update"}
  /\ UNCHANGED <<ws, live, subs, prio, monitorVars, marketVars, busVars>>

\* The manager forgets the stock before the adapter is asked.
BeginUnsubscribe(c, s) ==
  /\ op[c].cur = none /\ s \in op[c].rem
  /\ prio' = prio \ {s}
  /\ op' = IF s \in subs THEN [op EXCEPT ![c].cur = s]
                         ELSE [op EXCEPT ![c].rem = @ \ {s}]
  /\ UNCHANGED <<ws, live, subs, monitorVars, marketVars, busVars, spent>>

\* _get_ws opens a connection when there is none, on which the broker sends nothing.
Reached == ws' = "open"
LiveNow == IF ws = "open" THEN live ELSE {}

\* Mutation: a failed message leaves the subscription counted.
EndUnsubscribeSent(c) ==
  /\ op[c].cur # none /\ op[c].cur \in op[c].rem
  /\ op' = [op EXCEPT ![c].rem = @ \ {op[c].cur}, ![c].cur = none]
  /\ \/ Reached /\ live' = LiveNow \ {op[c].cur} /\ subs' = subs \ {op[c].cur}
     \/ UNCHANGED <<ws, live, subs>>
  /\ UNCHANGED <<prio, monitorVars, marketVars, busVars, spent>>

EndUnsubscribe(c) ==
  /\ op[c].cur # none /\ op[c].cur \in op[c].rem
  /\ op' = [op EXCEPT ![c].rem = @ \ {op[c].cur}, ![c].cur = none]
  /\ \/ Reached /\ live' = LiveNow \ {op[c].cur}
     \/ UNCHANGED <<ws, live>>
  /\ subs' = subs \ {op[c].cur}
  /\ UNCHANGED <<prio, monitorVars, marketVars, busVars, spent>>

\* Nothing more is added once the limit is reached.
BeginSubscribe(c, s) ==
  /\ op[c].cur = none /\ op[c].rem = {} /\ s \in op[c].add
  /\ CASE Cardinality(subs) >= Limit ->
            op' = [op EXCEPT ![c].add = {}] /\ UNCHANGED prio
       [] Cardinality(subs) < Limit /\ s \in subs ->
            op' = [op EXCEPT ![c].add = @ \ {s}] /\ prio' = prio \cup {s}
       [] OTHER -> op' = [op EXCEPT ![c].cur = s] /\ UNCHANGED prio
  /\ UNCHANGED <<ws, live, subs, monitorVars, marketVars, busVars, spent>>

\* The message is sent, on a new connection when the old one is closed, or fails.
EndSubscribe(c) ==
  /\ op[c].cur # none /\ op[c].cur \in op[c].add
  /\ op' = [op EXCEPT ![c].add = @ \ {op[c].cur}, ![c].cur = none]
  /\ \/ /\ Reached
        /\ live' = LiveNow \cup {op[c].cur}
        /\ subs' = subs \cup {op[c].cur}
        /\ prio' = prio \cup {op[c].cur}
     \/ UNCHANGED <<ws, live, subs, prio>>
  /\ UNCHANGED <<monitorVars, marketVars, busVars, spent>>

\* The connection is lost.  The receive loop notices and waits for the next
\* connection; it opens none itself, and _subscriptions stays what it is.
Drop ==
  /\ ws = "open" /\ "drop" \notin spent /\ Cardinality(spent) < MaxUpsets
  /\ ws' = "closed" /\ live' = {}
  /\ spent' = spent \cup {"drop"}
  /\ UNCHANGED <<subs, prio, op, monitorVars, marketVars, busVars>>

-----------------------------------------------------------------------------
(* The monitor.                                                             *)

GoSilent ==
  /\ ~silent /\ silent' = TRUE
  /\ UNCHANGED <<streamVars, polling, marketVars, busVars, spent>>

\* _ws_health_loop, every 30 s.
HealthCheck ==
  /\ \/ phase = "closed" /\ polling /\ polling' = FALSE
     \/ phase # "closed" /\ (ws # "open" \/ silent) /\ ~polling /\ polling' = TRUE
  /\ UNCHANGED <<streamVars, silent, marketVars, busVars, spent>>

ChangePhase ==
  /\ "phase" \notin spent /\ Cardinality(spent) < MaxUpsets
  /\ phase' \in Phases \ {phase}
  /\ spent' = spent \cup {"phase"}
  /\ UNCHANGED <<streamVars, monitorVars, held, levels, danger, busVars>>

-----------------------------------------------------------------------------
(* The detector.                                                            *)

Event(k, s) == [kind |-> k, stock |-> s]

\* The events one price gives: a spike, surge or drop first, the level after.
\* Whether the former comes, with its own minute of silence, is left open.
Events(s, moved) ==
  (IF moved THEN <<Event("market", s)>> ELSE <<>>)
  \o (IF InDanger(s) /\ s \notin dedup THEN <<Event("exit", s)>> ELSE <<>>)

\* on_price_update: no events out of the automated session.
Detect(s) ==
  /\ Len(queue) < MaxQueue
  /\ IF phase = "auto"
       THEN \E moved \in BOOLEAN :
              /\ queue' = queue \o Events(s, moved)
              /\ dedup' = IF InDanger(s) THEN dedup \cup {s} ELSE dedup
       ELSE UNCHANGED <<queue, dedup>>

\* _handle_message finds a price of the stock in what the broker has sent.
Streamed(s) == ws = "open" /\ s \in live

\* A price from the stream: the polling ends.
Tick(s) ==
  /\ Streamed(s)
  /\ silent' = FALSE /\ polling' = FALSE
  /\ Detect(s)
  /\ UNCHANGED <<streamVars, marketVars, bus, spent>>

\* A price from _poll_holdings_prices.
PolledPrice(s) ==
  /\ polling /\ s \in held
  /\ Detect(s)
  /\ UNCHANGED <<streamVars, monitorVars, marketVars, bus, spent>>

\* Mutation: an event that is suppressed renews the minute of silence.
DedupEndsUnseen(s) ==
  /\ s \in dedup /\ ~(InDanger(s) /\ (polling \/ s \in live))
  /\ dedup' = dedup \ {s}
  /\ UNCHANGED <<streamVars, monitorVars, marketVars, queue, bus, spent>>

DedupEnds(s) ==
  /\ s \in dedup
  /\ dedup' = dedup \ {s}
  /\ UNCHANGED <<streamVars, monitorVars, marketVars, queue, bus, spent>>

\* The price moves across a level, or back.
Move(s) ==
  /\ s \in levels
  /\ danger' = IF s \in danger THEN danger \ {s} ELSE danger \cup {s}
  /\ UNCHANGED <<streamVars, monitorVars, phase, held, levels, busVars, spent>>

-----------------------------------------------------------------------------
(* The bus and the agent's handlers: one event at a time.                   *)

Dispatch ==
  /\ bus.pc = "idle" /\ queue # <<>>
  /\ queue' = Tail(queue)
  /\ bus' = IF phase = "closed" THEN NoEvent
            ELSE [kind |-> Head(queue).kind, stock |-> Head(queue).stock, pc |-> "work"]
  /\ UNCHANGED <<streamVars, monitorVars, marketVars, dedup, spent>>

\* _on_market_event: the analysis buys the stock, sets its levels and
\* subscribes it, or ends without an order.
AnalyseEnds ==
  /\ bus.pc = "work" /\ bus.kind = "market"
  /\ \/ /\ held' = held \cup {bus.stock} /\ levels' = levels \cup {bus.stock}
        /\ op' = [op EXCEPT !["agent"] = [NoOp EXCEPT !.add = {bus.stock}]]
        /\ bus' = [bus EXCEPT !.pc = "subscribe"]
     \/ bus' = NoEvent /\ UNCHANGED <<held, levels, op>>
  /\ UNCHANGED <<ws, live, subs, prio, monitorVars, phase, danger, dedup, queue, spent>>

SubscribeEnds ==
  /\ bus.pc = "subscribe" /\ ~Working("agent")
  /\ bus' = NoEvent
  /\ UNCHANGED <<streamVars, monitorVars, marketVars, dedup, queue, spent>>

\* _on_stop_loss, _on_take_profit: sold and the levels removed, or not sold.
ExitEnds ==
  /\ bus.pc = "work" /\ bus.kind = "exit"
  /\ \/ held' = held \ {bus.stock} /\ levels' = levels \ {bus.stock}
     \/ UNCHANGED <<held, levels>>
  /\ danger' = danger \cap levels'
  /\ bus' = NoEvent
  /\ UNCHANGED <<streamVars, monitorVars, phase, dedup, queue, spent>>

-----------------------------------------------------------------------------
Init ==
  /\ ws = none /\ live = {} /\ subs = {} /\ prio = {}
  /\ op = [c \in Callers |-> NoOp]
  /\ polling = FALSE /\ silent = FALSE
  /\ phase = "auto"
  /\ held = FirstHeld /\ levels = FirstHeld /\ danger = {}
  /\ dedup = {} /\ queue = <<>> /\ bus = NoEvent
  /\ spent = {}

OpSteps(c) ==
  \/ \E s \in Stocks : BeginUnsubscribe(c, s) \/ BeginSubscribe(c, s)
  \/ EndUnsubscribe(c) \/ EndSubscribe(c)
BusSteps == Dispatch \/ AnalyseEnds \/ SubscribeEnds \/ ExitEnds

Next ==
  \/ \E new \in SUBSET Stocks : UpdateSubscriptions(new)
  \/ \E c \in Callers : OpSteps(c)
  \/ Drop \/ GoSilent \/ HealthCheck \/ ChangePhase
  \/ \E s \in Stocks : Tick(s) \/ PolledPrice(s) \/ DedupEnds(s) \/ Move(s)
  \/ BusSteps

Spec == Init /\ [][Next]_vars

\* The loops run, calls end, minutes pass; a stream that is subscribed and a
\* poll that is on give prices of every stock again and again.
FairSpec ==
  /\ Spec
  /\ \A c \in Callers : WF_vars(OpSteps(c))
  /\ WF_vars(HealthCheck) /\ WF_vars(BusSteps)
  /\ \A s \in Stocks : SF_vars(Tick(s)) /\ SF_vars(PolledPrice(s)) /\ WF_vars(DedupEnds(s))

-----------------------------------------------------------------------------
\* Every variable has its type.
TypeOK ==
  /\ ws \in {none, "open", "closed"} /\ live \subseteq Stocks
  /\ subs \subseteq Stocks /\ prio \subseteq Stocks
  /\ op \in [Callers -> [rem : SUBSET Stocks, add : SUBSET Stocks, cur : Stocks \cup {none}]]
  /\ polling \in BOOLEAN /\ silent \in BOOLEAN /\ phase \in Phases
  /\ held \subseteq Stocks /\ levels \subseteq Stocks /\ danger \subseteq levels
  /\ dedup \subseteq Stocks
  /\ queue \in Seq([kind : Kinds, stock : Stocks]) /\ Len(queue) <= MaxQueue + 1
  /\ bus \in [kind : Kinds, stock : Stocks, pc : {"work", "subscribe"}] \cup {NoEvent}
  /\ spent \subseteq {"update", "drop", "phase"}

\* A subscription that counts against the limit is known to the manager, or is
\* just being removed: whatever the scheduler and the agent do at once, none is
\* left that no later update would release (_priority_symbols, _subscriptions).
NothingForgotten ==
  subs \subseteq prio \cup {op[c].cur : c \in Callers}

\* The subscriptions are sound: the sets of the manager, the stream, the bus and
\* the levels keep their types, and no subscription is left that nobody would release.
SubscriptionsSound == TypeOK /\ NothingForgotten

\* A holding is watched when its price comes from the stream or from the poll.
Watched(s) == polling \/ Streamed(s)

\* A stock that stays beyond its stop while it is watched is handled again and
\* again until it is sold: neither the minute of silence after an event, nor a
\* failed sale, nor an analysis on the bus makes the stop get lost.
DangerIsAnswered ==
  \A s \in Stocks :
    <>[](phase = "auto" /\ InDanger(s) /\ s \in held /\ Watched(s))
      => []<>(bus.pc = "work" /\ bus.kind = "exit" /\ bus.stock = s)

\* When the stream is down in trading hours, the poll takes over, unless the
\* stream comes back or trading ends first (_ws_health_loop).
OutageIsBridged ==
  ws # "open" /\ phase # "closed" ~> polling \/ ws = "open" \/ phase = "closed"

\* A holding that is subscribed is watched again after every loss of the
\* connection (StreamManager: reconnects by itself and restores subscriptions).
HeldAreWatched ==
  \A s \in Stocks :
    s \in held \cap prio /\ phase = "auto" ~> Watched(s) \/ s \notin held \cap prio \/ phase # "auto"

\* The broker's limit is kept while two callers subscribe at once.
LimitKept == Cardinality(subs) <= Limit

\* What the manager believes subscribed is subscribed, when nobody works on it.
PriorityIsSubscribed == (\A c \in Callers : ~Working(c)) => prio \subseteq subs
=============================================================================
