---------------------------- MODULE KiwoomAccount ----------------------------
(***************************************************************************)
(* Manual trades of one stock (services/manual_trade_service.py) on the    *)
(* Kiwoom adapter and the clients it shares: the REST client with its      *)
(* access token, in memory and in a file, and the account client with its  *)
(* snapshot of a second and the lock around reading a new one.             *)
(*                                                                         *)
(* One event loop: a step is the code between two awaits, and a request is *)
(* sent and answered in separate steps.  What the broker answers is        *)
(* external; that a request waits its turn for the rate limit is part of   *)
(* the step that sends it.                                                 *)
(***************************************************************************)
EXTENDS Naturals, FiniteSets, FiniteSetsExt

CONSTANTS
  Callers,       \* who works with the account, each with one operation
  May,           \* the operations a caller may start
  MaxHeld,       \* bound: shares held at first
  RateRetries,   \* how often request repeats after an HTTP 429
  Attempts,      \* BROKER_BALANCE_RETRY_COUNT, at least 1
  Paper,         \* KIWOOM_ACCOUNT_TYPE = "VIRTUAL"
  FileWritable,  \* the token file can be written and removed
  MaxUpsets      \* bound: failed requests and revoked tokens

\* The operator's sale, sale in place of a pending one and cancellation of a purchase,
\* and the look at the holdings by a page or a job.
Operations == {"sell", "replace", "cancel", "look"}

ASSUME AccountAssumption ==
  /\ IsFiniteSet(Callers) /\ May \in [Callers -> SUBSET Operations]
  /\ {MaxHeld, RateRetries, MaxUpsets} \subseteq Nat
  /\ Attempts \in Nat \ {0}
  /\ Paper \in BOOLEAN /\ FileWritable \in BOOLEAN
  /\ Callers \cap {"oldSell", "oldBuy", "none"} = {}

VARIABLES
  op,        \* the operation of a caller
  stage,     \* which of its requests it is at
  at,        \* how far that request is, or how the operation ended
  tok,       \* the access token of the request
  refused,   \* the token with which the request was refused, 0 for none
  limited,   \* HTTP 429 answers to the request
  tries,     \* snapshot requests made; Attempts for the fallback of a mock account
  shares,    \* quantity of the holding the operation has found
  baseline,  \* _SubmittedOrderMeta.baseline_qty
  listed,    \* filled quantity in the list of pending orders, if the order is there
  recorded,  \* quantity that confirm_and_record records as sold
  cache,     \* the quantity in the account snapshot, {} without a usable one
  answer,    \* the quantity the broker has answered, {} without an answer under way
  lock,      \* who holds _account_snapshot_lock
  token,     \* _token, 0 for none
  file,      \* the token in kiwoom_token.json, 0 for none
  held,      \* shares the account holds at the broker
  left,      \* what is left of an order at the broker, 0 once it is over
  filled,    \* what of it is filled
  placed,    \* orders the broker has accepted from a caller
  issued,    \* access tokens issued
  dead,      \* the tokens up to this one are no longer honoured
  upsets     \* upsets so far

requestVars == <<tok, refused, limited>>
localVars   == <<tries, shares, baseline, listed, recorded>>
tokenVars   == <<token, file, issued, dead>>
brokerVars  == <<held, left, filled, placed>>
vars == <<op, stage, at, requestVars, localVars, cache, answer, lock, tokenVars,
          brokerVars, upsets>>

\* The orders: one of each side from before, and the sale of each caller.
Sales  == {"oldSell"} \cup Callers
Orders == Sales \cup {"oldBuy"}

\* How an operation ends: done, told to have failed, by an exception, or having looked.
Ends == {"done", "failed", "raised", "seen"}

\* The requests answered from the account snapshot, and from the list of pending orders.
Holdings == {"holding", "baseline", "sold"}
Lists    == {"lookup", "pending", "find", "status"}
Stages   == Holdings \cup Lists \cup {"order", "cancel"}

\* The stages after a sale is placed belong to confirm_and_record, which raises nothing.
Confirming(c) == placed[c] > 0 /\ stage[c] \in {"status", "sold", "find", "cancel"}

\* The order that a caller looks up or cancels.
Target(c) == IF Confirming(c) THEN c ELSE IF op[c] = "cancel" THEN "oldBuy" ELSE "oldSell"

\* The requests of an operation one after the other, up to the order or its end.
Path ==
  [sell    |-> [start |-> "holding", holding |-> "pending", pending |-> "baseline",
                baseline |-> "order"],
   replace |-> [start |-> "lookup", lookup |-> "holding", holding |-> "find",
                find |-> "cancel", cancel |-> "baseline", baseline |-> "order"],
   cancel  |-> [start |-> "lookup", lookup |-> "find", find |-> "cancel"],
   look    |-> [start |-> "holding"]]

Submodes == {"FULL", "SELL_ONLY", "READ_ONLY"}

\* decide_order_submission for the side of an operation.
Allowed(enabled, mode, side) ==
  enabled /\ mode # "READ_ONLY" /\ ~(mode = "SELL_ONLY" /\ side = "BUY")

-----------------------------------------------------------------------------
(* The end of a request or of an operation.                                  *)

NewRequest(c) ==
  /\ tok' = [tok EXCEPT ![c] = 0] /\ refused' = [refused EXCEPT ![c] = 0]
  /\ limited' = [limited EXCEPT ![c] = 0] /\ tries' = [tries EXCEPT ![c] = 0]

\* The operation goes on to its next request.
Go(c, next) ==
  /\ stage' = [stage EXCEPT ![c] = next]
  /\ at' = [at EXCEPT ![c] = IF next \in Holdings THEN "want" ELSE "send"]
  /\ NewRequest(c)

\* The lock once c no longer holds it.
Freed(c) == IF lock = c THEN "none" ELSE lock

\* Operation c is over, its locals are gone and the lock, had it one, is released.
End(c, outcome) ==
  /\ at' = [at EXCEPT ![c] = outcome] /\ stage' = [stage EXCEPT ![c] = "none"]
  /\ NewRequest(c)
  /\ shares' = [shares EXCEPT ![c] = 0] /\ baseline' = [baseline EXCEPT ![c] = 0]
  /\ listed' = [listed EXCEPT ![c] = {}]
  /\ lock' = Freed(c)

\* The operation has succeeded, with q shares recorded as sold; the snapshot is dropped.
Finish(c, q) ==
  /\ End(c, "done") /\ recorded' = [recorded EXCEPT ![c] = q] /\ cache' = {}

\* An exception ends the operation, or only the confirmation of its sale, after which
\* the operation has succeeded.
Raise(c) ==
  IF Confirming(c) THEN Finish(c, 0)
  ELSE End(c, "raised") /\ UNCHANGED <<recorded, cache>>

\* The operator is told that the operation has failed.
Fail(c) == End(c, "failed") /\ UNCHANGED <<recorded, cache>>

-----------------------------------------------------------------------------
Init ==
  /\ op = [c \in Callers |-> "none"] /\ stage = op /\ at = [c \in Callers |-> "idle"]
  /\ tok = [c \in Callers |-> 0] /\ refused = tok /\ limited = tok /\ tries = tok
  /\ shares = tok /\ baseline = tok /\ recorded = tok /\ placed = tok
  /\ listed = [c \in Callers |-> {}]
  /\ cache = {} /\ answer = listed /\ lock = "none" /\ token = 0 /\ issued = 1 /\ file = 1
  /\ dead = 0 /\ upsets = 0
  /\ held \in 1 .. MaxHeld
  /\ \E s, b \in {0, 1} :
       left = [o \in Orders |-> CASE o = "oldSell" -> s [] o = "oldBuy" -> b [] OTHER -> 0]
  /\ filled = [o \in Orders |-> 0]

\* The gates of an operation: orders may be submitted, and for a sale the regular
\* session is open.
Start(c) ==
  /\ at[c] = "idle"
  /\ \E o \in May[c], enabled, open \in BOOLEAN, mode \in Submodes :
       IF o = "look" \/ (Allowed(enabled, mode, "SELL") /\ (open \/ o = "cancel"))
       THEN op' = [op EXCEPT ![c] = o] /\ Go(c, Path[o].start)
            /\ UNCHANGED <<shares, baseline, listed, lock>>
       ELSE End(c, "failed") /\ UNCHANGED op
  /\ UNCHANGED <<recorded, cache, answer, tokenVars, brokerVars, upsets>>

-----------------------------------------------------------------------------
(* KiwoomRESTClient.request.                                                 *)

\* request, once the rate limit lets it pass: the token in memory, the one in the
\* file, or else a new one is asked for.
Send(c) ==
  /\ at[c] = "send"
  /\ LET known == IF token # 0 THEN token ELSE file IN
       /\ token' = known
       /\ tok' = [tok EXCEPT ![c] = known]
       /\ at' = [at EXCEPT ![c] = IF known # 0 THEN "sent" ELSE "issuing"]
  /\ UNCHANGED <<op, stage, refused, limited, localVars, cache, answer, lock, file, issued, dead,
                 brokerVars, upsets>>

\* The broker issues a token.
Issue(c) ==
  /\ at[c] = "issuing"
  /\ issued' = issued + 1
  /\ tok' = [tok EXCEPT ![c] = issued + 1] /\ at' = [at EXCEPT ![c] = "issued"]
  /\ UNCHANGED <<op, stage, refused, limited, localVars, cache, answer, lock, token, file, dead,
                 brokerVars, upsets>>

\* get_access_token keeps the token that _issue_token returns.
KeepToken(c) ==
  /\ at[c] = "issued"
  /\ token' = tok[c] /\ file' = IF FileWritable THEN tok[c] ELSE file
  /\ at' = [at EXCEPT ![c] = "sent"]
  /\ UNCHANGED <<op, stage, requestVars, localVars, cache, answer, lock, issued, dead, brokerVars,
                 upsets>>

Honoured(c) == tok[c] > dead

\* Variant: the token in the file is kept.
ForgetInMemory == token' = 0 /\ UNCHANGED file

\* _invalidate_cached_token.
Forget == token' = 0 /\ file' = IF FileWritable THEN 0 ELSE file

\* The request repeats itself from the start.
Again(c) ==
  /\ at' = [at EXCEPT ![c] = "send"] /\ tok' = [tok EXCEPT ![c] = 0]
  /\ UNCHANGED <<op, stage, localVars, cache, answer, lock, issued, dead, brokerVars>>

\* The broker refuses the token, and the request is made once more with another.
TokenRefused(c) ==
  /\ at[c] = "sent" /\ ~Honoured(c) /\ refused[c] = 0
  /\ Forget /\ refused' = [refused EXCEPT ![c] = tok[c]]
  /\ Again(c) /\ UNCHANGED <<limited, upsets>>

\* HTTP 429: the request is made again, up to RateRetries times.
TooMany(c) ==
  /\ at[c] = "sent" /\ limited[c] < RateRetries
  /\ upsets < MaxUpsets /\ upsets' = upsets + 1
  /\ limited' = [limited EXCEPT ![c] = @ + 1]
  /\ Again(c) /\ UNCHANGED <<refused, token, file>>

-----------------------------------------------------------------------------
(* What the broker does with an order and a cancellation.                    *)

\* The shares under pending sales, each with its order, and their number.
Pledged == UNION {{o} \X (1 .. left[o]) : o \in Sales}
Committed == Cardinality(Pledged)

\* The broker accepts the sale of caller c, if so many shares are not yet spoken for.
Sellable(c) == shares[c] <= held - Committed

Accept(c) ==
  /\ Sellable(c)
  /\ left' = [left EXCEPT ![c] = shares[c]] /\ placed' = [placed EXCEPT ![c] = @ + 1]
  /\ UNCHANGED <<held, filled>>

EndOrder(o) == left[o] > 0 /\ left' = [left EXCEPT ![o] = 0]
               /\ UNCHANGED <<held, filled, placed>>

\* What the request does at the broker: something only for an order or a cancellation.
Executed(c) ==
  CASE stage[c] = "order"  -> Accept(c)
    [] stage[c] = "cancel" -> EndOrder(Target(c))
    [] OTHER               -> UNCHANGED brokerVars

\* Variant: a request whose answer is lost is made again.
LostRepeats(c) ==
  /\ at[c] = "sent" /\ upsets < MaxUpsets /\ upsets' = upsets + 1
  /\ Honoured(c) /\ Executed(c)
  /\ at' = [at EXCEPT ![c] = "send"] /\ tok' = [tok EXCEPT ![c] = 0]
  /\ UNCHANGED <<op, stage, refused, limited, localVars, cache, answer, lock, tokenVars>>

\* The request or its answer is lost, or the broker answers with an HTTP error, be it
\* one 429 too many: httpx raises.
Lost(c) ==
  /\ at[c] \in {"sent", "issuing"} /\ upsets < MaxUpsets /\ upsets' = upsets + 1
  /\ \/ UNCHANGED brokerVars
     \/ at[c] = "sent" /\ Honoured(c) /\ Executed(c)
  /\ Raise(c) /\ UNCHANGED <<op, answer, tokenVars>>

-----------------------------------------------------------------------------
(* Answers.  An answer without success is one of the broker's own upsets, or *)
(* follows from the token or from the state of the order.                    *)

\* Filled shares as get_order_status infers them from a holding of v.
Inferred(c, v) ==
  IF baseline[c] > v THEN Min({baseline[c] - v, shares[c]}) ELSE 0

\* The operation goes on with a holding of v shares.
Sees(c, v) ==
  \/ /\ stage[c] = "holding"
     /\ IF v = 0 \/ op[c] = "look"
        THEN End(c, IF op[c] = "look" THEN "seen" ELSE "failed")
        ELSE Go(c, Path[op[c]].holding) /\ shares' = [shares EXCEPT ![c] = v]
             /\ UNCHANGED <<baseline, listed>> /\ lock' = Freed(c)
     /\ UNCHANGED recorded
  \/ /\ stage[c] = "baseline"
     /\ Go(c, "order") /\ baseline' = [baseline EXCEPT ![c] = v]
     /\ UNCHANGED <<shares, listed, recorded>> /\ lock' = Freed(c)
  \/ /\ stage[c] = "sold"
     /\ LET q == IF listed[c] # {} THEN CHOOSE n \in listed[c] : TRUE ELSE Inferred(c, v) IN
          IF q > 0 THEN End(c, "done") /\ recorded' = [recorded EXCEPT ![c] = q]
          ELSE Go(c, "find") /\ UNCHANGED <<shares, baseline, listed, recorded>>
               /\ lock' = Freed(c)

\* Variant: an account that could not be read holds nothing.
DeclinedUnchecked(c) ==
  IF stage[c] \in Holdings THEN Sees(c, 0) /\ UNCHANGED cache ELSE Raise(c)

\* What becomes of an operation whose request is answered without success.
Declined(c) ==
  IF stage[c] \in {"order", "cancel"}
  THEN IF Confirming(c) THEN Finish(c, 0) ELSE Fail(c)
  ELSE Raise(c)

\* The broker declines the request, with return_code 3 for a second bad token.
BrokerDeclines(c) ==
  /\ at[c] = "sent"
  /\ \/ ~Honoured(c) /\ refused[c] # 0 /\ UNCHANGED upsets
     \/ Honoured(c) /\ stage[c] = "order" /\ ~Sellable(c) /\ UNCHANGED upsets
     \/ Honoured(c) /\ stage[c] = "cancel" /\ left[Target(c)] = 0 /\ UNCHANGED upsets
     \/ Honoured(c) /\ upsets < MaxUpsets /\ upsets' = upsets + 1
  /\ Declined(c)
  /\ UNCHANGED <<op, answer, tokenVars, brokerVars>>

\* The list of pending orders arrives: of the order looked for, of the sales of the
\* stock, or of the order whose status is asked for.
ListAnswers(c) ==
  /\ at[c] = "sent" /\ Honoured(c) /\ stage[c] \in Lists
  /\ LET there == left[Target(c)] > 0 IN
       \/ /\ stage[c] = "status"
          /\ listed' = [listed EXCEPT ![c] = IF there THEN {filled[c]} ELSE {}]
          /\ Go(c, "sold") /\ UNCHANGED <<shares, baseline, recorded, cache, lock>>
       \/ /\ stage[c] = "find" /\ Confirming(c)
          /\ IF there THEN Go(c, "cancel") /\ UNCHANGED <<shares, baseline, listed, recorded,
                                                          cache, lock>>
             ELSE Finish(c, 0)
       \/ /\ stage[c] # "status" /\ ~Confirming(c)
          /\ IF IF stage[c] = "pending" THEN \A o \in Sales : left[o] = 0 ELSE there
             THEN Go(c, Path[op[c]][stage[c]])
                  /\ UNCHANGED <<shares, baseline, listed, recorded, cache, lock>>
             ELSE Fail(c)
  /\ UNCHANGED <<op, answer, tokenVars, brokerVars, upsets>>

\* The order is cancelled.
CancelAnswers(c) ==
  /\ at[c] = "sent" /\ Honoured(c) /\ stage[c] = "cancel"
  /\ EndOrder(Target(c))
  /\ IF Confirming(c) \/ op[c] = "cancel" THEN Finish(c, 0)
     ELSE Go(c, "baseline")
          /\ UNCHANGED <<shares, baseline, listed, recorded, cache, lock>>
  /\ UNCHANGED <<op, answer, tokenVars, upsets>>

\* The sale is accepted.
OrderAnswers(c) ==
  /\ at[c] = "sent" /\ Honoured(c) /\ stage[c] = "order"
  /\ Accept(c)
  /\ at' = [at EXCEPT ![c] = "waiting"] /\ NewRequest(c)
  /\ UNCHANGED <<op, stage, shares, baseline, listed, recorded, cache, answer, lock,
                 tokenVars, upsets>>

\* Three seconds later, when the snapshot of before has aged, confirm_and_record asks
\* for the order's status.
Waited(c) ==
  /\ at[c] = "waiting"
  /\ Go(c, "status") /\ cache' = {}
  /\ UNCHANGED <<op, shares, baseline, listed, recorded, answer, lock, tokenVars, brokerVars,
                 upsets>>

-----------------------------------------------------------------------------
(* KiwoomAccountClient: the snapshot of the account.                         *)

\* A snapshot of less than a second is served as it is.
Served(c) ==
  /\ at[c] = "want"
  /\ \E v \in cache : Sees(c, v)
  /\ cache' = IF at'[c] = "done" THEN {} ELSE cache
  /\ UNCHANGED <<op, answer, tokenVars, brokerVars, upsets>>

\* Otherwise the caller waits for the lock and reads a new one.
Acquire(c) ==
  /\ at[c] = "want" /\ cache = {} /\ lock = "none"
  /\ lock' = c /\ at' = [at EXCEPT ![c] = "send"]
  /\ UNCHANGED <<op, stage, requestVars, localVars, cache, answer, tokenVars, brokerVars,
                 upsets>>

\* The broker reads the account.
ReadAccount(c) ==
  /\ at[c] = "sent" /\ Honoured(c) /\ stage[c] \in Holdings
  /\ answer' = [answer EXCEPT ![c] = {held}] /\ at' = [at EXCEPT ![c] = "answered"]
  /\ UNCHANGED <<op, stage, requestVars, localVars, cache, lock, tokenVars, brokerVars,
                 upsets>>

\* Its answer arrives and becomes the snapshot.
SnapshotArrives(c) ==
  /\ at[c] = "answered"
  /\ answer' = [answer EXCEPT ![c] = {}]
  /\ \E v \in answer[c] : Sees(c, v)
  /\ cache' = IF at'[c] = "done" THEN {} ELSE answer[c]
  /\ UNCHANGED <<op, tokenVars, brokerVars, upsets>>

\* A broker that is late (RC9002) is asked again, up to Attempts times, and a mock
\* account that cannot be evaluated (RC9000) once for its cash.
SnapshotAgain(c) ==
  /\ at[c] = "sent" /\ Honoured(c) /\ stage[c] \in Holdings
  /\ upsets < MaxUpsets /\ upsets' = upsets + 1
  /\ \/ tries[c] + 1 < Attempts /\ tries' = [tries EXCEPT ![c] = @ + 1]
     \/ Paper /\ tries[c] < Attempts /\ tries' = [tries EXCEPT ![c] = Attempts]
  /\ at' = [at EXCEPT ![c] = "send"] /\ tok' = [tok EXCEPT ![c] = 0]
  /\ refused' = [refused EXCEPT ![c] = 0] /\ limited' = [limited EXCEPT ![c] = 0]
  /\ UNCHANGED <<op, stage, shares, baseline, listed, recorded, cache, lock, answer,
                 tokenVars, brokerVars>>

-----------------------------------------------------------------------------
(* The surroundings.                                                         *)

\* A second has passed since the snapshot.
SnapshotAges ==
  /\ cache # {} /\ cache' = {}
  /\ UNCHANGED <<op, stage, at, requestVars, localVars, lock, answer, tokenVars, brokerVars,
                 upsets>>

\* A share of an order is filled.
Fill(o) ==
  /\ left[o] > 0
  /\ left' = [left EXCEPT ![o] = @ - 1] /\ filled' = [filled EXCEPT ![o] = @ + 1]
  /\ held' = IF o \in Sales THEN held - 1 ELSE held + 1
  /\ UNCHANGED <<op, stage, at, requestVars, localVars, cache, lock, answer, tokenVars,
                 placed, upsets>>

\* The exchange ends an order.
ExchangeEnds(o) ==
  /\ EndOrder(o)
  /\ UNCHANGED <<op, stage, at, requestVars, localVars, cache, lock, answer, tokenVars,
                 upsets>>

\* The broker no longer honours the tokens it has issued.
Revoke ==
  /\ upsets < MaxUpsets /\ upsets' = upsets + 1
  /\ dead < issued /\ dead' = issued
  /\ UNCHANGED <<op, stage, at, requestVars, localVars, cache, lock, answer, token, file,
                 issued, brokerVars>>

Caller(c) ==
  \/ Send(c) \/ Issue(c) \/ KeepToken(c) \/ TokenRefused(c) \/ TooMany(c) \/ Lost(c)
  \/ BrokerDeclines(c) \/ ListAnswers(c) \/ CancelAnswers(c) \/ OrderAnswers(c)
  \/ Waited(c) \/ Served(c) \/ Acquire(c) \/ ReadAccount(c) \/ SnapshotArrives(c)
  \/ SnapshotAgain(c)

Next ==
  \/ \E c \in Callers : Start(c) \/ Caller(c)
  \/ \E o \in Orders : Fill(o) \/ ExchangeEnds(o)
  \/ SnapshotAges \/ Revoke

Spec == Init /\ [][Next]_vars

-----------------------------------------------------------------------------
(* Properties.                                                               *)

\* Type invariant of the operations, the clients and the account.
TypeOK ==
  /\ op \in [Callers -> Operations \cup {"none"}]
  /\ stage \in [Callers -> Stages \cup {"none"}]
  /\ at \in [Callers -> {"idle", "want", "send", "issuing", "issued", "sent", "answered",
                         "waiting"} \cup Ends]
  /\ tok \in [Callers -> 0 .. issued] /\ refused \in [Callers -> 0 .. dead]
  /\ limited \in [Callers -> 0 .. RateRetries] /\ tries \in [Callers -> 0 .. Attempts]
  /\ {shares, baseline, recorded} \subseteq [Callers -> Nat]
  /\ {listed, answer} \subseteq [Callers -> SUBSET Nat] /\ cache \subseteq Nat
  /\ lock \in Callers \cup {"none"}
  /\ issued \in Nat /\ {token, file, dead} \subseteq 0 .. issued
  /\ held \in Nat /\ {left, filled} \subseteq [Orders -> Nat] /\ placed \in [Callers -> Nat]
  /\ upsets \in 0 .. MaxUpsets

\* An operation sells at most once, although its requests are repeated for a refused
\* token, after an HTTP 429 and for a late snapshot, and answers are lost.
OrderedOnce == \A c \in Callers : placed[c] <= 1

\* A request that was refused for its token is never repeated with that token, whatever
\* the other callers load from the file, are issued and forget meanwhile.
RetryIsFresh == \A c \in Callers : at[c] = "sent" => tok[c] # refused[c]

\* As long as neither a purchase nor another operation's sale moves the holding, what
\* is recorded as sold of a sale is no more than the broker has sold of it: neither a
\* snapshot from before the last sale nor one that could not be read passes for a fill.
RecordedIsSold ==
  \A c \in Callers :
    (\A o \in Orders \ {c, "oldSell"} : filled[o] = 0) => recorded[c] <= filled[c]

\* Whoever holds the snapshot's lock is reading the account: no answer, exception or
\* repeated request leaves the lock taken, which would stop every later operation.
LockInUse ==
  lock # "none" => /\ stage[lock] \in Holdings
                   /\ at[lock] \in {"send", "issuing", "issued", "sent", "answered"}

=============================================================================
