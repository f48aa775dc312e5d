---------------------------- MODULE NewsPipeline ----------------------------
(***************************************************************************)
(* How news reaches the database, the translation and the agent.           *)
(*                                                                         *)
(* Polls (the interval jobs, the initial task, the event-triggered task)   *)
(* take a lock one after the other, fetch all sources, translate, store    *)
(* and publish.  An operator's fetch stores through another session, and   *)
(* the translation backfill rewrites stored rows through a third.  Each    *)
(* writer's session takes SQLite's write lock with its first flush and     *)
(* keeps it until it commits or rolls back.                                *)
(*                                                                         *)
(* A step is the code between two awaits.                                  *)
(***************************************************************************)
EXTENDS Naturals, Sequences, FiniteSets, SequencesExt

CONSTANTS
  Sources,     \* the feeds
  Items,       \* the articles, numbered by their publication
  SourceOf,    \* the feed of an article
  Foreign,     \* the articles that are not Korean
  Symbols,     \* stocks
  Own,         \* the symbols the feed gives with an article
  Native,      \* the stocks its own text names
  Translated,  \* the stocks its translation names
  Polls,       \* polls that may be under way at once
  Fills,       \* runs of the backfill that may be under way at once
  Threshold,   \* failures in a row after which a source rests
  BatchSize,   \* rows one backfill takes
  MaxPolls,    \* bound: polls started
  ManualSources, \* the feeds an operator fetches by hand
  MaxManual,   \* bound: manual fetches started
  MaxChanges   \* bound: changes of the settings, stops and crashes together

manual == "manual"
none   == "none"
Ingesters == Polls \cup {manual}

ASSUME NewsAssumption ==
  /\ Items \subseteq Nat \ {0} /\ IsFiniteSet(Items) /\ Foreign \subseteq Items
  /\ ManualSources \subseteq Sources
  /\ SourceOf \in [Items -> Sources]
  /\ \A f \in {Own, Native, Translated} : f \in [Items -> SUBSET Symbols]
  /\ manual \notin Polls /\ none \notin Ingesters \cup Fills
  /\ Ingesters \cap Fills = {}
  /\ Threshold \in Nat \ {0} /\ BatchSize \in Nat \ {0}
  /\ MaxPolls \in Nat /\ MaxManual \in Nat /\ MaxChanges \in Nat

VARIABLES
  rows,      \* committed news_items: translation status, symbols, who stored it
  writer,    \* who holds SQLite's write lock
  task,      \* the state of each ingester
  fill,      \* the state of each backfill run
  pollLock,  \* the poll that holds _news_poll_lock
  fails,     \* consecutive_failures of a source
  recent,    \* the source's last error is within the cooldown period
  queue,     \* NEW_NEWS_ITEM events the bus has not handled
  published, \* history: the articles that were ever published
  enabled,   \* NEWS_POLL_ENABLED
  llm,       \* NEWS_LLM_ENABLED
  spent      \* what of the bounds is used

sourceVars == <<fails, recent>>
eventVars  == <<queue, published>>
confVars   == <<enabled, llm, spent>>
vars == <<rows, writer, task, fill, pollLock, sourceVars, eventVars, confVars>>

Statuses == {"KOREAN", "PENDING", "SUCCESS", "FAILED"}
Absent   == [status |-> none, symbols |-> {}, by |-> none]
Stored   == {i \in Items : rows[i] # Absent}
ItemsOf(s) == {i \in Items : SourceOf[i] = s}

IdleTask == [pc |-> "idle", res |-> [s \in Sources |-> none], todo |-> {}, cur |-> 0,
             tr |-> [i \in Items |-> none], new |-> {}]
IdleFill == [pc |-> "idle", todo |-> {}, done |-> {}, tr |-> [i \in Items |-> none]]

-----------------------------------------------------------------------------
(* What a source's record says, and how a result changes it.                *)

resting(s) == fails[s] >= Threshold /\ recent[s]

\* record_source_result: an error counts, anything else, SKIPPED included, resets.
Recorded(res) ==
  /\ fails' = [s \in Sources |-> CASE res[s] = none    -> fails[s]
                                   [] res[s] = "ERROR" -> IF fails[s] < Threshold THEN fails[s] + 1
                                                                                  ELSE fails[s]
                                   [] OTHER            -> 0]
  /\ recent' = [s \in Sources |-> recent[s] \/ res[s] = "ERROR"]

CooldownEnds(s) ==
  /\ recent[s]
  /\ recent' = [recent EXCEPT ![s] = FALSE]
  /\ UNCHANGED <<rows, writer, task, fill, pollLock, fails, eventVars, confVars>>

\* _attach_symbols: the feed's symbols, else the stocks named in the texts there are.
SymbolsOf(i, status) ==
  IF Own[i] # {} THEN Own[i]
  ELSE Native[i] \cup (IF status = "SUCCESS" THEN Translated[i] ELSE {})

Freed(t) == IF writer = t THEN none ELSE writer

\* A session that is left without a commit: rows of it vanish, its locks are free.
RolledBack(t) ==
  /\ task' = [task EXCEPT ![t] = IdleTask]
  /\ writer' = Freed(t)
  /\ pollLock' = IF pollLock = t THEN none ELSE pollLock

-----------------------------------------------------------------------------
(* A poll.                                                                  *)

StartPoll(p) ==
  /\ task[p].pc = "idle" /\ enabled /\ spent.polls < MaxPolls
  /\ task' = [task EXCEPT ![p].pc = "waiting"]
  /\ spent' = [spent EXCEPT !.polls = @ + 1]
  /\ UNCHANGED <<rows, writer, fill, pollLock, sourceVars, eventVars, enabled, llm>>

\* Mutation: the poll does not wait for the lock.
AcquireAtOnce(p) ==
  /\ task[p].pc = "waiting"
  /\ pollLock' = p
  /\ task' = [task EXCEPT ![p].pc = "fetching",
                          ![p].res = [s \in Sources |-> IF resting(s) THEN "SKIPPED" ELSE "fetch"]]
  /\ UNCHANGED <<rows, writer, fill, sourceVars, eventVars, confVars>>

\* The lock, then the decision which sources to fetch, in one step.
Acquire(p) ==
  /\ task[p].pc = "waiting" /\ pollLock = none
  /\ enabled
  /\ pollLock' = p
  /\ task' = [task EXCEPT ![p].pc = "fetching",
                          ![p].res = [s \in Sources |-> IF resting(s) THEN "SKIPPED" ELSE "fetch"]]
  /\ UNCHANGED <<rows, writer, fill, sourceVars, eventVars, confVars>>

\* The setting was switched off while the poll waited: every source is SKIPPED.
AcquireDisabled(p) ==
  /\ task[p].pc = "waiting" /\ pollLock = none
  /\ ~enabled
  /\ pollLock' = p
  /\ task' = [task EXCEPT ![p].pc = "logging"]
  /\ Recorded([s \in Sources |-> "SKIPPED"])
  /\ UNCHANGED <<rows, writer, fill, eventVars, confVars>>

Fetched(t, s, items) ==
  task' = [task EXCEPT ![t].res[s] = IF items = {} THEN "EMPTY" ELSE "SUCCESS",
                       ![t].todo = @ \cup items]

\* One source answers; the others are not affected by its error.
FetchEnds(p, s) ==
  /\ task[p].pc = "fetching" /\ task[p].res[s] = "fetch"
  /\ \/ \E items \in SUBSET ItemsOf(s) : Fetched(p, s, items)
     \/ task' = [task EXCEPT ![p].res[s] = "ERROR"]
  /\ UNCHANGED <<rows, writer, fill, pollLock, sourceVars, eventVars, confVars>>

\* The status an article gets before it is stored.
Translations(items, translating) ==
  {f \in [items -> Statuses] : \A i \in items :
     f[i] \in CASE i \notin Foreign -> {"KOREAN"}
                [] i \in Foreign /\ translating  -> {"SUCCESS", "FAILED"}
                [] i \in Foreign /\ ~translating -> {"PENDING"}}

Prepared(t, f) ==
  task' = [task EXCEPT ![t].pc = "ingest",
                       ![t].tr = [i \in Items |-> IF i \in DOMAIN f THEN f[i] ELSE none]]

\* Every fetched article is translated, those already stored included.
TranslateItems(p) ==
  /\ task[p].pc = "fetching" /\ \A s \in Sources : task[p].res[s] # "fetch"
  /\ \E f \in Translations(task[p].todo, llm) : Prepared(p, f)
  /\ UNCHANGED <<rows, writer, fill, pollLock, sourceVars, eventVars, confVars>>

-----------------------------------------------------------------------------
(* ingest_items_detailed, in whatever session it is called with.            *)

Lookup(t) ==
  /\ task[t].pc = "ingest"
  /\ \E i \in task[t].todo :
       task' = IF i \in Stored
                 THEN [task EXCEPT ![t].todo = @ \ {i}]
                 ELSE [task EXCEPT ![t].todo = @ \ {i}, ![t].cur = i, ![t].pc = "insert"]
  /\ UNCHANGED <<rows, writer, fill, pollLock, sourceVars, eventVars, confVars>>

\* Mutation: a failed poll keeps _news_poll_lock.
FailedHolding(t) ==
  /\ task' = [task EXCEPT ![t] = IdleTask]
  /\ writer' = Freed(t)
  /\ UNCHANGED <<rows, fill, pollLock, sourceVars, eventVars, confVars>>

Failed(t) ==
  /\ RolledBack(t)
  /\ IF t = manual
       THEN Recorded([s \in Sources |-> IF task[t].res[s] # none THEN "ERROR" ELSE none])
       ELSE UNCHANGED sourceVars
  /\ UNCHANGED <<rows, fill, eventVars, confVars>>

\* create flushes: it takes the write lock and may meet the UNIQUE hash.
Insert(t) ==
  /\ task[t].pc = "insert" /\ writer \in {none, t} /\ task[t].cur \notin Stored
  /\ task' = [task EXCEPT ![t].pc = "ingest", ![t].cur = 0, ![t].new = @ \cup {task[t].cur}]
  /\ writer' = t
  /\ UNCHANGED <<rows, fill, pollLock, sourceVars, eventVars, confVars>>

InsertFails(t) ==
  /\ task[t].pc = "insert"
  /\ writer \notin {none, t} \/ task[t].cur \in Stored
  /\ Failed(t)

\* Mutation: no event for what another source's error came with.
PublishUnlessError(p) ==
  /\ task[p].pc = "ingest" /\ task[p].todo = {}
  /\ LET events == IF \E s \in Sources : task[p].res[s] = "ERROR" THEN {}
                   ELSE {i \in task[p].new : SymbolsOf(i, task[p].tr[i]) # {}}
     IN  /\ queue' = queue \o SetToSeq(events)
         /\ published' = published \cup events
  /\ Recorded(task[p].res)
  /\ task' = [task EXCEPT ![p].pc = "logging"]
  /\ UNCHANGED <<rows, writer, fill, pollLock, confVars>>

\* The events of the new rows with symbols, then the sources' results: one step.
Publish(p) ==
  /\ task[p].pc = "ingest" /\ task[p].todo = {}
  /\ LET events == {i \in task[p].new : SymbolsOf(i, task[p].tr[i]) # {}}
     IN  /\ queue' = queue \o SetToSeq(events)
         /\ published' = published \cup events
  /\ Recorded(task[p].res)
  /\ task' = [task EXCEPT ![p].pc = "logging"]
  /\ UNCHANGED <<rows, writer, fill, pollLock, confVars>>

\* The activity log and the metric are written by sessions of their own, which
\* wait for the write lock: in vain when the poll itself holds it.
LogAndMeasure(p) ==
  /\ task[p].pc = "logging"
  /\ task' = [task EXCEPT ![p].pc = "commit"]
  /\ UNCHANGED <<rows, writer, fill, pollLock, sourceVars, eventVars, confVars>>

Row(t, i) == [status |-> task[t].tr[i], symbols |-> SymbolsOf(i, task[t].tr[i]), by |-> IF t = manual THEN manual ELSE "poll"]

Commit(t) ==
  /\ task[t].pc = "commit"
  /\ rows' = [i \in Items |-> IF i \in task[t].new THEN Row(t, i) ELSE rows[i]]
  /\ RolledBack(t)
  /\ UNCHANGED <<fill, sourceVars, eventVars, confVars>>

-----------------------------------------------------------------------------
(* An operator's fetch of one source: no translation, no lock, no events.   *)

FetchManually(s) ==
  /\ task[manual].pc = "idle" /\ spent.manual < MaxManual
  /\ \E items \in SUBSET ItemsOf(s), failed \in BOOLEAN :
       IF failed THEN Recorded([IdleTask.res EXCEPT ![s] = "ERROR"]) /\ UNCHANGED task
       ELSE /\ task' = [task EXCEPT ![manual] =
                 [IdleTask EXCEPT !.pc = "ingest", !.todo = items,
                    !.res[s] = IF items = {} THEN "EMPTY" ELSE "SUCCESS",
                    !.tr = [i \in Items |-> CASE i \notin items  -> none
                                              [] i \in items \cap Foreign -> "PENDING"
                                              [] i \in items \ Foreign    -> "KOREAN"]]]
            /\ UNCHANGED sourceVars
  /\ spent' = [spent EXCEPT !.manual = @ + 1]
  /\ UNCHANGED <<rows, writer, fill, pollLock, eventVars, enabled, llm>>

\* The route records the source before the dependency commits.
RecordManually ==
  /\ task[manual].pc = "ingest" /\ task[manual].todo = {}
  /\ Recorded(task[manual].res)
  /\ task' = [task EXCEPT ![manual].pc = "commit"]
  /\ UNCHANGED <<rows, writer, fill, pollLock, eventVars, confVars>>

-----------------------------------------------------------------------------
(* The translation backfill: an interval job and an initial task.           *)

\* get_translation_backlog: stored, foreign, PENDING; the oldest first.
Backlog == {i \in Foreign : rows[i].status = "PENDING"}
Oldest(S, n) == {i \in S : Cardinality({j \in S : j < i}) < n}

ReadBacklog(f) ==
  /\ fill[f].pc = "idle" /\ llm /\ Backlog # {}
  /\ fill' = [fill EXCEPT ![f].pc = "llm", ![f].todo = Oldest(Backlog, BatchSize)]
  /\ UNCHANGED <<rows, writer, task, pollLock, sourceVars, eventVars, confVars>>

\* Mutation: a failed translation stays in the backlog.
TranslatedRowPending(f) ==
  /\ fill[f].pc = "llm"
  /\ LET i == CHOOSE i \in fill[f].todo : \A j \in fill[f].todo : i <= j
     IN  \E outcome \in {"SUCCESS", "PENDING"} :
           fill' = [fill EXCEPT ![f].pc = "flush", ![f].tr[i] = outcome]
  /\ UNCHANGED <<rows, writer, task, pollLock, sourceVars, eventVars, confVars>>

\* The provider answers for the oldest row that is left, or does not.
TranslatedRow(f) ==
  /\ fill[f].pc = "llm"
  /\ LET i == CHOOSE i \in fill[f].todo : \A j \in fill[f].todo : i <= j
     IN  \E outcome \in {"SUCCESS", "FAILED"} :
           fill' = [fill EXCEPT ![f].pc = "flush", ![f].tr[i] = outcome]
  /\ UNCHANGED <<rows, writer, task, pollLock, sourceVars, eventVars, confVars>>

\* repo.update flushes, and the lock is kept while the next row is translated.
FlushRow(f) ==
  /\ fill[f].pc = "flush" /\ writer \in {none, f}
  /\ LET i    == CHOOSE i \in fill[f].todo : \A j \in fill[f].todo : i <= j
         left == fill[f].todo \ {i}
     IN  fill' = [fill EXCEPT ![f].pc = IF left = {} THEN "commit" ELSE "llm",
                              ![f].todo = left, ![f].done = @ \cup {i}]
  /\ writer' = f
  /\ UNCHANGED <<rows, task, pollLock, sourceVars, eventVars, confVars>>

FillLocked(f) ==
  /\ fill[f].pc = "flush" /\ writer \notin {none, f}
  /\ fill' = [fill EXCEPT ![f] = IdleFill]
  /\ UNCHANGED <<rows, writer, task, pollLock, sourceVars, eventVars, confVars>>

\* The rows get their status back; their symbols stay what they were.
CommitFill(f) ==
  /\ fill[f].pc = "commit"
  /\ rows' = [i \in Items |-> IF i \in fill[f].done THEN [rows[i] EXCEPT !.status = fill[f].tr[i]]
                                                    ELSE rows[i]]
  /\ writer' = Freed(f)
  /\ fill' = [fill EXCEPT ![f] = IdleFill]
  /\ UNCHANGED <<task, pollLock, sourceVars, eventVars, confVars>>

-----------------------------------------------------------------------------
(* The agent's handler, the settings, a stopped scheduler, a crash.         *)

\* _on_news_item: the re-check of a tracked symbol reads the news of the database.
Recheck ==
  /\ queue # <<>>
  /\ queue' = Tail(queue)
  /\ UNCHANGED <<rows, writer, task, fill, pollLock, sourceVars, published, confVars>>

Change ==
  /\ spent.changes < MaxChanges
  /\ spent' = [spent EXCEPT !.changes = @ + 1]
  /\ \/ enabled' = ~enabled /\ UNCHANGED llm
     \/ llm' = ~llm /\ UNCHANGED enabled
  /\ UNCHANGED <<rows, writer, task, fill, pollLock, sourceVars, eventVars>>

\* A reconfiguration stops the scheduler, which cancels the poll of a job.
CancelPoll(p) ==
  /\ task[p].pc # "idle" /\ spent.changes < MaxChanges
  /\ spent' = [spent EXCEPT !.changes = @ + 1]
  /\ RolledBack(p)
  /\ UNCHANGED <<rows, fill, sourceVars, eventVars, enabled, llm>>

\* Only the rows and the settings survive.
Crash ==
  /\ spent.changes < MaxChanges
  /\ spent' = [spent EXCEPT !.changes = @ + 1]
  /\ task' = [t \in Ingesters |-> IdleTask] /\ fill' = [f \in Fills |-> IdleFill]
  /\ writer' = none /\ pollLock' = none /\ queue' = <<>>
  /\ fails' = [s \in Sources |-> 0] /\ recent' = [s \in Sources |-> FALSE]
  /\ UNCHANGED <<rows, published, enabled, llm>>

-----------------------------------------------------------------------------
Init ==
  /\ rows = [i \in Items |-> Absent]
  /\ writer = none /\ pollLock = none
  /\ task = [t \in Ingesters |-> IdleTask] /\ fill = [f \in Fills |-> IdleFill]
  /\ fails = [s \in Sources |-> 0] /\ recent = [s \in Sources |-> FALSE]
  /\ queue = <<>> /\ published = {} 
  /\ enabled = TRUE /\ llm = TRUE
  /\ spent = [polls |-> 0, manual |-> 0, changes |-> 0]

PollSteps(p) ==
  \/ Acquire(p) \/ AcquireDisabled(p) \/ \E s \in Sources : FetchEnds(p, s)
  \/ TranslateItems(p) \/ Publish(p) \/ LogAndMeasure(p)
IngestSteps(t) == Lookup(t) \/ Insert(t) \/ InsertFails(t) \/ Commit(t)
FillSteps(f) ==
  ReadBacklog(f) \/ TranslatedRow(f) \/ FlushRow(f) \/ FillLocked(f) \/ CommitFill(f)

Next ==
  \/ \E p \in Polls : StartPoll(p) \/ PollSteps(p) \/ CancelPoll(p)
  \/ \E t \in Ingesters : IngestSteps(t)
  \/ \E s \in ManualSources : FetchManually(s)
  \/ \E s \in Sources : CooldownEnds(s)
  \/ RecordManually
  \/ \E f \in Fills : FillSteps(f)
  \/ Recheck \/ Change \/ Crash

Spec == Init /\ [][Next]_vars

\* asyncio runs every task that is ready, fetches and provider calls have
\* timeouts, and the interval job starts the backfill again and again.
FairSpec ==
  /\ Spec
  /\ \A p \in Polls : WF_vars(PollSteps(p))
  /\ \A t \in Ingesters : WF_vars(IngestSteps(t))
  /\ WF_vars(RecordManually)
  /\ \A f \in Fills : WF_vars(FillSteps(f))

-----------------------------------------------------------------------------
\* Every variable has its type.
TypeOK ==
  /\ rows \in [Items -> [status : Statuses, symbols : SUBSET Symbols, by : {"poll", manual}] \cup {Absent}]
  /\ writer \in Ingesters \cup Fills \cup {none}
  /\ pollLock \in Polls \cup {none}
  /\ task \in [Ingesters ->
       [pc  : {"idle", "waiting", "fetching", "ingest", "insert", "logging", "commit"},
        res : [Sources -> {none, "fetch", "SKIPPED", "ERROR", "EMPTY", "SUCCESS"}],
        todo : SUBSET Items, cur : Items \cup {0},
        tr  : [Items -> Statuses \cup {none}], new : SUBSET Items]]
  /\ fill \in [Fills -> [pc : {"idle", "llm", "flush", "commit"}, todo : SUBSET Items,
                         done : SUBSET Items, tr : [Items -> Statuses \cup {none}]]]
  /\ fails \in [Sources -> 0..Threshold]
  /\ recent \in [Sources -> BOOLEAN]
  /\ queue \in Seq(Items) /\ published \subseteq Items
  /\ enabled \in BOOLEAN /\ llm \in BOOLEAN
  /\ spent \in [polls : 0..MaxPolls, manual : 0..MaxManual, changes : 0..MaxChanges]

\* An article with symbols that a poll stored was published to the agent: no
\* order of errors, duplicates, cancellations and crashes stores it in silence
\* (poll_sources publishes created_items before the scheduler commits them).
StoredArePublished ==
  \A i \in Stored : rows[i].by = "poll" /\ rows[i].symbols # {} => i \in published

\* The articles are sound: rows, tasks and the write lock keep their types through
\* rollbacks and crashes, and what a poll has stored with symbols was published.
ArticlesSound == TypeOK /\ StoredArePublished

\* The only row that can come between a poll's lookup of a hash and its insert
\* is one of a manual fetch: polls, whatever started them, exclude each other
\* (_news_poll_lock), so none of them loses its whole batch to another.
OnlyManualConflicts ==
  \A p \in Polls :
    task[p].pc = "insert" /\ task[p].cur \in Stored => rows[task[p].cur].by = manual

\* A poll that waits for the lock or works comes to an end, with a commit or
\* without (the async with blocks of _news_poll).
PollsEnd == \A p \in Polls : task[p].pc # "idle" ~> task[p].pc = "idle"

\* SQLite's write lock is always given back: the one writer of the database is
\* never kept from the rest of the program for good.
WriteLockFreed == \A t \in Ingesters \cup Fills : writer = t ~> writer # t

\* With the translation switched on, each row of the backlog leaves it
\* (process_pending gives every row it takes a final status).
BacklogDrains ==
  <>[]llm => \A i \in Foreign : rows[i].status = "PENDING" ~> rows[i].status # "PENDING"

\* A source that rests after Threshold failures in a row goes on resting until
\* its cooldown is over or a fetch of it succeeds (record_source_result).
CooldownHolds ==
  [][\A s \in Sources : resting(s) =>
       \/ resting(s)' \/ ~recent'[s]
       \/ \E t \in Ingesters : task[t].res[s] \in {"EMPTY", "SUCCESS"} /\ task'[t] # task[t]]_vars

\* Every poll leaves its NEWS_POLL metric: while it writes one, in a session of
\* its own, it does not hold the write lock itself (record_news_poll).
PollMeasured == \A p \in Polls : task[p].pc = "logging" => writer # p

\* The agent's re-check of an article finds it in the database (_on_news_item).
RecheckSeesNews ==
  [][queue # <<>> /\ queue' = Tail(queue) => Head(queue) \in Stored]_vars

\* A translated article carries the stocks its translation names
\* (_attach_symbols runs before the backfill translates).
TranslatedAreLinked ==
  \A i \in Stored : rows[i].status = "SUCCESS" => SymbolsOf(i, "SUCCESS") \subseteq rows[i].symbols

\* A successful translation is never replaced by a failed one.
TranslationKept ==
  [][\A i \in Items : rows[i].status = "SUCCESS" => rows'[i].status = "SUCCESS"]_vars
=============================================================================
