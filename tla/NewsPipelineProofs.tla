------------------------- MODULE NewsPipelineProofs -------------------------
(***************************************************************************)
(* Theorems of NewsPipeline for all articles, polls, backfills and bounds: *)
(* what a poll stores with symbols was published, and polls exclude each   *)
(* other, so that only a manual fetch can store what a poll is about to.   *)
(* The second part is about the other publisher of the bus, Realtime.      *)
(***************************************************************************)
EXTENDS NewsPipeline, FiniteSetTheorems, WellFoundedInduction, TLAPS

USE NewsAssumption

Rows  == [status : Statuses, symbols : SUBSET Symbols, by : {"poll", manual}]
Tasks == [pc  : {"idle", "waiting", "fetching", "ingest", "insert", "logging", "commit"},
          res : [Sources -> {none, "fetch", "SKIPPED", "ERROR", "EMPTY", "SUCCESS"}],
          todo : SUBSET Items, cur : Items \cup {0},
          tr  : [Items -> Statuses \cup {none}], new : SUBSET Items]
Filling == [pc : {"idle", "llm", "flush", "commit"}, todo : SUBSET Items,
            done : SUBSET Items, tr : [Items -> Statuses \cup {none}]]

\* An ingester stores only articles that have a status, and none before it is
\* past the fetching.
TaskOK(x) ==
  /\ x.pc \in {"idle", "waiting", "fetching"} => x.new = {}
  /\ x.pc \in {"ingest", "insert"} => \A i \in x.todo : x.tr[i] # none
  /\ x.pc = "insert" => x.cur \in Items /\ x.tr[x.cur] # none
  /\ \A i \in x.new : x.tr[i] # none

TasksOK == task \in [Ingesters -> Tasks] /\ \A t \in Ingesters : TaskOK(task[t])

LEMMA LeastNumber ==
  ASSUME NEW T \in SUBSET Nat, T # {}
  PROVE  \E x \in T : \A y \in T : x <= y
<1>1. PICK x \in T : \A y \in T : ~(<<y, x>> \in OpToRel(<, Nat))
  BY WFMin, NatLessThanWellFounded
<1>2. \A y \in T : ~(y < x)
  BY <1>1 DEF OpToRel
<1> QED  BY <1>2

LEMMA IdleOK == IdleTask \in Tasks /\ TaskOK(IdleTask)
BY DEF IdleTask, Tasks, TaskOK

\* One task goes on to x.
LEMMA OneTask ==
  ASSUME TasksOK, NEW t \in Ingesters, NEW x \in Tasks, TaskOK(x), task' = [task EXCEPT ![t] = x]
  PROVE  TasksOK' /\ task'[t] = x /\ \A u \in Ingesters \ {t} : task'[u] = task[u]
BY DEF TasksOK

LEMMA AcquireTask ==
  ASSUME TasksOK, NEW p \in Polls, Acquire(p) \/ AcquireDisabled(p) \/ StartPoll(p)
  PROVE  TasksOK'
<1> USE DEF Ingesters
<1>0. task[p] \in Tasks /\ TaskOK(task[p])  BY DEF TasksOK
<1>1. CASE Acquire(p)
  <2> DEFINE r == [s \in Sources |-> IF resting(s) THEN "SKIPPED" ELSE "fetch"]
             x == [task[p] EXCEPT !.pc = "fetching", !.res = r]
  <2>1. task' = [task EXCEPT ![p] = x]  BY <1>1 DEF Acquire
  <2>2. r \in [Sources -> {none, "fetch", "SKIPPED", "ERROR", "EMPTY", "SUCCESS"}]
    OBVIOUS
  <2>3. task[p].pc = "waiting"  BY <1>1 DEF Acquire
  <2> HIDE DEF r
  <2>4. x \in Tasks /\ TaskOK(x)  BY <1>0, <2>2, <2>3 DEF Tasks, TaskOK
  <2> HIDE DEF x
  <2> QED  BY <2>1, <2>4, OneTask
<1>2. CASE AcquireDisabled(p)
  BY <1>2 DEF AcquireDisabled, TasksOK, Tasks, TaskOK
<1>3. CASE StartPoll(p)
  BY <1>3 DEF StartPoll, TasksOK, Tasks, TaskOK
<1> QED  BY <1>1, <1>2, <1>3

LEMMA FetchTask ==
  ASSUME TasksOK, NEW p \in Polls, NEW s \in Sources, FetchEnds(p, s)
  PROVE  TasksOK'
<1>1. task[p] \in Tasks /\ TaskOK(task[p]) /\ task[p].pc = "fetching" /\ p \in Ingesters
  BY DEF FetchEnds, TasksOK, Ingesters
<1>2. ASSUME NEW items \in SUBSET ItemsOf(s), Fetched(p, s, items) PROVE TasksOK'
  <2> DEFINE v == IF items = {} THEN "EMPTY" ELSE "SUCCESS"
             x == [task[p] EXCEPT !.res[s] = v, !.todo = @ \cup items]
  <2>1. task' = [task EXCEPT ![p] = x]  BY <1>2 DEF Fetched
  <2>2. v \in {"EMPTY", "SUCCESS"} /\ items \subseteq Items  BY DEF ItemsOf
  <2> HIDE DEF v
  <2>3. x \in Tasks /\ TaskOK(x)  BY <1>1, <2>2 DEF Tasks, TaskOK
  <2> HIDE DEF x
  <2> QED  BY <1>1, <2>1, <2>3, OneTask
<1>3. CASE task' = [task EXCEPT ![p].res[s] = "ERROR"]
  <2> DEFINE x == [task[p] EXCEPT !.res[s] = "ERROR"]
  <2>1. task' = [task EXCEPT ![p] = x]  BY <1>3
  <2>2. x \in Tasks /\ TaskOK(x)  BY <1>1 DEF Tasks, TaskOK
  <2> HIDE DEF x
  <2> QED  BY <1>1, <2>1, <2>2, OneTask
<1> QED  BY <1>2, <1>3 DEF FetchEnds

LEMMA TranslateTask ==
  ASSUME TasksOK, NEW p \in Polls, TranslateItems(p)
  PROVE  TasksOK'
<1>1. PICK f \in Translations(task[p].todo, llm) : Prepared(p, f)
  BY DEF TranslateItems
<1>2. f \in [task[p].todo -> Statuses] /\ DOMAIN f = task[p].todo
  BY <1>1 DEF Translations
<1>3. \A i \in DOMAIN f : f[i] \in Statuses /\ f[i] # none
  BY <1>2 DEF Statuses, none
<1> DEFINE g == [i \in Items |-> IF i \in DOMAIN f THEN f[i] ELSE none]
           x == [task[p] EXCEPT !.pc = "ingest", !.tr = g]
<1>4. task' = [task EXCEPT ![p] = x]  BY <1>1 DEF Prepared
<1>5. task[p] \in Tasks /\ task[p].new = {} /\ p \in Ingesters
  BY DEF TranslateItems, TasksOK, TaskOK, Ingesters
<1>6. g \in [Items -> Statuses \cup {none}] /\ \A i \in task[p].todo : g[i] # none
  BY <1>2, <1>3, <1>5 DEF Tasks
<1> HIDE DEF g
<1>7. x \in Tasks /\ TaskOK(x)  BY <1>5, <1>6 DEF Tasks, TaskOK
<1> HIDE DEF x
<1> QED  BY <1>4, <1>5, <1>7, OneTask

LEMMA IngestTask ==
  ASSUME TasksOK, NEW t \in Ingesters, IngestSteps(t)
  PROVE  TasksOK'
<1>1. CASE Lookup(t)
  <2>1. PICK i \in task[t].todo :
       task' = IF i \in Stored
                 THEN [task EXCEPT ![t].todo = @ \ {i}]
                 ELSE [task EXCEPT ![t].todo = @ \ {i}, ![t].cur = i, ![t].pc = "insert"]
    BY <1>1 DEF Lookup
  <2>2. task[t] \in Tasks /\ TaskOK(task[t]) /\ task[t].pc = "ingest" /\ i \in Items
    BY <1>1 DEF Lookup, TasksOK, Tasks
  <2>3. CASE i \in Stored
    <3> DEFINE x == [task[t] EXCEPT !.todo = @ \ {i}]
    <3>1. task' = [task EXCEPT ![t] = x]  BY <2>1, <2>3
    <3>2. x \in Tasks /\ TaskOK(x)  BY <2>2 DEF Tasks, TaskOK
    <3> HIDE DEF x
    <3> QED  BY <3>1, <3>2, OneTask
  <2>4. CASE i \notin Stored
    <3> DEFINE x == [task[t] EXCEPT !.todo = @ \ {i}, !.cur = i, !.pc = "insert"]
    <3>1. task' = [task EXCEPT ![t] = x]  BY <2>1, <2>4
    <3>2. x \in Tasks /\ TaskOK(x)  BY <2>2 DEF Tasks, TaskOK
    <3> HIDE DEF x
    <3> QED  BY <3>1, <3>2, OneTask
  <2> QED  BY <2>3, <2>4
<1>2. CASE Insert(t)
  BY <1>2 DEF Insert, TasksOK, Tasks, TaskOK
<1>3. CASE InsertFails(t) \/ Commit(t)
  BY <1>3, IdleOK, OneTask DEF InsertFails, Failed, Commit, RolledBack
<1> QED  BY <1>1, <1>2, <1>3 DEF IngestSteps

LEMMA PublishTask ==
  ASSUME TasksOK, NEW p \in Polls, Publish(p) \/ LogAndMeasure(p) \/ CancelPoll(p)
  PROVE  TasksOK'
<1>1. CASE Publish(p) \/ LogAndMeasure(p)
  <2> DEFINE pc == IF task[p].pc = "logging" THEN "commit" ELSE "logging"
             x == [task[p] EXCEPT !.pc = pc]
  <2>1. task' = [task EXCEPT ![p] = x]  BY <1>1 DEF Publish, LogAndMeasure
  <2>2. task[p] \in Tasks /\ TaskOK(task[p]) /\ p \in Ingesters  BY DEF TasksOK, Ingesters
  <2>3. pc \in {"logging", "commit"}  OBVIOUS
  <2> HIDE DEF pc
  <2>4. x \in Tasks /\ TaskOK(x)  BY <2>2, <2>3 DEF Tasks, TaskOK
  <2> HIDE DEF x
  <2> QED  BY <2>1, <2>2, <2>4, OneTask
<1>2. CASE CancelPoll(p)
  BY <1>2, IdleOK, OneTask DEF CancelPoll, RolledBack, Ingesters
<1> QED  BY <1>1, <1>2

LEMMA ManualTask ==
  ASSUME TasksOK, RecordManually \/ \E s \in ManualSources : FetchManually(s)
  PROVE  TasksOK'
<1>1. CASE RecordManually
  BY <1>1 DEF RecordManually, TasksOK, Tasks, TaskOK, Ingesters
<1>2. ASSUME NEW s \in ManualSources, FetchManually(s) PROVE TasksOK'
  <2>1. PICK items \in SUBSET ItemsOf(s), failed \in BOOLEAN :
       IF failed THEN Recorded([IdleTask.res EXCEPT ![s] = "ERROR"]) /\ UNCHANGED task
       ELSE /\ task' = [task EXCEPT ![manual] =
                 [IdleTask EXCEPT !.pc = "ingest", !.todo = items,
                    !.res[s] = IF items = {} THEN "EMPTY" ELSE "SUCCESS",
                    !.tr = [i \in Items |-> CASE i \notin items  -> none
                                              [] i \in items \cap Foreign -> "PENDING"
                                              [] i \in items \ Foreign    -> "KOREAN"]]]
            /\ UNCHANGED sourceVars
    BY <1>2 DEF FetchManually
  <2> DEFINE x == [IdleTask EXCEPT !.pc = "ingest", !.todo = items,
                    !.res[s] = IF items = {} THEN "EMPTY" ELSE "SUCCESS",
                    !.tr = [i \in Items |-> CASE i \notin items  -> none
                                              [] i \in items \cap Foreign -> "PENDING"
                                              [] i \in items \ Foreign    -> "KOREAN"]]
  <2>2. x \in Tasks /\ TaskOK(x)
    BY IdleOK DEF IdleTask, Tasks, TaskOK, ItemsOf, Statuses, none
  <2>3. manual \in Ingesters  BY DEF Ingesters
  <2>4. CASE task' = [task EXCEPT ![manual] = x]
    <3> HIDE DEF x
    <3> QED  BY <2>2, <2>3, <2>4, OneTask
  <2>5. CASE UNCHANGED task
    BY <2>5 DEF TasksOK
  <2> QED  BY <2>1, <2>4, <2>5
<1> QED  BY <1>1, <1>2

-----------------------------------------------------------------------------
(* The backfill and the rows.                                               *)

RowsOK == rows \in [Items -> Rows \cup {Absent}]

Least(S) == CHOOSE i \in S : \A j \in S : i <= j

\* A backfill has taken rows that are stored, and gives each that it has done a
\* status; when it is to write one, it is the oldest that is left.
FillOK(x) ==
  /\ x.pc = "idle" => x.done = {}
  /\ x.pc \in {"llm", "flush"} => x.todo # {}
  /\ \A i \in x.done : x.tr[i] # none
  /\ x.pc = "flush" => x.tr[Least(x.todo)] # none

FillsOK ==
  /\ fill \in [Fills -> Filling]
  /\ \A f \in Fills : FillOK(fill[f]) /\ fill[f].todo \cup fill[f].done \subseteq Stored

LEMMA LeastIs ==
  ASSUME NEW S \in SUBSET Items, S # {}
  PROVE  Least(S) \in S
<1>1. \E i \in S : \A j \in S : i <= j
  <2>1. S \in SUBSET Nat  OBVIOUS
  <2> QED  BY <2>1, LeastNumber
<1> QED  BY <1>1 DEF Least

\* The oldest row of the backlog is taken, so a backfill that takes rows has some.
LEMMA OldestIs ==
  ASSUME NEW S \in SUBSET Items, S # {}, NEW n \in Nat \ {0}
  PROVE  Oldest(S, n) # {} /\ Oldest(S, n) \subseteq S
<1>1. PICK i \in S : \A j \in S : i <= j
  <2>1. S \in SUBSET Nat  OBVIOUS
  <2> QED  BY <2>1, LeastNumber
<1>2. {j \in S : j < i} = {}
  <2>1. ASSUME NEW j \in S PROVE ~(j < i)
    <3>1. j \in Nat /\ i \in Nat /\ i <= j  BY <1>1
    <3> QED  BY <3>1
  <2> QED  BY <2>1
<1>3. Cardinality({j \in S : j < i}) = 0
  BY <1>2, FS_EmptySet
<1>4. Cardinality({j \in S : j < i}) < n
  BY <1>3
<1>5. i \in Oldest(S, n)
  BY <1>4 DEF Oldest
<1> QED  BY <1>5 DEF Oldest

LEMMA IdleFillOK == IdleFill \in Filling /\ FillOK(IdleFill) /\ IdleFill.todo \cup IdleFill.done = {}
BY DEF IdleFill, Filling, FillOK

\* A row that a poll, an operator or the backfill stores is one, and none is removed.
LEMMA CommitRows ==
  ASSUME RowsOK, TasksOK, NEW t \in Ingesters, Commit(t)
  PROVE  RowsOK' /\ Stored \subseteq Stored'
<1>1. task[t] \in Tasks /\ TaskOK(task[t])  BY DEF TasksOK
<1>2. ASSUME NEW i \in task[t].new PROVE Row(t, i) \in Rows
  <2>1. i \in Items /\ task[t].tr[i] \in Statuses  BY <1>1 DEF Tasks, TaskOK
  <2>2. SymbolsOf(i, task[t].tr[i]) \subseteq Symbols
    <3>1. Own[i] \subseteq Symbols /\ Native[i] \subseteq Symbols /\ Translated[i] \subseteq Symbols
      BY <2>1
    <3> QED  BY <3>1 DEF SymbolsOf
  <2> QED  BY <2>1, <2>2 DEF Row, Rows
<1>3. rows' = [i \in Items |-> IF i \in task[t].new THEN Row(t, i) ELSE rows[i]]
  BY DEF Commit
<1>4. \A r \in Rows : r # Absent
  BY DEF Rows, Absent, Statuses, none
<1>5. RowsOK'  BY <1>2, <1>3 DEF RowsOK
<1>6. \A i \in Stored : rows'[i] # Absent
  BY <1>2, <1>3, <1>4 DEF Stored
<1> QED  BY <1>5, <1>6 DEF Stored

LEMMA FillRows ==
  ASSUME RowsOK, FillsOK, NEW f \in Fills, CommitFill(f)
  PROVE  /\ RowsOK' /\ Stored' = Stored
         /\ \A i \in Items : rows'[i].by = rows[i].by /\ rows'[i].symbols = rows[i].symbols
<1>1. fill[f] \in Filling /\ FillOK(fill[f]) /\ fill[f].done \subseteq Stored
  BY DEF FillsOK
<1>2. \A r \in Rows : r # Absent
  BY DEF Rows, Absent, Statuses, none
<1>3. ASSUME NEW i \in Items, i \in fill[f].done
      PROVE  /\ rows[i] \in Rows /\ rows'[i] \in Rows
             /\ rows'[i].by = rows[i].by /\ rows'[i].symbols = rows[i].symbols
  <2>1. rows[i] \in Rows  BY <1>1, <1>3 DEF RowsOK, Stored
  <2>2. fill[f].tr[i] \in Statuses  BY <1>1, <1>3 DEF Filling, FillOK
  <2>3. rows'[i] = [rows[i] EXCEPT !.status = fill[f].tr[i]]  BY <1>3 DEF CommitFill
  <2> QED  BY <2>1, <2>2, <2>3 DEF Rows
<1>4. ASSUME NEW i \in Items, i \notin fill[f].done PROVE rows'[i] = rows[i]
  BY <1>4 DEF CommitFill
<1>5. DOMAIN rows' = Items /\ rows' = [i \in Items |-> rows'[i]]
  BY DEF CommitFill
<1>6. RowsOK'
  BY <1>3, <1>4, <1>5 DEF RowsOK
<1>7. Stored' = Stored
  BY <1>2, <1>3, <1>4 DEF Stored
<1> QED  BY <1>3, <1>4, <1>6, <1>7

LEMMA OneFill ==
  ASSUME FillsOK, NEW f \in Fills, NEW x \in Filling, FillOK(x),
         x.todo \cup x.done \subseteq Stored, Stored \subseteq Stored', fill' = [fill EXCEPT ![f] = x]
  PROVE  FillsOK'
BY DEF FillsOK

LEMMA FillStep ==
  ASSUME FillsOK, RowsOK, NEW f \in Fills, FillSteps(f)
  PROVE  FillsOK' /\ RowsOK'
<1>0. /\ fill[f] \in Filling /\ FillOK(fill[f]) /\ fill[f].todo \cup fill[f].done \subseteq Stored
      /\ Stored \subseteq Items
  BY DEF FillsOK, Stored
<1>1. CASE ReadBacklog(f)
  <2> DEFINE x == [fill[f] EXCEPT !.pc = "llm", !.todo = Oldest(Backlog, BatchSize)]
  <2>1. fill' = [fill EXCEPT ![f] = x] /\ fill[f].pc = "idle" /\ Backlog # {} /\ UNCHANGED rows
    BY <1>1 DEF ReadBacklog
  <2>2. Backlog \subseteq Items /\ Backlog \subseteq Stored
    <3>1. Absent.status # "PENDING"  BY DEF Absent, none
    <3> HIDE DEF Absent
    <3>2. \A i \in Backlog : i \in Items /\ rows[i] # Absent  BY <3>1 DEF Backlog
    <3> QED  BY <3>2 DEF Stored
  <2>3. Oldest(Backlog, BatchSize) # {} /\ Oldest(Backlog, BatchSize) \subseteq Backlog
    BY <2>1, <2>2, OldestIs
  <2>4. x \in Filling /\ FillOK(x) /\ x.todo \cup x.done \subseteq Stored
    BY <1>0, <2>1, <2>2, <2>3 DEF Filling, FillOK
  <2> HIDE DEF x
  <2> QED  BY <2>1, <2>4, OneFill DEF RowsOK, Stored
<1>2. CASE TranslatedRow(f)
  <2>1. fill[f].pc = "llm" /\ UNCHANGED rows  BY <1>2 DEF TranslatedRow
  <2>2. PICK outcome \in {"SUCCESS", "FAILED"} :
          fill' = [fill EXCEPT ![f].pc = "flush", ![f].tr[Least(fill[f].todo)] = outcome]
    BY <1>2 DEF TranslatedRow, Least
  <2> DEFINE i == Least(fill[f].todo)
             x == [fill[f] EXCEPT !.pc = "flush", !.tr[i] = outcome]
  <2>3. fill' = [fill EXCEPT ![f] = x]  BY <2>2
  <2>4. fill[f].todo \in SUBSET Items /\ fill[f].todo # {}
    BY <1>0, <2>1 DEF FillOK, Filling
  <2>5. i \in fill[f].todo  BY <2>4, LeastIs
  <2>6. x.todo = fill[f].todo /\ x.done = fill[f].done /\ x.pc = "flush"
        /\ x.tr = [fill[f].tr EXCEPT ![i] = outcome] /\ x \in Filling
    BY <1>0, <2>4, <2>5 DEF Filling, Statuses
  <2>7. FillOK(x)
    <3>1. x.tr[i] # none  BY <1>0, <2>4, <2>5, <2>6 DEF Filling, none
    <3>2. \A j \in x.done : x.tr[j] # none
      BY <1>0, <2>4, <2>5, <2>6, <3>1 DEF Filling, FillOK
    <3>3. i = Least(x.todo)  BY <2>6
    <3> HIDE DEF x, i
    <3> QED  BY <2>4, <2>6, <3>1, <3>2, <3>3 DEF FillOK
  <2> HIDE DEF x
  <2> QED  BY <1>0, <2>1, <2>3, <2>6, <2>7, OneFill DEF RowsOK, Stored
<1>3. CASE FlushRow(f)
  <2> DEFINE i == Least(fill[f].todo)
             left == fill[f].todo \ {i}
             pc == IF left = {} THEN "commit" ELSE "llm"
             x == [fill[f] EXCEPT !.pc = pc, !.todo = left, !.done = @ \cup {i}]
  <2>1. fill' = [fill EXCEPT ![f] = x] /\ fill[f].pc = "flush" /\ UNCHANGED rows
    <3>1. fill' = [fill EXCEPT ![f].pc = pc, ![f].todo = left, ![f].done = @ \cup {i}]
      BY <1>3 DEF FlushRow, Least
    <3>2. fill[f].pc = "flush" /\ UNCHANGED rows  BY <1>3 DEF FlushRow
    <3> HIDE DEF i, left, pc
    <3> QED  BY <3>1, <3>2
  <2>2. fill[f].todo \in SUBSET Items /\ fill[f].todo # {} /\ fill[f].tr[i] # none
    BY <1>0, <2>1 DEF FillOK, Filling
  <2>3. i \in fill[f].todo  BY <2>2, LeastIs
  <2>4. pc \in {"commit", "llm"} /\ (pc = "llm" => left # {}) /\ left \subseteq fill[f].todo
    OBVIOUS
  <2> HIDE DEF i, left, pc
  <2>5. x \in Filling /\ FillOK(x) /\ x.todo \cup x.done \subseteq Stored
    BY <1>0, <2>2, <2>3, <2>4 DEF Filling, FillOK
  <2> HIDE DEF x
  <2> QED  BY <2>1, <2>5, OneFill DEF RowsOK, Stored
<1>4. CASE FillLocked(f)
  BY <1>4, IdleFillOK, OneFill DEF FillLocked, RowsOK, Stored
<1>5. CASE CommitFill(f)
  <2>1. RowsOK' /\ Stored' = Stored  BY <1>5, FillRows
  <2>2. fill' = [fill EXCEPT ![f] = IdleFill]  BY <1>5 DEF CommitFill
  <2> QED  BY <2>1, <2>2, IdleFillOK, OneFill
<1> QED  BY <1>1, <1>2, <1>3, <1>4, <1>5 DEF FillSteps

-----------------------------------------------------------------------------
(* The lock of the polls, and what they have published.                     *)

Working == {"fetching", "ingest", "insert", "logging", "commit"}

\* The poll that works holds _news_poll_lock.
LockOK ==
  /\ pollLock \in Polls \cup {none}
  /\ \A p \in Polls : task[p].pc \in Working <=> pollLock = p

\* A poll that has published has published every new row with symbols.
ToldOK ==
  /\ published \subseteq Items
  /\ \A p \in Polls : task[p].pc \in {"logging", "commit"} =>
       \A i \in task[p].new : SymbolsOf(i, task[p].tr[i]) # {} => i \in published

PollInv == RowsOK /\ TasksOK /\ LockOK /\ ToldOK /\ StoredArePublished /\ OnlyManualConflicts

\* What a step of one task must keep when it stores nothing: the lock is held by
\* who works, and the task is not about to insert what is stored.
LEMMA OneMoves ==
  ASSUME PollInv, TasksOK', UNCHANGED rows, published \subseteq published', published' \subseteq Items,
         NEW t \in Ingesters, \A u \in Ingesters \ {t} : task'[u] = task[u],
         pollLock' \in Polls \cup {none},
         t \in Polls => (task'[t].pc \in Working <=> pollLock' = t),
         \A p \in Polls \ {t} : pollLock' = p <=> pollLock = p,
         t \in Polls /\ task'[t].pc \in {"logging", "commit"} =>
           \A i \in task'[t].new : SymbolsOf(i, task'[t].tr[i]) # {} => i \in published',
         t \in Polls /\ task'[t].pc = "insert" => task'[t].cur \notin Stored
  PROVE  PollInv'
<1>1. LockOK'  BY DEF PollInv, LockOK, Ingesters
<1>2. ToldOK'  BY DEF PollInv, ToldOK, Ingesters
<1>3. StoredArePublished' /\ Stored' = Stored  BY DEF PollInv, StoredArePublished, Stored
<1>4. OnlyManualConflicts'  BY <1>3 DEF PollInv, OnlyManualConflicts, Ingesters
<1>5. RowsOK'  BY DEF PollInv, RowsOK
<1> QED  BY <1>1, <1>2, <1>3, <1>4, <1>5 DEF PollInv

LEMMA NoneIsNoPoll == \A p \in Polls : p # none
BY DEF Ingesters

\* The steps of a poll of its own.
LEMMA PollMoves ==
  ASSUME PollInv, NEW p \in Polls, StartPoll(p) \/ PollSteps(p) \/ CancelPoll(p)
  PROVE  PollInv'
<1>0. /\ p \in Ingesters /\ task[p] \in Tasks /\ TaskOK(task[p])
      /\ task \in [Ingesters -> Tasks] /\ p # none
      /\ pollLock \in Polls \cup {none} /\ published \subseteq Items
      /\ task[p].pc \in Working <=> pollLock = p
  BY DEF PollInv, TasksOK, LockOK, ToldOK, Ingesters
<1>1. CASE StartPoll(p)
  <2>1. TasksOK'  BY <1>1, AcquireTask DEF PollInv
  <2>2. /\ task' = [task EXCEPT ![p].pc = "waiting"] /\ task[p].pc = "idle"
        /\ UNCHANGED <<rows, published, pollLock>>
    BY <1>1 DEF StartPoll, eventVars
  <2>3. task'[p].pc = "waiting" /\ \A u \in Ingesters \ {p} : task'[u] = task[u]
    BY <1>0, <2>2 DEF Tasks
  <2> QED  BY <1>0, <2>1, <2>2, <2>3, OneMoves DEF Working
<1>2. CASE Acquire(p)
  <2>1. TasksOK'  BY <1>2, AcquireTask DEF PollInv
  <2>2. pollLock = none /\ pollLock' = p /\ UNCHANGED <<rows, published>>
    BY <1>2 DEF Acquire, eventVars
  <2>5. \A q \in Polls \ {p} : pollLock' = q <=> pollLock = q  BY <2>2, NoneIsNoPoll
  <2>3. task'[p].pc = "fetching" /\ \A u \in Ingesters \ {p} : task'[u] = task[u]
    BY <1>0, <1>2 DEF Acquire, Tasks
  <2> QED  BY <1>0, <2>1, <2>2, <2>3, <2>5, OneMoves DEF Working
<1>3. CASE AcquireDisabled(p)
  <2>1. TasksOK'  BY <1>3, AcquireTask DEF PollInv
  <2>2. pollLock = none /\ pollLock' = p /\ UNCHANGED <<rows, published>>
    BY <1>3 DEF AcquireDisabled, eventVars
  <2>5. \A q \in Polls \ {p} : pollLock' = q <=> pollLock = q  BY <2>2, NoneIsNoPoll
  <2>3. /\ task'[p].pc = "logging" /\ \A u \in Ingesters \ {p} : task'[u] = task[u]
        /\ task'[p].new = task[p].new
    BY <1>0, <1>3 DEF AcquireDisabled, Tasks
  <2>4. task[p].new = {}  BY <1>0, <1>3 DEF AcquireDisabled, TaskOK
  <2> QED  BY <1>0, <2>1, <2>2, <2>3, <2>4, <2>5, OneMoves DEF Working
<1>4. CASE \E s \in Sources : FetchEnds(p, s)
  <2>1. PICK s \in Sources : FetchEnds(p, s)  BY <1>4
  <2>2. TasksOK'  BY <2>1, FetchTask DEF PollInv
  <2>3. UNCHANGED <<rows, published, pollLock>> /\ task[p].pc = "fetching"
    BY <2>1 DEF FetchEnds, eventVars
  <2>4. task'[p].pc = "fetching" /\ \A u \in Ingesters \ {p} : task'[u] = task[u]
    BY <1>0, <2>1 DEF FetchEnds, Fetched, Tasks
  <2> QED  BY <1>0, <2>2, <2>3, <2>4, OneMoves DEF Working
<1>5. CASE TranslateItems(p)
  <2>1. TasksOK'  BY <1>5, TranslateTask DEF PollInv
  <2>2. UNCHANGED <<rows, published, pollLock>> /\ task[p].pc = "fetching"
    BY <1>5 DEF TranslateItems, eventVars
  <2>3. task'[p].pc = "ingest" /\ \A u \in Ingesters \ {p} : task'[u] = task[u]
    <3>1. PICK f \in Translations(task[p].todo, llm) : Prepared(p, f)
      BY <1>5 DEF TranslateItems
    <3> QED  BY <1>0, <3>1 DEF Prepared, Tasks
  <2> QED  BY <1>0, <2>1, <2>2, <2>3, OneMoves DEF Working
<1>6. CASE Publish(p)
  <2> DEFINE events == {i \in task[p].new : SymbolsOf(i, task[p].tr[i]) # {}}
  <2>1. TasksOK'  BY <1>6, PublishTask DEF PollInv
  <2>2. /\ UNCHANGED <<rows, pollLock>> /\ published' = published \cup events
        /\ task[p].pc = "ingest" /\ task' = [task EXCEPT ![p].pc = "logging"]
    BY <1>6 DEF Publish
  <2>3. events \subseteq Items  BY <1>0 DEF Tasks
  <2>4. /\ task'[p].pc = "logging" /\ \A u \in Ingesters \ {p} : task'[u] = task[u]
        /\ task'[p].new = task[p].new /\ task'[p].tr = task[p].tr
    BY <1>0, <2>2 DEF Tasks
  <2>5. \A i \in task'[p].new : SymbolsOf(i, task'[p].tr[i]) # {} => i \in published'
    BY <2>2, <2>4
  <2> HIDE DEF events
  <2> QED  BY <1>0, <2>1, <2>2, <2>3, <2>4, <2>5, OneMoves DEF Working
<1>7. CASE LogAndMeasure(p)
  <2>1. TasksOK'  BY <1>7, PublishTask DEF PollInv
  <2>2. /\ UNCHANGED <<rows, published, pollLock>>
        /\ task[p].pc = "logging" /\ task' = [task EXCEPT ![p].pc = "commit"]
    BY <1>7 DEF LogAndMeasure, eventVars
  <2>3. /\ task'[p].pc = "commit" /\ \A u \in Ingesters \ {p} : task'[u] = task[u]
        /\ task'[p].new = task[p].new /\ task'[p].tr = task[p].tr
    BY <1>0, <2>2 DEF Tasks
  <2>4. \A i \in task[p].new : SymbolsOf(i, task[p].tr[i]) # {} => i \in published
    BY <2>2 DEF PollInv, ToldOK
  <2> QED  BY <1>0, <2>1, <2>2, <2>3, <2>4, OneMoves DEF Working
<1>8. CASE CancelPoll(p)
  <2>1. TasksOK'  BY <1>8, PublishTask DEF PollInv
  <2>2. /\ UNCHANGED <<rows, published>> /\ task' = [task EXCEPT ![p] = IdleTask]
        /\ pollLock' = IF pollLock = p THEN none ELSE pollLock
    BY <1>8 DEF CancelPoll, RolledBack, eventVars
  <2>3. task'[p].pc = "idle" /\ \A u \in Ingesters \ {p} : task'[u] = task[u]
    BY <1>0, <2>2 DEF IdleTask
  <2>4. /\ \A q \in Polls \ {p} : pollLock' = q <=> pollLock = q
        /\ pollLock' # p /\ pollLock' \in Polls \cup {none}
    BY <1>0, <2>2, NoneIsNoPoll
  <2> QED  BY <1>0, <2>1, <2>2, <2>3, <2>4, OneMoves DEF Working
<1> QED
  BY <1>1, <1>2, <1>3, <1>4, <1>5, <1>6, <1>7, <1>8 DEF PollSteps

\* The steps that an ingester takes in the session it is called with: of a poll
\* that looks an article up before another stores it, the other is an operator.
LEMMA IngestMoves ==
  ASSUME PollInv, NEW t \in Ingesters, IngestSteps(t)
  PROVE  PollInv'
<1>0. /\ task[t] \in Tasks /\ TaskOK(task[t])
      /\ task \in [Ingesters -> Tasks]
      /\ pollLock \in Polls \cup {none} /\ published \subseteq Items
      /\ t \in Polls => (task[t].pc \in Working <=> pollLock = t)
      /\ t \notin Polls => t = manual /\ pollLock # t
      /\ t # none
  BY DEF PollInv, TasksOK, LockOK, ToldOK, Ingesters
<1>1. TasksOK'  BY IngestTask DEF PollInv
<1>2. CASE Lookup(t)
  <2>1. UNCHANGED <<rows, published, pollLock>> /\ task[t].pc = "ingest"
    BY <1>2 DEF Lookup, eventVars
  <2>2. PICK i \in task[t].todo :
       task' = IF i \in Stored
                 THEN [task EXCEPT ![t].todo = @ \ {i}]
                 ELSE [task EXCEPT ![t].todo = @ \ {i}, ![t].cur = i, ![t].pc = "insert"]
    BY <1>2 DEF Lookup
  <2>3. /\ \A u \in Ingesters \ {t} : task'[u] = task[u]
        /\ task'[t].pc \in {"ingest", "insert"}
        /\ task'[t].pc = "insert" => task'[t].cur \notin Stored
    BY <1>0, <2>1, <2>2 DEF Tasks
  <2> QED  BY <1>0, <1>1, <2>1, <2>3, OneMoves DEF Working
<1>3. CASE Insert(t)
  <2>1. UNCHANGED <<rows, published, pollLock>> /\ task[t].pc = "insert"
    BY <1>3 DEF Insert, eventVars
  <2>2. task'[t].pc = "ingest" /\ \A u \in Ingesters \ {t} : task'[u] = task[u]
    BY <1>0, <1>3 DEF Insert, Tasks
  <2> QED  BY <1>0, <1>1, <2>1, <2>2, OneMoves DEF Working
<1>4. CASE InsertFails(t)
  <2>1. /\ UNCHANGED <<rows, published>> /\ task' = [task EXCEPT ![t] = IdleTask]
        /\ pollLock' = IF pollLock = t THEN none ELSE pollLock
    BY <1>4 DEF InsertFails, Failed, RolledBack, eventVars
  <2>2. task'[t].pc = "idle" /\ \A u \in Ingesters \ {t} : task'[u] = task[u]
    BY <1>0, <2>1 DEF IdleTask
  <2>3. /\ \A q \in Polls \ {t} : pollLock' = q <=> pollLock = q
        /\ pollLock' # t /\ pollLock' \in Polls \cup {none}
    BY <1>0, <2>1, NoneIsNoPoll
  <2> QED  BY <1>0, <1>1, <2>1, <2>2, <2>3, OneMoves DEF Working
<1>5. CASE Commit(t)
  <2>1. /\ task' = [task EXCEPT ![t] = IdleTask] /\ published' = published
        /\ pollLock' = IF pollLock = t THEN none ELSE pollLock
        /\ rows' = [i \in Items |-> IF i \in task[t].new THEN Row(t, i) ELSE rows[i]]
        /\ task[t].pc = "commit"
    BY <1>5 DEF Commit, RolledBack, eventVars
  <2>2. task'[t].pc = "idle" /\ \A u \in Ingesters \ {t} : task'[u] = task[u]
    BY <1>0, <2>1 DEF IdleTask
  <2>3. RowsOK' /\ Stored \subseteq Stored'  BY <1>5, CommitRows DEF PollInv
  <2>4. LockOK'
    BY <1>0, <2>1, <2>2 DEF PollInv, LockOK, Working, Ingesters
  <2>5. ToldOK'
    BY <2>1, <2>2 DEF PollInv, ToldOK, Ingesters
  <2>6. task[t].new \subseteq Items  BY <1>0 DEF Tasks
  <2>7. StoredArePublished'
    <3> SUFFICES ASSUME NEW i \in Items, rows'[i] # Absent, rows'[i].by = "poll", rows'[i].symbols # {}
                 PROVE  i \in published
      BY <2>1 DEF StoredArePublished, Stored
    <3>1. CASE i \in task[t].new
      <4>1. rows'[i] = Row(t, i)  BY <2>1, <3>1
      <4>2. t \in Polls
        <5>1. t = manual => Row(t, i).by = manual  BY DEF Row
        <5>2. manual # "poll"  BY DEF manual
        <5> QED  BY <1>0, <4>1, <5>1, <5>2
      <4>3. Row(t, i).symbols = SymbolsOf(i, task[t].tr[i])  BY DEF Row
      <4> QED  BY <2>1, <3>1, <4>1, <4>2, <4>3 DEF PollInv, ToldOK
    <3>2. CASE i \notin task[t].new
      BY <2>1, <3>2 DEF PollInv, StoredArePublished, Stored
    <3> QED  BY <3>1, <3>2
  <2>8. OnlyManualConflicts'
    <3> SUFFICES ASSUME NEW p \in Polls, task'[p].pc = "insert", task'[p].cur \in Stored'
                 PROVE  rows'[task'[p].cur].by = manual
      BY DEF OnlyManualConflicts
    <3>1. p # t /\ task'[p] = task[p] /\ pollLock = p
      BY <2>2 DEF PollInv, LockOK, Working, Ingesters
    <3>2. t = manual
      BY <1>0, <2>1, <3>1 DEF Working
    <3>3. task[p].cur \in Items  BY <3>1 DEF Stored
    <3>4. CASE task[p].cur \in task[t].new
      BY <2>1, <3>1, <3>2, <3>3, <3>4 DEF Row
    <3>5. CASE task[p].cur \notin task[t].new
      <4>1. rows'[task[p].cur] = rows[task[p].cur]  BY <2>1, <3>3, <3>5
      <4>2. task[p].cur \in Stored  BY <3>1, <3>3, <4>1 DEF Stored
      <4> QED  BY <3>1, <4>1, <4>2 DEF PollInv, OnlyManualConflicts
    <3> QED  BY <3>4, <3>5
  <2> QED  BY <1>1, <2>3, <2>4, <2>5, <2>7, <2>8 DEF PollInv
<1> QED  BY <1>2, <1>3, <1>4, <1>5 DEF IngestSteps

LEMMA NoMoves ==
  ASSUME PollInv, UNCHANGED <<rows, task, pollLock, published>>
  PROVE  PollInv'
<1>1. TasksOK' /\ RowsOK'  BY DEF PollInv, TasksOK, RowsOK
<1>2. LockOK' /\ ToldOK'  BY DEF PollInv, LockOK, ToldOK
<1>3. StoredArePublished' /\ OnlyManualConflicts'
  BY DEF PollInv, StoredArePublished, OnlyManualConflicts, Stored
<1> QED  BY <1>1, <1>2, <1>3 DEF PollInv

\* An operator's fetch and the record of it.
LEMMA ManualMoves ==
  ASSUME PollInv, RecordManually \/ \E s \in ManualSources : FetchManually(s)
  PROVE  PollInv'
<1>1. TasksOK'  BY ManualTask DEF PollInv
<1>2. UNCHANGED <<rows, published, pollLock>>
  BY DEF RecordManually, FetchManually, eventVars
<1>3. \A u \in Ingesters \ {manual} : task'[u] = task[u]
  <2>1. task \in [Ingesters -> Tasks]  BY DEF PollInv, TasksOK
  <2> QED  BY <2>1 DEF RecordManually, FetchManually
<1>4. manual \in Ingesters /\ manual \notin Polls  BY DEF Ingesters
<1>5. pollLock \in Polls \cup {none} /\ published \subseteq Items
  BY DEF PollInv, LockOK, ToldOK
<1> QED  BY <1>1, <1>2, <1>3, <1>4, <1>5, OneMoves

\* A crash leaves only the rows and what was published.
LEMMA CrashMoves == PollInv /\ Crash => PollInv'
<1> SUFFICES ASSUME PollInv, Crash PROVE PollInv'
  OBVIOUS
<1>1. task' = [t \in Ingesters |-> IdleTask] /\ pollLock' = none /\ UNCHANGED <<rows, published>>
  BY DEF Crash
<1>2. \A t \in Ingesters : task'[t] = IdleTask /\ IdleTask.pc = "idle"
  BY <1>1 DEF IdleTask
<1>3. TasksOK'  BY <1>1, <1>2, IdleOK DEF TasksOK
<1>4. LockOK'  BY <1>1, <1>2, NoneIsNoPoll DEF LockOK, Working, Ingesters
<1>5. ToldOK' /\ OnlyManualConflicts'
  BY <1>1, <1>2 DEF PollInv, ToldOK, OnlyManualConflicts, Ingesters
<1>6. StoredArePublished' /\ RowsOK'
  BY <1>1 DEF PollInv, StoredArePublished, Stored, RowsOK
<1> QED  BY <1>3, <1>4, <1>5, <1>6 DEF PollInv

\* The backfill changes the status of rows, and nothing else of them.
LEMMA FillMoves ==
  ASSUME PollInv, FillsOK, NEW f \in Fills, FillSteps(f)
  PROVE  PollInv'
<1>1. CASE CommitFill(f)
  <2>1. /\ RowsOK' /\ Stored' = Stored
        /\ \A i \in Items : rows'[i].by = rows[i].by /\ rows'[i].symbols = rows[i].symbols
    BY <1>1, FillRows DEF PollInv
  <2>2. UNCHANGED <<task, pollLock, published>>  BY <1>1 DEF CommitFill, eventVars
  <2>3. TasksOK' /\ LockOK' /\ ToldOK'
    BY <2>2 DEF PollInv, TasksOK, LockOK, ToldOK
  <2>4. Stored \subseteq Items  BY DEF Stored
  <2>5. StoredArePublished'
    BY <2>1, <2>2, <2>4 DEF PollInv, StoredArePublished
  <2>6. OnlyManualConflicts'
    BY <2>1, <2>2, <2>4 DEF PollInv, OnlyManualConflicts
  <2> QED  BY <2>1, <2>3, <2>5, <2>6 DEF PollInv
<1>2. CASE ReadBacklog(f) \/ TranslatedRow(f) \/ FlushRow(f) \/ FillLocked(f)
  BY <1>2, NoMoves DEF ReadBacklog, TranslatedRow, FlushRow, FillLocked, eventVars
<1> QED  BY <1>1, <1>2 DEF FillSteps

\* The backfills keep what they have taken while others store rows.
LEMMA FillsKept ==
  ASSUME PollInv, FillsOK, [Next]_vars
  PROVE  FillsOK' /\ Stored \subseteq Stored'
<1>1. CASE \E f \in Fills : FillSteps(f)
  <2>1. PICK f \in Fills : FillSteps(f)  BY <1>1
  <2>2. CASE CommitFill(f)
    BY <2>1, <2>2, FillStep, FillRows DEF PollInv
  <2>3. CASE ReadBacklog(f) \/ TranslatedRow(f) \/ FlushRow(f) \/ FillLocked(f)
    <3>1. UNCHANGED rows  BY <2>3 DEF ReadBacklog, TranslatedRow, FlushRow, FillLocked
    <3> QED  BY <2>1, <3>1, FillStep DEF PollInv, Stored
  <2> QED  BY <2>1, <2>2, <2>3 DEF FillSteps
<1>2. CASE Crash
  <2>1. \A f \in Fills : fill'[f] = IdleFill  BY <1>2 DEF Crash
  <2>2. fill' \in [Fills -> Filling]  BY <1>2, IdleFillOK DEF Crash
  <2> QED  BY <1>2, <2>1, <2>2, IdleFillOK DEF Crash, FillsOK, Stored
<1>3. CASE fill' = fill /\ Stored \subseteq Stored'
  BY <1>3 DEF FillsOK
<1>4. ASSUME NEW t \in Ingesters, IngestSteps(t) PROVE fill' = fill /\ Stored \subseteq Stored'
  <2>1. CASE Commit(t)  BY <2>1, CommitRows DEF Commit, PollInv
  <2>2. CASE Lookup(t) \/ Insert(t) \/ InsertFails(t)
    BY <2>2 DEF Lookup, Insert, InsertFails, Failed, Stored
  <2> QED  BY <1>4, <2>1, <2>2 DEF IngestSteps
<1>5. ASSUME NEW p \in Polls, StartPoll(p) \/ PollSteps(p) \/ CancelPoll(p)
      PROVE  fill' = fill /\ Stored \subseteq Stored'
  <2>1. UNCHANGED <<fill, rows>>
    BY <1>5 DEF StartPoll, PollSteps, CancelPoll, Acquire, AcquireDisabled, FetchEnds,
      TranslateItems, Publish, LogAndMeasure
  <2> QED  BY <2>1 DEF Stored
<1>6. CASE (\E s \in ManualSources : FetchManually(s)) \/ (\E s \in Sources : CooldownEnds(s))
           \/ RecordManually \/ Recheck \/ Change \/ UNCHANGED vars
  <2>1. UNCHANGED <<fill, rows>>
    BY <1>6 DEF FetchManually, CooldownEnds, RecordManually, Recheck, Change, vars
  <2> QED  BY <1>3, <2>1 DEF Stored
<1> QED  BY <1>1, <1>2, <1>3, <1>4, <1>5, <1>6 DEF Next

LEMMA PollInvStep ==
  ASSUME PollInv, FillsOK, [Next]_vars
  PROVE  PollInv'
<1>1. CASE \E p \in Polls : StartPoll(p) \/ PollSteps(p) \/ CancelPoll(p)
  BY <1>1, PollMoves
<1>2. CASE \E t \in Ingesters : IngestSteps(t)
  BY <1>2, IngestMoves
<1>3. CASE RecordManually \/ \E s \in ManualSources : FetchManually(s)
  BY <1>3, ManualMoves
<1>4. CASE \E f \in Fills : FillSteps(f)
  BY <1>4, FillMoves
<1>5. CASE Crash
  BY <1>5, CrashMoves
<1>6. CASE (\E s \in Sources : CooldownEnds(s)) \/ Recheck \/ Change \/ UNCHANGED vars
  BY <1>6, NoMoves DEF CooldownEnds, Recheck, Change, vars, eventVars
<1> QED  BY <1>1, <1>2, <1>3, <1>4, <1>5, <1>6 DEF Next

-----------------------------------------------------------------------------
(* The other variables keep their types.                                    *)

Others ==
  /\ writer \in Ingesters \cup Fills \cup {none}
  /\ fails \in [Sources -> 0..Threshold]
  /\ recent \in [Sources -> BOOLEAN]
  /\ queue \in Seq(Items)
  /\ enabled \in BOOLEAN /\ llm \in BOOLEAN
  /\ spent \in [polls : 0..MaxPolls, manual : 0..MaxManual, changes : 0..MaxChanges]

LEMMA SpentMore ==
  ASSUME Others
  PROVE  LET S == [polls : 0..MaxPolls, manual : 0..MaxManual, changes : 0..MaxChanges]
         IN  /\ spent.polls < MaxPolls => [spent EXCEPT !.polls = @ + 1] \in S
             /\ spent.manual < MaxManual => [spent EXCEPT !.manual = @ + 1] \in S
             /\ spent.changes < MaxChanges => [spent EXCEPT !.changes = @ + 1] \in S
<1>1. /\ spent.polls \in 0..MaxPolls /\ spent.manual \in 0..MaxManual /\ spent.changes \in 0..MaxChanges
      /\ spent \in [polls : 0..MaxPolls, manual : 0..MaxManual, changes : 0..MaxChanges]
  BY DEF Others
<1>2. /\ spent.polls < MaxPolls => spent.polls + 1 \in 0..MaxPolls
      /\ spent.manual < MaxManual => spent.manual + 1 \in 0..MaxManual
      /\ spent.changes < MaxChanges => spent.changes + 1 \in 0..MaxChanges
  BY <1>1
<1> QED  BY <1>1, <1>2

LEMMA SeqOfSet ==
  ASSUME NEW S, IsFiniteSet(S)
  PROVE  SetToSeq(S) \in Seq(S)
<1>1. Cardinality(S) \in Nat /\ ExistsBijection(1 .. Cardinality(S), S)
  BY FS_CardinalityType
<1>2. \E f \in [1 .. Cardinality(S) -> S] : IsInjective(f)
  BY <1>1 DEF ExistsBijection, Bijection, Injection
<1>3. SetToSeq(S) \in [1 .. Cardinality(S) -> S]
  BY <1>2 DEF SetToSeq
<1> QED  BY <1>1, <1>3

LEMMA RecordedTypes ==
  ASSUME Others, NEW res, Recorded(res)
  PROVE  fails' \in [Sources -> 0..Threshold] /\ recent' \in [Sources -> BOOLEAN]
<1>1. ASSUME NEW s \in Sources
      PROVE  (CASE res[s] = none    -> fails[s]
                [] res[s] = "ERROR" -> IF fails[s] < Threshold THEN fails[s] + 1 ELSE fails[s]
                [] OTHER            -> 0) \in 0..Threshold
  <2>1. fails[s] \in 0..Threshold  BY DEF Others
  <2>2. CASE res[s] = none  BY <2>1, <2>2
  <2>3. CASE res[s] # none /\ res[s] = "ERROR"  BY <2>1, <2>3
  <2>4. CASE res[s] # none /\ res[s] # "ERROR"  BY <2>4
  <2> QED  BY <2>2, <2>3, <2>4
<1>2. fails' \in [Sources -> 0..Threshold]
  BY <1>1 DEF Recorded
<1>3. recent' \in [Sources -> BOOLEAN]
  BY DEF Recorded, Others
<1> QED  BY <1>2, <1>3

LEMMA OthersStep ==
  ASSUME PollInv, Others, [Next]_vars
  PROVE  Others'
<1> USE DEF sourceVars, eventVars, confVars
<1>1. ASSUME NEW p \in Polls, StartPoll(p) \/ PollSteps(p) \/ CancelPoll(p) PROVE Others'
  <2>1. CASE StartPoll(p)
    BY <2>1, SpentMore DEF StartPoll, Others
  <2>2. CASE Acquire(p) \/ (\E s \in Sources : FetchEnds(p, s)) \/ TranslateItems(p) \/ LogAndMeasure(p)
    BY <2>2 DEF Acquire, FetchEnds, TranslateItems, LogAndMeasure, Others
  <2>3. CASE AcquireDisabled(p)
    BY <2>3, RecordedTypes DEF AcquireDisabled, Others
  <2>4. CASE Publish(p)
    <3> DEFINE events == {i \in task[p].new : SymbolsOf(i, task[p].tr[i]) # {}}
    <3>1. events \subseteq Items  BY DEF PollInv, TasksOK, Tasks, Ingesters
    <3>2. IsFiniteSet(events)  BY <3>1, FS_Subset
    <3>3. SetToSeq(events) \in Seq(events)  BY <3>2, SeqOfSet
    <3>4. SetToSeq(events) \in Seq(Items)  BY <3>1, <3>3
    <3>5. queue' = queue \o SetToSeq(events) /\ Recorded(task[p].res)
          /\ UNCHANGED <<writer, enabled, llm, spent>>
      BY <2>4 DEF Publish
    <3> HIDE DEF events
    <3>6. queue' \in Seq(Items)  BY <3>4, <3>5 DEF Others
    <3> QED  BY <3>5, <3>6, RecordedTypes DEF Others
  <2>5. CASE CancelPoll(p)
    BY <2>5, SpentMore DEF CancelPoll, RolledBack, Freed, Others
  <2> QED  BY <1>1, <2>1, <2>2, <2>3, <2>4, <2>5 DEF PollSteps
<1>2. ASSUME NEW t \in Ingesters, IngestSteps(t) PROVE Others'
  <2>1. CASE Lookup(t)  BY <2>1 DEF Lookup, Others
  <2>2. CASE Insert(t)  BY <2>2 DEF Insert, Others
  <2>3. CASE InsertFails(t)
    <3>1. writer' \in Ingesters \cup Fills \cup {none}
      BY <2>3 DEF InsertFails, Failed, RolledBack, Freed, Others
    <3>2. fails' \in [Sources -> 0..Threshold] /\ recent' \in [Sources -> BOOLEAN]
      BY <2>3, RecordedTypes DEF InsertFails, Failed, Others
    <3> QED  BY <2>3, <3>1, <3>2 DEF InsertFails, Failed, Others
  <2>4. CASE Commit(t)  BY <2>4 DEF Commit, RolledBack, Freed, Others
  <2> QED  BY <1>2, <2>1, <2>2, <2>3, <2>4 DEF IngestSteps
<1>3. ASSUME NEW s \in ManualSources, FetchManually(s) PROVE Others'
  <2>1. fails' \in [Sources -> 0..Threshold] /\ recent' \in [Sources -> BOOLEAN]
    BY <1>3, RecordedTypes DEF FetchManually, Others
  <2>2. spent' = [spent EXCEPT !.manual = @ + 1] /\ spent.manual < MaxManual
        /\ UNCHANGED <<writer, queue, enabled, llm>>
    BY <1>3 DEF FetchManually
  <2> QED  BY <2>1, <2>2, SpentMore DEF Others
<1>4. CASE RecordManually
  BY <1>4, RecordedTypes DEF RecordManually, Others
<1>5. ASSUME NEW f \in Fills, FillSteps(f) PROVE Others'
  BY <1>5 DEF FillSteps, ReadBacklog, TranslatedRow, FlushRow, FillLocked, CommitFill, Freed,
         Others
<1>6. CASE \E s \in Sources : CooldownEnds(s)
  BY <1>6 DEF CooldownEnds, Others
<1>7. CASE Recheck
  BY <1>7 DEF Recheck, Others
<1>8. CASE Change
  BY <1>8, SpentMore DEF Change, Others
<1>9. CASE Crash
  BY <1>9, SpentMore DEF Crash, Others
<1>10. CASE UNCHANGED vars
  BY <1>10 DEF vars, Others
<1> QED
  BY <1>1, <1>2, <1>3, <1>4, <1>5, <1>6, <1>7, <1>8, <1>9, <1>10 DEF Next

-----------------------------------------------------------------------------
(* The theorems.                                                            *)

Inv == PollInv /\ FillsOK /\ Others

LEMMA InvHolds == Spec => []Inv
<1>1. Init => Inv
  <2> SUFFICES ASSUME Init PROVE Inv
    OBVIOUS
  <2>1. TasksOK /\ \A t \in Ingesters : task[t].pc = "idle"
    <3>1. IdleTask.pc = "idle"  BY DEF IdleTask
    <3> QED  BY <3>1, IdleOK DEF Init, TasksOK
  <2>2. RowsOK /\ Stored = {}  BY DEF Init, RowsOK, Stored
  <2>3. LockOK /\ ToldOK
    BY <2>1, NoneIsNoPoll DEF Init, LockOK, ToldOK, Working, Ingesters
  <2>4. StoredArePublished /\ OnlyManualConflicts
    BY <2>1, <2>2 DEF StoredArePublished, OnlyManualConflicts, Ingesters
  <2>5. FillsOK  BY IdleFillOK DEF Init, FillsOK
  <2>6. Others  BY DEF Init, Others
  <2> QED  BY <2>1, <2>2, <2>3, <2>4, <2>5, <2>6 DEF Inv, PollInv
<1>2. Inv /\ [Next]_vars => Inv'
  BY PollInvStep, FillsKept, OthersStep DEF Inv
<1> QED  BY <1>1, <1>2, PTL DEF Spec

\* For all articles, polls and bounds: the rows, the tasks and the write lock keep
\* their types, and an article that a poll has stored with symbols was published
\* to the agent (poll_sources publishes before the scheduler commits).
THEOREM StoredWasPublished == Spec => []ArticlesSound
<1>1. Inv => ArticlesSound
  BY DEF Inv, PollInv, RowsOK, TasksOK, Rows, Tasks, LockOK, ToldOK, FillsOK, Filling,
         Others, ArticlesSound, TypeOK
<1> QED  BY <1>1, InvHolds, PTL

\* For all articles, polls and bounds: the row that comes between a poll's lookup
\* of a hash and its insert is never one of another poll (_news_poll_lock).
THEOREM PollsExclude == Spec => []OnlyManualConflicts
<1>1. Inv => OnlyManualConflicts  BY DEF Inv, PollInv
<1> QED  BY <1>1, InvHolds, PTL

-----------------------------------------------------------------------------
(***************************************************************************)
(* The other events of the bus, those of the price stream: that no         *)
(* subscription of Realtime is left that no later update would release.    *)
(***************************************************************************)

CONSTANTS Stocks, FirstHeld, Limit, MaxUpsets, MaxQueue

VARIABLES ws, live, subs, prio, op, polling, silent, phase, held, levels, danger,
          dedup, events, bus, upsets

Rt == INSTANCE Realtime WITH queue <- events, spent <- upsets

\* What Realtime assumes of its constants.
Setting ==
  /\ Rt!none \notin Stocks /\ FirstHeld \subseteq Stocks
  /\ Limit \in Nat /\ MaxUpsets \in Nat /\ MaxQueue \in Nat \ {0}

USE DEF Setting

\* What a caller is to remove and to add, and the stock it is at.
Ops == [rem : SUBSET Stocks, add : SUBSET Stocks, cur : Stocks \cup {Rt!none}]

\* A caller does not remove what it adds.
OpsOK ==
  /\ op \in [Rt!Callers -> Ops]
  /\ \A c \in Rt!Callers : op[c].rem \cap op[c].add = {}

\* The agent works on subscriptions only while its handler waits for it.
AgentOK == bus.pc # "subscribe" => op["agent"] = Rt!NoOp

\* What counts against the limit is known to the manager, or a caller is about
\* to remove it.  What a caller is about to add does not count: it may fail.
Released == \A s \in subs \ prio : \E c \in Rt!Callers : op[c].cur = s /\ s \in op[c].rem

\* The connection and what is known of its subscriptions.
Streams ==
  /\ ws \in {Rt!none, "open", "closed"} /\ live \subseteq Stocks
  /\ subs \subseteq Stocks /\ prio \subseteq Stocks

StreamInv == Streams /\ OpsOK /\ AgentOK /\ Released

\* The types of the monitor, the detector and the bus.
MonitorOK ==
  /\ polling \in BOOLEAN /\ silent \in BOOLEAN /\ phase \in Rt!Phases
  /\ held \subseteq Stocks /\ levels \subseteq Stocks /\ danger \subseteq levels
  /\ dedup \subseteq Stocks
  /\ events \in Seq([kind : Rt!Kinds, stock : Stocks]) /\ Len(events) <= MaxQueue + 1
  /\ bus \in [kind : Rt!Kinds, stock : Stocks, pc : {"work", "subscribe"}] \cup {Rt!NoEvent}
  /\ upsets \subseteq {"update", "drop", "phase"}

LEMMA NoOpIs ==
  /\ Rt!NoOp \in Ops
  /\ Rt!NoOp.rem = {} /\ Rt!NoOp.add = {} /\ Rt!NoOp.cur = Rt!none
BY DEF Rt!NoOp, Ops

\* A price adds at most two events, of stocks.
LEMMA DetectTypes ==
  ASSUME Setting, MonitorOK, NEW s \in Stocks, Rt!Detect(s)
  PROVE  /\ events' \in Seq([kind : Rt!Kinds, stock : Stocks]) /\ Len(events') <= MaxQueue + 1
         /\ dedup' \subseteq Stocks
<1> DEFINE E == [kind : Rt!Kinds, stock : Stocks]
<1>1. Rt!Event("market", s) \in E /\ Rt!Event("exit", s) \in E
  BY DEF Rt!Event, Rt!Kinds
<1>2. \A moved \in BOOLEAN : Rt!Events(s, moved) \in Seq(E) /\ Len(Rt!Events(s, moved)) <= 2
  <2> SUFFICES ASSUME NEW moved \in BOOLEAN
               PROVE  Rt!Events(s, moved) \in Seq(E) /\ Len(Rt!Events(s, moved)) <= 2
    OBVIOUS
  <2> HIDE DEF E
  <2> DEFINE a == IF moved THEN <<Rt!Event("market", s)>> ELSE <<>>
             b == IF Rt!InDanger(s) /\ s \notin dedup THEN <<Rt!Event("exit", s)>> ELSE <<>>
  <2>1. a \in Seq(E) /\ Len(a) <= 1 /\ Len(a) \in Nat  BY <1>1
  <2>2. b \in Seq(E) /\ Len(b) <= 1 /\ Len(b) \in Nat  BY <1>1
  <2>3. Rt!Events(s, moved) = a \o b  BY DEF Rt!Events
  <2> HIDE DEF a, b
  <2> QED  BY <2>1, <2>2, <2>3
<1>3. events \in Seq(E) /\ Len(events) \in Nat  BY DEF MonitorOK
<1>4. Len(events) < MaxQueue  BY DEF Rt!Detect
<1> HIDE DEF E
<1>5. CASE phase = "auto"
  <2>1. PICK moved \in BOOLEAN : events' = events \o Rt!Events(s, moved)
                                 /\ dedup' = IF Rt!InDanger(s) THEN dedup \cup {s} ELSE dedup
    BY <1>5 DEF Rt!Detect
  <2>2. Rt!Events(s, moved) \in Seq(E) /\ Len(Rt!Events(s, moved)) <= 2  BY <1>2
  <2>3. events' \in Seq(E) /\ Len(events') = Len(events) + Len(Rt!Events(s, moved))
    BY <1>3, <2>1, <2>2
  <2>4. Len(events') <= MaxQueue + 1
    <3>1. Len(Rt!Events(s, moved)) \in Nat  BY <2>2
    <3> QED  BY <1>3, <1>4, <2>2, <2>3, <3>1
  <2> QED  BY <2>1, <2>3, <2>4 DEF MonitorOK, E
<1>6. CASE phase # "auto"
  BY <1>6 DEF Rt!Detect, MonitorOK
<1> QED  BY <1>5, <1>6

LEMMA MonitorStep ==
  ASSUME Setting, MonitorOK, [Rt!Next]_(Rt!vars)
  PROVE  MonitorOK'
<1> USE DEF Rt!streamVars, Rt!monitorVars, Rt!marketVars, Rt!busVars
<1>1. ASSUME NEW new \in SUBSET Stocks, Rt!UpdateSubscriptions(new) PROVE MonitorOK'
  BY <1>1 DEF Rt!UpdateSubscriptions, MonitorOK
<1>2. ASSUME NEW c \in Rt!Callers, Rt!OpSteps(c) PROVE MonitorOK'
  BY <1>2 DEF Rt!OpSteps, Rt!BeginUnsubscribe, Rt!BeginSubscribe, Rt!EndUnsubscribe,
         Rt!EndSubscribe, MonitorOK
<1>3. CASE Rt!Drop \/ Rt!GoSilent \/ Rt!HealthCheck \/ Rt!ChangePhase
  BY <1>3 DEF Rt!Drop, Rt!GoSilent, Rt!HealthCheck, Rt!ChangePhase, MonitorOK
<1>4. ASSUME NEW s \in Stocks, Rt!Tick(s) \/ Rt!PolledPrice(s) PROVE MonitorOK'
  BY <1>4, DetectTypes DEF Rt!Tick, Rt!PolledPrice, MonitorOK
<1>5. ASSUME NEW s \in Stocks, Rt!DedupEnds(s) \/ Rt!Move(s) PROVE MonitorOK'
  BY <1>5 DEF Rt!DedupEnds, Rt!Move, MonitorOK
<1>6. CASE Rt!Dispatch
  <2>1. events \in Seq([kind : Rt!Kinds, stock : Stocks]) /\ events # <<>> /\ Len(events) <= MaxQueue + 1
    BY <1>6 DEF Rt!Dispatch, MonitorOK
  <2>2. Head(events) \in [kind : Rt!Kinds, stock : Stocks]
        /\ Tail(events) \in Seq([kind : Rt!Kinds, stock : Stocks]) /\ Len(Tail(events)) <= MaxQueue + 1
    <3> DEFINE E == [kind : Rt!Kinds, stock : Stocks]
    <3>1. events \in Seq(E) /\ events # <<>>  BY <2>1
    <3> HIDE DEF E
    <3>2. Head(events) \in E /\ Tail(events) \in Seq(E)  BY <3>1
    <3>3. Len(Tail(events)) = Len(events) - 1 /\ Len(events) \in Nat  BY <3>1
    <3>4. Len(Tail(events)) <= MaxQueue + 1  BY <2>1, <3>3
    <3> QED  BY <3>2, <3>4 DEF E
  <2>3. bus' \in [kind : Rt!Kinds, stock : Stocks, pc : {"work", "subscribe"}] \cup {Rt!NoEvent}
    BY <1>6, <2>2 DEF Rt!Dispatch
  <2> QED  BY <1>6, <2>2, <2>3 DEF Rt!Dispatch, MonitorOK
<1>7. CASE Rt!AnalyseEnds
  <2>1. bus \in [kind : Rt!Kinds, stock : Stocks, pc : {"work", "subscribe"}]
    BY <1>7 DEF Rt!AnalyseEnds, MonitorOK, Rt!NoEvent
  <2>2. bus' \in [kind : Rt!Kinds, stock : Stocks, pc : {"work", "subscribe"}] \cup {Rt!NoEvent}
    BY <1>7, <2>1 DEF Rt!AnalyseEnds
  <2>3. held' \subseteq Stocks /\ levels' \subseteq Stocks /\ levels \subseteq levels'
    BY <1>7, <2>1 DEF Rt!AnalyseEnds, MonitorOK
  <2> QED  BY <1>7, <2>2, <2>3 DEF Rt!AnalyseEnds, MonitorOK
<1>8. CASE Rt!SubscribeEnds
  BY <1>8 DEF Rt!SubscribeEnds, MonitorOK
<1>9. CASE Rt!ExitEnds
  BY <1>9 DEF Rt!ExitEnds, MonitorOK
<1>10. CASE UNCHANGED Rt!vars
  BY <1>10 DEF Rt!vars, MonitorOK
<1> QED
  BY <1>1, <1>2, <1>3, <1>4, <1>5, <1>6, <1>7, <1>8, <1>9, <1>10 DEF Rt!Next, Rt!BusSteps

\* One caller's work goes on; what it gives up of its own is released, and what
\* the manager forgets it is about to remove.
LEMMA OneOp ==
  ASSUME Setting, StreamInv, Streams', NEW c \in Rt!Callers, NEW x \in Ops, x.rem \cap x.add = {},
         op' = [op EXCEPT ![c] = x],
         c = "agent" /\ bus'.pc # "subscribe" => x = Rt!NoOp,
         c # "agent" => bus' = bus,
         \A s \in subs' \ prio' :
           \/ s = x.cur /\ s \in x.rem
           \/ s \in subs \ prio /\ ~(s = op[c].cur /\ s \in op[c].rem)
  PROVE  StreamInv'
<1>1. op'[c] = x /\ \A d \in Rt!Callers \ {c} : op'[d] = op[d]
  BY DEF StreamInv, OpsOK
<1>2. OpsOK'
  BY <1>1 DEF StreamInv, OpsOK
<1>3. AgentOK'
  BY <1>1 DEF StreamInv, AgentOK, Rt!Callers
<1>4. Released'
  <2> SUFFICES ASSUME NEW s \in subs' \ prio'
               PROVE  \E d \in Rt!Callers : op'[d].cur = s /\ s \in op'[d].rem
    BY DEF Released
  <2>1. CASE s = x.cur /\ s \in x.rem
    BY <1>1, <2>1
  <2>2. CASE s \in subs \ prio /\ ~(s = op[c].cur /\ s \in op[c].rem)
    <3>1. PICK d \in Rt!Callers : op[d].cur = s /\ s \in op[d].rem
      BY <2>2 DEF StreamInv, Released
    <3>2. d # c  BY <2>2, <3>1
    <3> QED  BY <1>1, <3>1, <3>2
  <2> QED  BY <2>1, <2>2
<1> QED  BY <1>2, <1>3, <1>4 DEF StreamInv

\* The subscription work of one caller.
LEMMA OpInv ==
  ASSUME Setting, StreamInv, NEW c \in Rt!Callers, Rt!OpSteps(c)
  PROVE  StreamInv'
<1>0. op[c] \in Ops /\ op[c].rem \cap op[c].add = {} /\ Streams /\ op \in [Rt!Callers -> Ops]
  BY DEF StreamInv, OpsOK
<1>1. op[c] # Rt!NoOp
  BY <1>0, NoOpIs DEF Rt!OpSteps, Rt!BeginUnsubscribe, Rt!BeginSubscribe, Rt!EndUnsubscribe,
         Rt!EndSubscribe
<1>2. bus' = bus
  BY DEF Rt!OpSteps, Rt!BeginUnsubscribe, Rt!BeginSubscribe, Rt!EndUnsubscribe, Rt!EndSubscribe,
         Rt!busVars
<1>3. c = "agent" => bus'.pc = "subscribe"
  BY <1>1, <1>2 DEF StreamInv, AgentOK
<1>4. ASSUME NEW s \in Stocks, Rt!BeginUnsubscribe(c, s) PROVE StreamInv'
  <2>1. /\ op[c].cur = Rt!none /\ s \in op[c].rem /\ prio' = prio \ {s}
        /\ op' = IF s \in subs THEN [op EXCEPT ![c].cur = s] ELSE [op EXCEPT ![c].rem = @ \ {s}]
        /\ UNCHANGED <<ws, live, subs>>
    BY <1>4 DEF Rt!BeginUnsubscribe
  <2>2. Streams'  BY <1>0, <2>1 DEF Streams
  <2>3. CASE s \in subs
    <3> DEFINE x == [op[c] EXCEPT !.cur = s]
    <3>1. op' = [op EXCEPT ![c] = x]  BY <2>1, <2>3
    <3>2. x \in Ops /\ x.rem = op[c].rem /\ x.add = op[c].add /\ x.cur = s
      BY <1>0 DEF Ops
    <3> HIDE DEF x
    <3>3. \A t \in subs' \ prio' :
           \/ t = x.cur /\ t \in x.rem
           \/ t \in subs \ prio /\ ~(t = op[c].cur /\ t \in op[c].rem)
      BY <1>0, <2>1, <3>2 DEF Streams
    <3> QED  BY <1>0, <1>2, <1>3, <2>2, <3>1, <3>2, <3>3, OneOp
  <2>4. CASE s \notin subs
    <3> DEFINE x == [op[c] EXCEPT !.rem = @ \ {s}]
    <3>1. op' = [op EXCEPT ![c] = x]  BY <2>1, <2>4
    <3>2. x \in Ops /\ x.rem = op[c].rem \ {s} /\ x.add = op[c].add /\ x.cur = op[c].cur
      BY <1>0 DEF Ops
    <3> HIDE DEF x
    <3>3. \A t \in subs' \ prio' :
           t \in subs \ prio /\ ~(t = op[c].cur /\ t \in op[c].rem)
      BY <1>0, <2>1, <2>4 DEF Streams
    <3> QED  BY <1>0, <1>2, <1>3, <2>2, <3>1, <3>2, <3>3, OneOp
  <2> QED  BY <2>3, <2>4
<1>5. ASSUME NEW s \in Stocks, Rt!BeginSubscribe(c, s) PROVE StreamInv'
  <2>1. /\ op[c].cur = Rt!none /\ op[c].rem = {} /\ s \in op[c].add
        /\ UNCHANGED <<ws, live, subs>>
        /\ prio' \in {prio, prio \cup {s}}
        /\ \/ op' = [op EXCEPT ![c].add = {}]
           \/ op' = [op EXCEPT ![c].add = @ \ {s}]
           \/ op' = [op EXCEPT ![c].cur = s]
    BY <1>5 DEF Rt!BeginSubscribe
  <2>2. Streams'  BY <1>0, <2>1 DEF Streams
  <2> DEFINE x == op'[c]
  <2>3. op' = [op EXCEPT ![c] = x]  BY <1>0, <2>1
  <2>4. x \in Ops /\ x.rem = {}  BY <1>0, <2>1 DEF Ops
  <2>5. \A t \in subs' \ prio' :
           t \in subs \ prio /\ ~(t = op[c].cur /\ t \in op[c].rem)
    BY <2>1
  <2> HIDE DEF x
  <2> QED  BY <1>0, <1>2, <1>3, <2>2, <2>3, <2>4, <2>5, OneOp
<1>6. CASE Rt!EndUnsubscribe(c)
  <2> DEFINE s == op[c].cur
             x == [op[c] EXCEPT !.rem = @ \ {s}, !.cur = Rt!none]
  <2>1. /\ s # Rt!none /\ s \in op[c].rem /\ op' = [op EXCEPT ![c] = x]
        /\ subs' = subs \ {s} /\ prio' = prio
        /\ ws' \in {ws, "open"} /\ live' \subseteq live
    BY <1>6 DEF Rt!EndUnsubscribe, Rt!Reached, Rt!LiveNow
  <2>2. Streams'  BY <1>0, <2>1 DEF Streams
  <2>3. x \in Ops /\ x.rem = op[c].rem \ {s} /\ x.add = op[c].add  BY <1>0 DEF Ops
  <2>4. \A t \in subs' \ prio' :
           t \in subs \ prio /\ ~(t = op[c].cur /\ t \in op[c].rem)
    BY <2>1
  <2> HIDE DEF x, s
  <2> QED  BY <1>0, <1>2, <1>3, <2>1, <2>2, <2>3, <2>4, OneOp
<1>7. CASE Rt!EndSubscribe(c)
  <2> DEFINE s == op[c].cur
             x == [op[c] EXCEPT !.add = @ \ {s}, !.cur = Rt!none]
  <2>1. /\ s # Rt!none /\ s \in op[c].add /\ op' = [op EXCEPT ![c] = x]
        /\ \/ subs' = subs \cup {s} /\ prio' = prio \cup {s}
           \/ subs' = subs /\ prio' = prio
        /\ ws' \in {ws, "open"} /\ live' \subseteq live \cup {s}
    BY <1>7 DEF Rt!EndSubscribe, Rt!Reached, Rt!LiveNow
  <2>2. s \in Stocks  BY <1>0, <2>1 DEF Ops
  <2>3. Streams'  BY <1>0, <2>1, <2>2 DEF Streams
  <2>4. x \in Ops /\ x.rem = op[c].rem /\ x.add = op[c].add \ {s}  BY <1>0 DEF Ops
  <2>5. s \notin op[c].rem  BY <1>0, <2>1
  <2>6. \A t \in subs' \ prio' :
           t \in subs \ prio /\ ~(t = op[c].cur /\ t \in op[c].rem)
    BY <2>1, <2>5
  <2> HIDE DEF x, s
  <2> QED  BY <1>0, <1>2, <1>3, <2>1, <2>3, <2>4, <2>6, OneOp
<1> QED  BY <1>4, <1>5, <1>6, <1>7 DEF Rt!OpSteps

\* The steps that leave the subscriptions and the agent's work alone.
LEMMA StreamKept ==
  ASSUME Setting, StreamInv, UNCHANGED <<subs, prio, op>>, ws' \in {ws, "closed"},
         live' \subseteq live,
         bus.pc = "subscribe" => bus'.pc = "subscribe"
  PROVE  StreamInv'
BY DEF StreamInv, Streams, OpsOK, AgentOK, Released

LEMMA StreamStep ==
  ASSUME Setting, StreamInv, MonitorOK, [Rt!Next]_(Rt!vars)
  PROVE  StreamInv'
<1> USE DEF Rt!streamVars, Rt!monitorVars, Rt!marketVars, Rt!busVars
<1>1. ASSUME NEW new \in SUBSET Stocks, Rt!UpdateSubscriptions(new) PROVE StreamInv'
  <2> DEFINE x == [Rt!NoOp EXCEPT !.rem = prio \ new, !.add = new \ prio]
  <2>1. op["scheduler"] = Rt!NoOp /\ op' = [op EXCEPT !["scheduler"] = x]
        /\ UNCHANGED <<ws, live, subs, prio, bus>>
    BY <1>1 DEF Rt!UpdateSubscriptions, Rt!Working
  <2>2. x \in Ops /\ x.rem \cap x.add = {}
    BY DEF Rt!NoOp, Ops, StreamInv, Streams
  <2>3. "scheduler" \in Rt!Callers /\ Streams' /\ "scheduler" # "agent"
    BY <2>1 DEF Rt!Callers, StreamInv, Streams
  <2>4. \A t \in subs' \ prio' :
           t \in subs \ prio /\ ~(t = op["scheduler"].cur /\ t \in op["scheduler"].rem)
    BY <2>1, NoOpIs
  <2> HIDE DEF x
  <2> QED  BY <2>1, <2>2, <2>3, <2>4, OneOp
<1>2. ASSUME NEW c \in Rt!Callers, Rt!OpSteps(c) PROVE StreamInv'
  BY <1>2, OpInv
<1>3. CASE Rt!Drop \/ Rt!GoSilent \/ Rt!HealthCheck \/ Rt!ChangePhase
  BY <1>3, StreamKept DEF Rt!Drop, Rt!GoSilent, Rt!HealthCheck, Rt!ChangePhase
<1>4. ASSUME NEW s \in Stocks, Rt!Tick(s) \/ Rt!PolledPrice(s) \/ Rt!DedupEnds(s) \/ Rt!Move(s)
      PROVE  StreamInv'
  BY <1>4, StreamKept DEF Rt!Tick, Rt!PolledPrice, Rt!DedupEnds, Rt!Move
<1>5. CASE Rt!Dispatch
  BY <1>5, StreamKept DEF Rt!Dispatch
<1>6. CASE Rt!AnalyseEnds
  <2>1. CASE bus' = Rt!NoEvent /\ UNCHANGED op
    BY <1>6, <2>1, StreamKept DEF Rt!AnalyseEnds
  <2>2. CASE op' = [op EXCEPT !["agent"] = [Rt!NoOp EXCEPT !.add = {bus.stock}]]
             /\ bus' = [bus EXCEPT !.pc = "subscribe"]
    <3> DEFINE x == [Rt!NoOp EXCEPT !.add = {bus.stock}]
    <3>1. bus \in [kind : Rt!Kinds, stock : Stocks, pc : {"work", "subscribe"}] /\ bus.pc = "work"
      BY <1>6 DEF Rt!AnalyseEnds, MonitorOK, Rt!NoEvent
    <3>2. op["agent"] = Rt!NoOp /\ bus'.pc = "subscribe" /\ op' = [op EXCEPT !["agent"] = x]
      BY <2>2, <3>1 DEF StreamInv, AgentOK
    <3>3. x \in Ops /\ x.rem \cap x.add = {}
      BY <3>1 DEF Rt!NoOp, Ops
    <3>4. UNCHANGED <<ws, live, subs, prio>> /\ "agent" \in Rt!Callers
      BY <1>6 DEF Rt!AnalyseEnds, Rt!Callers
    <3>5. Streams'  BY <3>4 DEF StreamInv, Streams
    <3>6. \A t \in subs' \ prio' :
            t \in subs \ prio /\ ~(t = op["agent"].cur /\ t \in op["agent"].rem)
      BY <3>2, <3>4, NoOpIs
    <3> HIDE DEF x
    <3> QED  BY <3>2, <3>3, <3>4, <3>5, <3>6, OneOp
  <2> QED  BY <1>6, <2>1, <2>2 DEF Rt!AnalyseEnds
<1>7. CASE Rt!SubscribeEnds
  <2>1. op["agent"] = Rt!NoOp /\ UNCHANGED <<ws, live, subs, prio, op>>
    BY <1>7 DEF Rt!SubscribeEnds, Rt!Working
  <2> QED  BY <2>1 DEF StreamInv, Streams, OpsOK, AgentOK, Released
<1>8. CASE Rt!ExitEnds
  BY <1>8, StreamKept DEF Rt!ExitEnds
<1>9. CASE UNCHANGED Rt!vars
  BY <1>9, StreamKept DEF Rt!vars
<1> QED
  BY <1>1, <1>2, <1>3, <1>4, <1>5, <1>6, <1>7, <1>8, <1>9 DEF Rt!Next, Rt!BusSteps

\* For all stocks, updates and losses of the connection, the scheduler and the
\* agent working at once: a subscription that counts against the broker's limit
\* is known to the manager, or is just being removed (StreamManager).
THEOREM NoneForgotten == ASSUME Setting PROVE Rt!Spec => []Rt!SubscriptionsSound
<1>1. Rt!Init => StreamInv /\ MonitorOK
  <2> SUFFICES ASSUME Rt!Init PROVE StreamInv /\ MonitorOK
    OBVIOUS
  <2>1. StreamInv
    BY NoOpIs DEF Rt!Init, StreamInv, Streams, OpsOK, AgentOK, Released, Rt!Callers
  <2>2. events \in Seq([kind : Rt!Kinds, stock : Stocks]) /\ Len(events) <= MaxQueue + 1
    BY DEF Rt!Init
  <2>3. MonitorOK
    BY <2>2 DEF Rt!Init, MonitorOK, Rt!Phases
  <2> QED  BY <2>1, <2>3
<1>2. StreamInv /\ MonitorOK /\ [Rt!Next]_(Rt!vars) => (StreamInv /\ MonitorOK)'
  BY StreamStep, MonitorStep
<1>3. StreamInv /\ MonitorOK => Rt!SubscriptionsSound
  BY DEF StreamInv, Streams, OpsOK, Ops, MonitorOK, Released, Rt!SubscriptionsSound, Rt!TypeOK,
         Rt!NothingForgotten
<1> QED  BY <1>1, <1>2, <1>3, PTL DEF Rt!Spec

=============================================================================
