----------------------------- MODULE FundRefresh -----------------------------
(***************************************************************************)
(* RefreshCoordinator.refresh_funds (src/irma/services/data_refresh.py):   *)
(* the refresh that API threads, the scheduler and the CLI run against one *)
(* database.  A job is one such caller; a process has one _refresh_lock.   *)
(* The database is PostgreSQL at READ COMMITTED: a query sees what others  *)
(* committed and what its own session flushed, the first flush takes the   *)
(* lock of the data_sources row and keeps it until commit or rollback.     *)
(* A fund is its external_id; the further lookups by symbol and by name,   *)
(* for records whose external_id is new (l.118-126), are left out.         *)
(***************************************************************************)
EXTENDS Naturals, Sequences, FiniteSets

CONSTANTS
    Jobs,          \* callers of refresh_funds
    Processes,     \* operating-system processes they run in
    ProcessOf,     \* the process of each job
    NoJob,         \* nobody holds the data_sources row
    Funds,         \* external_ids, numbers so that they can be sorted
    Dates,         \* observation dates
    Catalogues,    \* what provider.fetch may return
    Histories,     \* the dates provider.fetch_nav_history may return, in order
    HasHistory,    \* isinstance(provider, HistoricalFundProvider)
    HistoryLimit,  \* history_limit, or NoLimit for None
    NoLimit,
    Autoflush,     \* the session's autoflush option
    MaxRetries,    \* RefreshCoordinator.max_retries
    Failures,      \* the kinds of failure that may happen
    MaxRuns,       \* bound: no refresh is started once so many runs exist
    MaxFailures    \* bound: number of failures

FailureKinds == {"start", "step", "report", "crash"}
CatalogueRecord ==
    [fund: Funds, date: Dates, nav: BOOLEAN, market: BOOLEAN, active: BOOLEAN]

ASSUME JobsAssumption ==
    /\ NoJob \notin Jobs
    /\ ProcessOf \in [Jobs -> Processes]
ASSUME DataAssumption ==
    /\ Funds \subseteq Nat
    /\ Catalogues \subseteq Seq(CatalogueRecord)
    /\ Histories \subseteq Seq(Dates)
    /\ NoLimit \notin Nat
    /\ HistoryLimit \in Nat \cup {NoLimit}
    /\ HasHistory \in BOOLEAN
    /\ Autoflush \in BOOLEAN
    /\ MaxRetries \in Nat
ASSUME BoundsAssumption ==
    /\ Failures \subseteq FailureKinds
    /\ MaxRuns \in Nat
    /\ MaxFailures \in Nat

VARIABLES
    lock,      \* _refresh_lock of each process: TRUE when taken
    holder,    \* the job whose transaction holds the data_sources row
    runs,      \* data_ingestion_runs, committed: status and records_written
    rows,      \* fund_nav_history and fund_market_history, committed
    known,     \* external_ids in funds, committed
    metrics,   \* fund_metrics, committed: the rows each fund's were computed from
    source,    \* the data_sources row, committed
    pc,        \* where each job is
    run,       \* the id of the job's ingestion run
    attempt,   \* failed attempts of the current fetch
    records,   \* the catalogue the job fetched
    next,      \* index of the record being upserted
    txn,       \* the job's session: what it read and has not committed
    plan,      \* the history phase: records left and how many of them may go
    answer,    \* what the job's last call returned
    failures,  \* failures so far
    lost       \* history: the runs whose process was killed before they ended, and
               \* those whose failure could not be written to their row

database == <<runs, rows, known, metrics, source>>
vars == <<lock, holder, database, pc, run, attempt, records, next, txn, plan,
          answer, failures, lost>>

(***************************************************************************)
(* State.                                                                  *)
(***************************************************************************)
\* A row of fund_nav_history or fund_market_history.  "from" is 0 for a row of
\* the catalogue phase and the position in the fetched history otherwise.
Row == [table: {"nav", "market"}, fund: Funds, date: Dates, run: Nat, from: Nat]
IngestionRun == [status: {"running", "success", "error"}, written: Nat]
SameObservation(r, s) ==
    r.table = s.table /\ r.fund = s.fund /\ r.date = s.date

NoMetrics == [f \in Funds |-> {}]
NoTxn == [count |-> 0, found |-> {}, flushed |-> {}, pending |-> {},
          funds |-> {}, metrics |-> NoMetrics]
NoPlan == [todo |-> {}, budget |-> 0, counted |-> {}]

\* count: source.record_count as this session holds it; found: the record's fund
\* if it was there when it was looked up; flushed and pending: the rows
\* this session added, sent to the database or not; funds, metrics: its other
\* flushed writes.
Txn == [count: Nat, found: SUBSET Funds, flushed: SUBSET Row, pending: SUBSET Row,
        funds: SUBSET Funds, metrics: [Funds -> SUBSET Row]]
\* counted: the rows the history counts were taken over.
Plan == [todo: SUBSET Nat, budget: Nat, counted: SUBSET Row]

\* The locations between session.commit of the run row and the commit or
\* rollback that ends the transaction.
InTry == {"fetch", "source", "insert", "find", "upsert", "plan", "history", "commit"}
Located == {"idle", "start", "rollback", "report", "release"} \cup InTry

TypeOK ==
    /\ lock \in [Processes -> BOOLEAN]
    /\ holder \in Jobs \cup {NoJob}
    /\ runs \in Seq(IngestionRun)
    /\ rows \subseteq Row
    /\ known \subseteq Funds
    /\ metrics \in [Funds -> SUBSET Row]
    /\ source \in [exists: BOOLEAN, count: Nat]
    /\ pc \in [Jobs -> Located]
    /\ run \in [Jobs -> Nat]
    /\ attempt \in [Jobs -> Nat]
    /\ records \in [Jobs -> Seq(CatalogueRecord)]
    /\ next \in [Jobs -> Nat]
    /\ txn \in [Jobs -> Txn]
    /\ plan \in [Jobs -> Plan]
    /\ answer \in [Jobs -> {"none", "refused", "success", "error"}]
    /\ failures \in Nat
    /\ lost \subseteq Nat

\* The source row may be there already, made by a file of another dataset with
\* the same source name; record_count is counted from then.
Init ==
    /\ lock = [p \in Processes |-> FALSE]
    /\ holder = NoJob
    /\ runs = <<>>
    /\ rows = {}
    /\ known = {}
    /\ metrics = NoMetrics
    /\ source \in [exists: BOOLEAN, count: {0}]
    /\ pc = [j \in Jobs |-> "idle"]
    /\ run = [j \in Jobs |-> 0]
    /\ attempt = [j \in Jobs |-> 0]
    /\ records = [j \in Jobs |-> <<>>]
    /\ next = [j \in Jobs |-> 1]
    /\ txn = [j \in Jobs |-> NoTxn]
    /\ plan = [j \in Jobs |-> NoPlan]
    /\ answer = [j \in Jobs |-> "none"]
    /\ failures = 0
    /\ lost = {}

Goto(j, l) == pc' = [pc EXCEPT ![j] = l]
Fail(kind) ==
    /\ kind \in Failures
    /\ failures < MaxFailures
    /\ failures' = failures + 1

(***************************************************************************)
(* Queries of a session.                                                   *)
(***************************************************************************)
Visible(j) ==
    rows \cup txn[j].flushed \cup (IF Autoflush THEN txn[j].pending ELSE {})
Mine(j) == txn[j].flushed \cup txn[j].pending
Recorded(seen, t, f, d) == \E r \in seen : r.table = t /\ r.fund = f /\ r.date = d
NavOf(seen, f) == {r \in seen : r.table = "nav" /\ r.fund = f}

(***************************************************************************)
(* The lock and the run row (l.84-88).                                     *)
(***************************************************************************)
\* Mutant of Available: the result of acquire(blocking=False) is ignored.
Available_Ignored(j) == TRUE
Available(j) == ~lock[ProcessOf[j]]

Acquire(j) ==
    /\ pc[j] = "idle"
    /\ Len(runs) < MaxRuns
    /\ Available(j)
    /\ lock' = [lock EXCEPT ![ProcessOf[j]] = TRUE]
    /\ Goto(j, "start")
    /\ answer' = [answer EXCEPT ![j] = "none"]
    /\ UNCHANGED <<holder, database, run, attempt, records, next, txn, plan, failures, lost>>

\* RefreshAlreadyRunningError: the API answers 409.
RefuseOverlap(j) ==
    /\ pc[j] = "idle"
    /\ ~Available(j)
    /\ answer' = [answer EXCEPT ![j] = "refused"]
    /\ UNCHANGED <<lock, holder, database, pc, run, attempt, records, next, txn,
                   plan, failures, lost>>

StartRun(j) ==
    /\ pc[j] = "start"
    /\ runs' = Append(runs, [status |-> "running", written |-> 0])
    /\ run' = [run EXCEPT ![j] = Len(runs) + 1]
    /\ Goto(j, "fetch")
    /\ UNCHANGED <<lock, holder, rows, known, metrics, source, attempt, records,
                   next, txn, plan, answer, failures, lost>>

\* The insert or its commit raises before the try block is entered.
StartRunFails(j) ==
    /\ pc[j] = "start"
    /\ Fail("start")
    /\ Goto(j, "idle")
    /\ answer' = [answer EXCEPT ![j] = "error"]
    /\ UNCHANGED <<lock, holder, database, run, attempt, records, next, txn, plan, lost>>

(***************************************************************************)
(* fetch_with_retry (l.51-61, l.90).                                       *)
(***************************************************************************)
AfterCatalogue == IF HasHistory /\ HistoryLimit # 0 THEN "plan" ELSE "commit"

FetchOk(j) ==
    /\ pc[j] = "fetch"
    /\ \E c \in Catalogues :
          /\ records' = [records EXCEPT ![j] = c]
          /\ Goto(j, IF c = <<>> THEN AfterCatalogue ELSE "source")
    /\ attempt' = [attempt EXCEPT ![j] = 0]
    /\ UNCHANGED <<lock, holder, database, run, next, txn, plan, answer, failures, lost>>

\* Mutant of FetchRetry: a loop without a last attempt (the counter wraps, to
\* stay finite).
FetchRetry_Endless(j) ==
    /\ pc[j] = "fetch"
    /\ attempt' = [attempt EXCEPT ![j] = IF @ < MaxRetries THEN @ + 1 ELSE 0]
    /\ UNCHANGED <<lock, holder, database, pc, run, records, next, txn, plan,
                   answer, failures, lost>>
FetchRetry(j) ==
    /\ pc[j] = "fetch"
    /\ attempt[j] < MaxRetries
    /\ attempt' = [attempt EXCEPT ![j] = @ + 1]
    /\ UNCHANGED <<lock, holder, database, pc, run, records, next, txn, plan,
                   answer, failures, lost>>

\* The last attempt failed, or the error is of a class that is not retried.
FetchGivesUp(j) ==
    /\ pc[j] = "fetch"
    /\ attempt' = [attempt EXCEPT ![j] = 0]
    /\ Goto(j, "rollback")
    /\ UNCHANGED <<lock, holder, database, run, records, next, txn, plan, answer,
                   failures, lost>>

(***************************************************************************)
(* The catalogue phase: one record at a time (l.95-198).                   *)
(***************************************************************************)
\* The first record loads the source; later ones get the same session object.
LoadSource(j) ==
    /\ pc[j] = "source"
    /\ txn' = [txn EXCEPT ![j].count = source.count]
    /\ Goto(j, IF source.exists THEN "find" ELSE "insert")
    /\ UNCHANGED <<lock, holder, database, run, attempt, records, next, plan,
                   answer, failures, lost>>

\* data_sources.name is unique: the insert waits for a concurrent one.
InsertSource(j) ==
    /\ pc[j] = "insert"
    /\ holder = NoJob
    /\ ~source.exists
    /\ holder' = j
    /\ Goto(j, "find")
    /\ UNCHANGED <<lock, database, run, attempt, records, next, txn, plan, answer,
                   failures, lost>>

InsertConflicts(j) ==
    /\ pc[j] = "insert"
    /\ holder = NoJob
    /\ source.exists
    /\ Goto(j, "rollback")
    /\ UNCHANGED <<lock, holder, database, run, attempt, records, next, txn, plan,
                   answer, failures, lost>>

FindFund(j) ==
    /\ pc[j] = "find"
    /\ txn' = [txn EXCEPT ![j].found =
                  {records[j][next[j]].fund} \cap (known \cup txn[j].funds)]
    /\ Goto(j, "upsert")
    /\ UNCHANGED <<lock, holder, database, run, attempt, records, next, plan,
                   answer, failures, lost>>

\* The flush of l.143 updates the source row, so it waits for the row's holder.
\* Mutant of MayWriteSource: the source row is not written with the records.
MayWriteSource_Unlocked(j) == pc[j] = "upsert"
MayWriteSource(j) == pc[j] = "upsert" /\ holder \in {NoJob, j}

CatalogueRows(j, rec, seen) ==
    {[table |-> t, fund |-> rec.fund, date |-> rec.date, run |-> run[j], from |-> 0] :
        t \in {u \in {"nav", "market"} :
                 rec[u] /\ ~Recorded(seen, u, rec.fund, rec.date)}}

\* The session after the flush of the record's fund and the two inserts.
AfterRecord(j, rec) ==
    [txn[j] EXCEPT !.flushed = Mine(j),
                   !.pending = CatalogueRows(j, rec, rows \cup Mine(j)),
                   !.funds = @ \cup {rec.fund},
                   !.count = @ + 1]

UpsertRecord(j) ==
    /\ MayWriteSource(j)
    /\ records[j][next[j]].fund \in txn[j].found \cup (Funds \ known)
    /\ txn' = [txn EXCEPT ![j] = AfterRecord(j, records[j][next[j]])]
    /\ holder' = j
    /\ next' = [next EXCEPT ![j] = @ + 1]
    /\ Goto(j, IF next[j] < Len(records[j]) THEN "find" ELSE AfterCatalogue)
    /\ UNCHANGED <<lock, database, run, attempt, records, plan, answer, failures, lost>>

\* funds.external_id is unique: another refresh inserted the fund meanwhile.
UpsertConflicts(j) ==
    /\ MayWriteSource(j)
    /\ records[j][next[j]].fund \in known \ txn[j].found
    /\ holder' = j
    /\ Goto(j, "rollback")
    /\ UNCHANGED <<lock, database, run, attempt, records, next, txn, plan, answer,
                   failures, lost>>

(***************************************************************************)
(* The history phase: active records, those with the fewest rows first,    *)
(* at most HistoryLimit of them (l.199-258).                               *)
(***************************************************************************)
PlanHistory(j) ==
    /\ pc[j] = "plan"
    /\ LET active == {i \in DOMAIN records[j] : records[j][i].active} IN
        /\ plan' = [plan EXCEPT ![j] =
              [todo |-> active,
               budget |-> IF HistoryLimit = NoLimit THEN Len(records[j]) ELSE HistoryLimit,
               counted |-> Visible(j)]]
        /\ Goto(j, IF active = {} THEN "commit" ELSE "history")
    /\ UNCHANGED <<lock, holder, database, run, attempt, records, next, txn, answer,
                   failures, lost>>

\* sorted(..., key=(count, external_id)), which is stable.
Precedes(j, i, k) ==
    LET fi == records[j][i].fund
        fk == records[j][k].fund
        ci == Cardinality(NavOf(plan[j].counted, fi))
        ck == Cardinality(NavOf(plan[j].counted, fk))
    IN  \/ ci < ck
        \/ ci = ck /\ fi < fk
        \/ ci = ck /\ fi = fk /\ i <= k
IsNext(j, i) ==
    /\ pc[j] = "history"
    /\ i \in plan[j].todo
    /\ \A k \in plan[j].todo : Precedes(j, i, k)

\* A row added for one point of a history is not yet in the database when the
\* next point is looked up, unless the session flushes before a query.
HistoryRows(j, f, h) ==
    {[table |-> "nav", fund |-> f, date |-> h[i], run |-> run[j], from |-> i] :
        i \in {n \in DOMAIN h :
                 /\ ~Recorded(Visible(j), "nav", f, h[n])
                 /\ Autoflush => \A m \in 1..(n - 1) : h[m] # h[n]}}

\* Mutant of Observations: metrics are computed before the new points are added.
Observations_Early(j, f, new) == NavOf(Visible(j), f)
Observations(j, f, new) == NavOf(rows \cup Mine(j) \cup new, f)

\* _refresh_metrics: a fund with fewer than two observations keeps its metrics.
RefreshedMetrics(j, f, new) ==
    LET nav == Observations(j, f, new)
    IN  IF Cardinality(nav) >= 2 THEN nav ELSE txn[j].metrics[f]

\* The session after session.flush and _refresh_metrics.
AfterFund(j, f, new) ==
    [txn[j] EXCEPT !.flushed = Mine(j) \cup new,
                   !.pending = {},
                   !.metrics = [@ EXCEPT ![f] = RefreshedMetrics(j, f, new)]]

FinishFund(j, i, new) ==
    /\ txn' = [txn EXCEPT ![j] = AfterFund(j, records[j][i].fund, new)]
    /\ plan' = [plan EXCEPT ![j] =
          [todo |-> @.todo \ {i}, budget |-> @.budget - 1, counted |-> @.counted]]
    /\ Goto(j, IF plan[j].todo = {i} \/ plan[j].budget = 1 THEN "commit" ELSE "history")
    /\ attempt' = [attempt EXCEPT ![j] = 0]

HistoryOk(j) ==
    /\ \E i \in plan[j].todo, h \in Histories :
          /\ IsNext(j, i)
          /\ FinishFund(j, i, HistoryRows(j, records[j][i].fund, h))
    /\ UNCHANGED <<lock, holder, database, run, records, next, answer, failures, lost>>

HistoryRetry(j) ==
    /\ pc[j] = "history"
    /\ attempt[j] < MaxRetries
    /\ attempt' = [attempt EXCEPT ![j] = @ + 1]
    /\ UNCHANGED <<lock, holder, database, pc, run, records, next, txn, plan, answer,
                   failures, lost>>

\* The error is noted, the fund keeps its rows, its metrics are still refreshed.
HistoryGivesUp(j) ==
    /\ \E i \in plan[j].todo : IsNext(j, i) /\ FinishFund(j, i, {})
    /\ UNCHANGED <<lock, holder, database, run, records, next, answer, failures, lost>>

(***************************************************************************)
(* The end of a refresh (l.259-282).                                       *)
(***************************************************************************)
EndTransaction(j) ==
    /\ txn' = [txn EXCEPT ![j] = NoTxn]
    /\ plan' = [plan EXCEPT ![j] = NoPlan]
    /\ records' = [records EXCEPT ![j] = <<>>]
    /\ next' = [next EXCEPT ![j] = 1]
    /\ attempt' = [attempt EXCEPT ![j] = 0]
    /\ holder' = IF holder = j THEN NoJob ELSE holder

\* Mutant of CommittedSource: record_count is set to the records of this run.
CommittedSource_Reset(j) == [exists |-> TRUE, count |-> Len(records[j])]
CommittedSource(j) == [exists |-> TRUE, count |-> txn[j].count]

\* Mutant of CommittedRows: a refresh replaces the rows of the funds it saw.
CommittedRows_Replaced(j) ==
    {r \in rows : r.fund \notin txn[j].funds} \cup Mine(j)
CommittedRows(j) == rows \cup Mine(j)

Commit(j) ==
    /\ pc[j] = "commit"
    /\ runs' = [runs EXCEPT ![run[j]] =
                  [status |-> "success", written |-> Len(records[j])]]
    /\ rows' = CommittedRows(j)
    /\ known' = known \cup txn[j].funds
    /\ metrics' = [f \in Funds |-> IF txn[j].metrics[f] = {}
                                   THEN metrics[f] ELSE txn[j].metrics[f]]
    /\ source' = IF records[j] = <<>> THEN source ELSE CommittedSource(j)
    /\ EndTransaction(j)
    /\ Goto(j, "release")
    /\ answer' = [answer EXCEPT ![j] = "success"]
    /\ UNCHANGED <<lock, run, failures, lost>>

\* Any other exception inside the try block, the failure of the commit included.
StepRaises(j) ==
    /\ pc[j] \in InTry
    /\ Fail("step")
    /\ Goto(j, "rollback")
    /\ UNCHANGED <<lock, holder, database, run, attempt, records, next, txn, plan,
                   answer, lost>>

\* Mutant of Rollback: the exception is handled without writing the run row.
Rollback_Unreported(j) ==
    /\ pc[j] = "rollback"
    /\ EndTransaction(j)
    /\ Goto(j, "release")
    /\ UNCHANGED <<lock, database, run, answer, failures, lost>>
Rollback(j) ==
    /\ pc[j] = "rollback"
    /\ EndTransaction(j)
    /\ Goto(j, "report")
    /\ UNCHANGED <<lock, database, run, answer, failures, lost>>

ReportError(j) ==
    /\ pc[j] = "report"
    /\ runs' = [runs EXCEPT ![run[j]].status = "error"]
    /\ Goto(j, "release")
    /\ answer' = [answer EXCEPT ![j] = "error"]
    /\ UNCHANGED <<lock, holder, rows, known, metrics, source, run, attempt, records,
                   next, txn, plan, failures, lost>>

\* The except block raises as well; finally still releases the lock.
ReportFails(j) ==
    /\ pc[j] = "report"
    /\ Fail("report")
    /\ lost' = lost \cup {run[j]}
    /\ Goto(j, "release")
    /\ answer' = [answer EXCEPT ![j] = "error"]
    /\ UNCHANGED <<lock, holder, database, run, attempt, records, next, txn, plan>>

\* Mutant of Release: the lock is released where the refresh has succeeded.
Release_OnSuccess(j) ==
    /\ pc[j] = "release"
    /\ lock' = [lock EXCEPT ![ProcessOf[j]] = answer[j] # "success"]
    /\ run' = [run EXCEPT ![j] = 0]
    /\ Goto(j, "idle")
    /\ UNCHANGED <<holder, database, attempt, records, next, txn, plan, answer,
                   failures, lost>>
Release(j) ==
    /\ pc[j] = "release"
    /\ lock' = [lock EXCEPT ![ProcessOf[j]] = FALSE]
    /\ run' = [run EXCEPT ![j] = 0]
    /\ Goto(j, "idle")
    /\ UNCHANGED <<holder, database, attempt, records, next, txn, plan, answer,
                   failures, lost>>

\* A process dies: its threads and its lock go, the database rolls back.
Crash(p) ==
    LET dead == {j \in Jobs : ProcessOf[j] = p} IN
    /\ \E j \in dead : pc[j] # "idle"
    /\ Fail("crash")
    /\ lost' = lost \cup ({run[j] : j \in dead} \ {0})
    /\ lock' = [lock EXCEPT ![p] = FALSE]
    /\ holder' = IF holder \in dead THEN NoJob ELSE holder
    /\ pc' = [j \in Jobs |-> IF j \in dead THEN "idle" ELSE pc[j]]
    /\ run' = [j \in Jobs |-> IF j \in dead THEN 0 ELSE run[j]]
    /\ attempt' = [j \in Jobs |-> IF j \in dead THEN 0 ELSE attempt[j]]
    /\ records' = [j \in Jobs |-> IF j \in dead THEN <<>> ELSE records[j]]
    /\ next' = [j \in Jobs |-> IF j \in dead THEN 1 ELSE next[j]]
    /\ txn' = [j \in Jobs |-> IF j \in dead THEN NoTxn ELSE txn[j]]
    /\ plan' = [j \in Jobs |-> IF j \in dead THEN NoPlan ELSE plan[j]]
    /\ answer' = [j \in Jobs |-> IF j \in dead THEN "none" ELSE answer[j]]
    /\ UNCHANGED database

\* The bound on refreshes is reached and every caller is back.
Finished ==
    /\ Len(runs) >= MaxRuns
    /\ \A j \in Jobs : pc[j] = "idle"
    /\ UNCHANGED vars

Catalogue(j) ==
    \/ FetchOk(j) \/ FetchRetry(j) \/ FetchGivesUp(j)
    \/ LoadSource(j) \/ InsertSource(j) \/ InsertConflicts(j)
    \/ FindFund(j) \/ UpsertRecord(j) \/ UpsertConflicts(j)
History(j) == PlanHistory(j) \/ HistoryOk(j) \/ HistoryRetry(j) \/ HistoryGivesUp(j)
End(j) == Commit(j) \/ Rollback(j) \/ ReportError(j) \/ Release(j)
Fault(j) == StartRunFails(j) \/ StepRaises(j) \/ ReportFails(j)
Call(j) == Acquire(j) \/ RefuseOverlap(j)
\* What a running job does next when nothing fails from outside.
Step(j) == StartRun(j) \/ Catalogue(j) \/ History(j) \/ End(j)

Next ==
    \/ \E j \in Jobs : Call(j) \/ Step(j) \/ Fault(j)
    \/ \E p \in Processes : Crash(p)
    \/ Finished

Spec == Init /\ [][Next]_vars

\* A thread that started a refresh keeps running, and PostgreSQL hands a row
\* lock to those that wait for it in turn.
Fairness ==
    \A j \in Jobs :
        /\ WF_vars(Step(j))
        /\ SF_vars(InsertSource(j) \/ InsertConflicts(j))
        /\ SF_vars(UpsertRecord(j) \/ UpsertConflicts(j))
FairSpec == Spec /\ Fairness

(***************************************************************************)
(* Properties.                                                             *)
(***************************************************************************)
\* Overlap protection: of the callers of one process at most one is past
\* _refresh_lock, and while it is there the lock is taken (l.84, l.282).
Exclusive ==
    \A j \in Jobs : pc[j] # "idle" =>
        /\ lock[ProcessOf[j]]
        /\ \A k \in Jobs \ {j} : ProcessOf[k] = ProcessOf[j] => pc[k] = "idle"

\* Across processes the lock does nothing, the source row does: only the job
\* that holds it has rows that are not committed (l.143).
OneWriter ==
    \A j \in Jobs : Mine(j) # {} \/ txn[j].funds # {} => holder = j

\* All or nothing: a committed row belongs to a run that succeeded; a run that
\* failed, hangs or died has left nothing behind (l.262, l.272).
AllOrNothing == \A r \in rows : r.run \in DOMAIN runs /\ runs[r.run].status = "success"

\* Idempotence: one NAV and one market row per fund and date, however often and
\* by whomever the refresh is repeated (l.145-151, l.229-236).
NoDuplicates == \A r, s \in rows : SameObservation(r, s) => r = s

\* The refreshes together are a history that runs publish, each at once and at most
\* once, without a second row for an observation that another has published, in
\* whatever order the processes look up, flush and commit (NavHistory).
Published == {n \in DOMAIN runs : runs[n].status = "success"}
Abstract == INSTANCE NavHistory WITH history <- rows, published <- Published
Publishes == Abstract!Spec

\* record_count of the source is the number of records the successful runs
\* wrote (l.197).
CountExact ==
    LET total[n \in 0..Len(runs)] ==
          IF n = 0 THEN 0 ELSE total[n - 1] + runs[n].written
    IN  source.count = total[Len(runs)]

\* Metrics that a refresh replaces are computed from every NAV row the fund has
\* once the refresh is committed (l.257-258).
MetricsFresh ==
    [][\A f \in Funds : metrics'[f] # metrics[f] => metrics'[f] = NavOf(rows', f)]_vars

\* The lock is given back on every way out but one: the insert of the run row
\* that fails before the try block keeps it for ever (l.86-88, l.281-282).
LockReturned ==
    \A p \in Processes :
        lock[p] /\ "start" \notin Failures => \E j \in Jobs : ProcessOf[j] = p /\ pc[j] # "idle"

\* A run row that says "running" although nobody works on it belongs to a run whose
\* process was killed, or whose failure the except block could not write; a step that
\* raises, a fetch that gives up and a conflict never leave one (l.271-280).
Orphans == {r \in DOMAIN runs : runs[r].status = "running" /\ \A j \in Jobs : run[j] # r}
NoOrphanRun == Orphans \subseteq lost

\* Every refresh ends, however often a fetch is retried and whoever holds the
\* source row.
RefreshEnds == \A j \in Jobs : pc[j] # "idle" ~> pc[j] = "idle"
=============================================================================
