# IRMA: a TLA+ verification development

IRMA (`src/`) is a Persian investment assistant. It collects the catalogue and the NAV
history of Iranian funds from FIPIRAN, or from official files, keeps them in PostgreSQL,
keeps market indices, instruments, inflation and bank products next to them, ranks funds,
and turns an investor's profile into an allocation. This directory models
the parts of it that keep state or take several steps, checks them with TLC on small
instances, and proves the main safety properties with TLAPS for every value of the
constants. Paths are relative to the repository; `l.` numbers are lines of the file that
the paragraph or the comment is about.

## 1. Inventory

### 1.1 Processes and shared state

| process | code | what it calls |
|---|---|---|
| API (FastAPI, a thread per request) | `src/irma/api/routes.py` | refresh, file imports, backfill, reads, recommendations, backtests |
| scheduler | `src/irma/workers/scheduler.py` | `refresh_from_settings` on a timer |
| command line | `scripts/refresh_data.py`, `scripts/backfill_fund_history.py`, `scripts/bootstrap_data.py` | refresh, backfill, resume |

They share one PostgreSQL database (READ COMMITTED) through `SessionLocal`
(`persistence/database.py:18`: autoflush **off**) and nothing else. `_refresh_lock`
(`data_refresh.py:33`) is a lock of one process.

### 1.2 Components

| component | state | operations | interacts with | module |
|---|---|---|---|---|
| Fund refresh (`services/data_refresh.py`, l.44-282, l.393-429) | `_refresh_lock`; `data_ingestion_runs`, `data_sources`, `funds`, `fund_nav_history`, `fund_market_history`, `fund_metrics` | `refresh_funds`: lock, run row, fetch with retries, upsert per record, history phase, metrics, commit or rollback | providers, database, other refreshes, backfill | `FundRefresh`, `NavHistory` |
| Refresh dispatch (`data_refresh.py` l.285-390, `providers/chain.py`, `workers/scheduler.py`, `routes.py` l.688-733, `scripts/refresh_data.py`) | selected provider and errors of a chain; the lock | choice of the provider, fallback, delegation of histories, translation of exceptions | fund refresh, FIPIRAN, file | `RefreshDispatch` |
| FIPIRAN transport (`providers/fipiran.py` l.78-227) | `CircuitState`, `_last_request_at` | pacing, retries with backoff, circuit breaker | called by refresh and backfill | `CircuitBreaker` |
| Catalogue identity (`fipiran.py` l.244-310, `providers/csv_provider.py`, `data_refresh.py` l.117-143, l.199-258) | `funds` and the rows of each fund, from one refresh to the next | records of a catalogue, the fund of a record, the choice of histories | fund refresh | `FundCatalogue` |
| Fund backfill (`services/fund_backfill.py`, `routes.py` l.751-788, `scripts/backfill_fund_history.py`) | `backfill_runs`, `backfill_checkpoints`, `fund_nav_history` | start, one fund after the other, checkpoint, resume, status | FIPIRAN, database, refresh | `FundBackfill` |
| Allocation rules (`domain/recommendation.py`, `domain/profile.py`) | a dictionary of percentages within one call | nine rules in a row | called by recommendation and plan services | `Allocation` |
| Multi-asset refresh (`services/multi_asset_refresh.py`, `providers/multi_asset_csv.py`, `routes.py` l.693-733) | four tables of observations with unique keys, their entities (bank products have none) and sources | four file imports, alone or all in one session | endpoint, database, each other | `MultiAssetRefresh` |
| Fund ranking (`services/fund_rankings.py`, `persistence/repositories.py`) | none | gates and order, the label of a fund | read by recommendations | `FundRanking` |
| Recommendations (`services/recommendations.py`) | one row per request | funds and warnings for an allocation | allocation, ranking | `Recommendations` |
| Backtest (`trading_engine/backtest.py`) | position, cash, curve within one call | signal, orders, liquidation | endpoint; drawdown from the formulas | `Backtest` |
| Formulas (`domain/finance.py`, `analytics/`) | none | drawdown, recovery | backtest, analytics of funds and series | `Series`, `Ratio` |
| Paged lists (`routes.py` l.349-456) | none of their own | one query per page | database, imports | `MarketPages` |
| Data quality, portfolio plans, the rest of the HTTP surface, schema, Streamlit page, operations scripts, live validators | none of their own | | | see 7 |

### 1.3 What is hard here

* **Overlap.** Refreshes of one process exclude each other by a lock, refreshes of
  several processes do not; a backfill takes no lock at all. What keeps two refreshes
  from writing the same observation twice is not the lock but the row lock that the
  first flush of `data_sources` takes and holds until the commit.
* **Partial failure.** A refresh is one transaction over many flushes; a backfill is one
  transaction per fund. The error paths open transactions of their own, which can fail
  as well.
* **Stale reads.** Queries do not see what the session has added and not flushed;
  objects keep the values they were loaded with.
* **Crash and resume.** A backfill that was interrupted goes on from its checkpoints.
* **Timeouts and retries.** The provider retries, the coordinator retries, and the chain
  falls back.
* **Exceptions.** Five classes of exceptions travel through four layers that each catch
  another set.
* **Order of rules.** Each allocation rule changes what an earlier one has capped.
* **Identity.** A fund is found by number, symbol, or name and type, and each match
  overwrites all of them; catalogues change between refreshes.
* **Keys.** A file's reader checks one key, the table has another, and a session does
  not see what it has not flushed.
* **Boundaries.** Ages, spans and counts are compared at several places that have to
  agree.

The hazards, each at its line and with the properties that watch it, are listed in
`PROJECT.json`.

### 1.4 What makes each component correct

* Refresh: one at a time per process and the lock always given back; all or nothing; an
  observation is stored once; the counters and metrics agree with the rows; it ends.
* Dispatch: rows of one origin, which is recorded; the file only when FIPIRAN failed;
  every caller gets an answer and the scheduler goes on.
* Transport: the circuit opens at the threshold and nothing begins while it cools;
  requests are paced; the number of attempts is bounded.
* Backfill: rows, checkpoints and counters agree after any interruption; nothing
  completed is redone; no day is lost, and none doubled without a race; a call that ends
  has treated every fund it chose and hides no error.
* Catalogue: funds are not merged on a name alone; a refresh fails only because of the catalogue; every fund gets its
  history.
* Multi-asset refresh: an import is whole or nothing, whatever is imported next to it or
  before it in the session; it conflicts or repeats an entity only for a cause; the counter is
  right.
* Suggestions: on evidence, the best first, and warnings that are true.
* Backtest: no look-ahead; capital, costs and trades add up; losses appear in the drawdown.
* Paged lists: what was there at the beginning is returned.
* Allocation: percentages between 0 and 100 that add up to 100; each cap holds at the
  end; every part is executable; the amounts are the percentages, add up and are not negative.

## 2. The modules

A specification `M` has an `MCM` with its instances for TLC, `MCServices` is that of all
services which compute an answer; theorems are in `MProofs`. Where a component has no
module of proofs of its own, its theorems stand with another's: those of
`FundCatalogue` in `CircuitBreakerProofs`, those of the services in
`ServicesProofs`. `Sorting` says what a sort makes of a set;
`Induction` is a library of lemmas (induction, sums, sorted orders). Operators named `D_Something` are mutants of the definition `D`: what a
plausible bug would make of it, kept to see that the properties notice.

### FundRefresh

A *job* is a caller of `refresh_funds`; `ProcessOf` gives its process. The program
counter `pc[j]` stands between two database operations:

| `pc` | lines | actions |
|---|---|---|
| `idle` | 84-85 | `Acquire`, `RefuseOverlap` |
| `start` | 86-88 | `StartRun`, `StartRunFails` (the lock stays taken) |
| `fetch` | 51-61, 90 | `FetchOk`, `FetchRetry`, `FetchGivesUp` |
| `source`, `insert` | 95-109 | `LoadSource`, `InsertSource`, `InsertConflicts` |
| `find`, `upsert` | 110-198 | `FindFund`, `UpsertRecord`, `UpsertConflicts` |
| `plan`, `history` | 199-258 | `PlanHistory`, `HistoryOk`, `HistoryRetry`, `HistoryGivesUp` |
| `commit` | 259-270 | `Commit` |
| `rollback`, `report` | 271-280 | `Rollback`, `ReportError`, `ReportFails` |
| `release` | 281-282 | `Release` |

Any step of the transaction may fail (`StepRaises`), and a process may die at any point
(`Crash`: its lock, its sessions and its row lock go). `txn[j]` is the session: the
value of `record_count` it holds, the rows that were flushed and those that are pending,
the metrics. `Visible(j)` is what a query of the job sees: what is committed and what it
flushed, and with `Autoflush` what is pending too. `holder` is the transaction with the
row lock of `data_sources`; `MayWriteSource` is the guard of every flush that updates
the row. The history phase takes the funds with the fewest rows first (`Precedes`).
`lost` is a history variable: the runs that were killed, and those whose failure the
`except` block could not write.

Abstractions: one data source; a fund is its `external_id`; a row is its table, fund,
date and run (`from` tells the points of one history apart); the metrics of a fund are
the set of NAV rows they were computed from. What these leave out, which of the rows of
`funds` a record belongs to, is `FundCatalogue`.

`NavHistory` is what readers may rely on: the history grows a batch at a time, each batch
is published once, and an observation that is there never gets a second row. That a batch
has no observation twice itself is not part of it, since with the deployment's session
that is false (`FundRefreshDuplicates`). `FundRefresh` implements it with `history` as the
committed rows and `published` as the runs that succeeded (`Publishes`), whatever the
session's autoflush.

### RefreshDispatch

The layer around: `Chain` is the list of sources of the configured provider; `FallBack`
and `ChainRaises` are the chain's loop, `FetchAgain` and `FetchRaises` the coordinator's
retries (`Attempts`: a file is read again, FIPIRAN retries by itself), `Delegate` the
source that is asked for histories. An exception travels from `RaiseFrom` through
`Wrapped` (l.386-390) to `WorkerCatches`, `ApiCatches` or `CliCatches`. A refresh is
atomic here, which `AllOrNothing` of `FundRefresh` justifies. `BeginFails` is the insert of
the run row that fails after the lock was taken and before the `try` that gives it back:
`lost` says that it has happened in the API process.

### CircuitBreaker

One provider instance and an upstream that may do anything. `Call` sleeps for `Pause`,
`Reject` or `Admit` is `_check_circuit`, `Send` and one of `AnswerOk`,
`AnswerPermanent`, `AnswerTransient`, `NoAnswer` are an attempt, `TryAgain` the end of
the loop's body. Time passes by `Tick`; instants are kept as time elapsed, up to the
bound the code compares them with, so the state space is finite without a clock bound.
A call runs alone: an instance belongs to one refresh or backfill.

### FundBackfill

A job is a call of the endpoint or of the script. The model has the check of the
endpoint (`ApiRefuse`, `ApiCall`), the run row, the choice of funds, which each call makes
anew with its own type and limit (`Loaded`, one of `Selections`), and per fund:
`FindCheckpoint` (with the completed ones skipped), `FetchHistory`, `CommitFund`, and on an
exception `Except` (rollback), `NoteError`. `job[j].mine` is the run object the session
holds, which goes stale when another job resumes the same run. `Finish` writes the outcome
if the status fits its column, `FinishTooLong` is PostgreSQL's refusal if it does not.
A data refresh beside them looks a day up and adds it (`RefreshAdds`), and commits all it
has added at its very end (`RefreshCommits`), or rolls back; in between, a backfill may find
and write the same day. `contended` is a history variable: the days of a fund that were
added while they were in hand already, with another session or in the same one.
`Publishes` says that `FundBackfill` implements `NavHistory` too, with a fund of a run, or a
refresh, as the batch.

### Allocation

Each rule of `recommend_allocation` is an action; the loop of `_transfer` that a rule
starts is `MoveFrom`, a pass at a time. Profiles keep what the rules read. At the end the
items are built: the last category takes what the roundings of the others leave, and an
amount below zero is refused by its field (`recommendation.py:88`): `AmountRefused`, after
which there is no answer (`"raised"`). The texts and the risk score of an item are left out.

### FundCatalogue

Refreshes one after the other (`FundRefresh.OneWriter` says that they are), on one day or
on successive ones. `Fetch` and `FetchFile` are the two providers: what they refuse, drop
and pass on. `StoreRecord` finds the fund of a record by number, symbol, or name and type
(`Matches`; where several fit, any of them), overwrites its columns, and fails if that
breaks a unique key (`Collides`). `ChooseHistories` sorts by the number of rows and takes
`history_limit` of them; `FundMissing` is the `assert`; `HistoryArrives` and
`HistoryFails` are the answers for one fund. A history starts at `Since[number]`, the
day the fund was founded, and reaches to the day of the refresh. `origin` is where the
records come from: FIPIRAN, a file that is the only provider, or a file the chain fell back
to. In the second case no history is asked for; in the third the loop with its assertion runs
for the records of the file, and every history is empty (`chain.py` l.46-50). Only a file may leave the
number out (`None`): FIPIRAN's items are refused without one (`fipiran.py` l.33).

### MultiAssetRefresh

A request reads the file of a dataset (`Open`), then per record the source (`Source`), the
entity (`Entity`) and the observation (`StoreRow`), with a `Flush` where the code flushes,
and commits. `session[c]` tells keys that were sent to the database from keys that are
only added: lookups see the former (`Seen`). The unique keys of the tables are the members
of `stored`. Bank products have no unique key (`models.py` l.144-152), so a bank may have
one twice: there an entity carries the import that made it (`Maker`), and a lookup finds any
one of those it sees (`Found`). A flush waits for the source rows that other transactions have written
(`MayWrite`) and is refused if a key is taken or a value too wide. `Raise` is the
difference between one dataset and `all`: with `all`, a `ValueError` or a missing file is
noted and the next import goes on in the same session, which still has what was added and
sent. `LoseConnection` is a lost connection, and stands for the victim of a deadlock too.

### The services: FundRanking, Recommendations, Backtest, Series, MarketPages

They compute an answer and change nothing others read, so `MCServices` composes them as
alternatives: a behaviour is about one of them. Each has a specification of its own
(`AdviceSpec`, `BacktestSpec`, `PagesSpec`), which the theorems are about; the composition
takes fewer worlds for most investors.

* `FundRanking` has the gates and the order of `rank_funds` as operators, and the label of
  `list_funds`. `Recommendations` extends it
  and `Allocation`: when the rules are done, `Suggest` picks funds for each part.
  `AdviceAssumption` is what the tables say: the minimums of the parts with funds
  (`MINIMUM_EXECUTABLE_TOMAN`), the share of fixed income in `BASE_ALLOCATIONS` of the least
  capital that a profile may have (`profile.py` l.75), and `MAX_STALENESS_DAYS`.
* `Backtest` has one action per turn of the loop (`TurnLoop`, `LastBar`), over exact
  fractions (`Ratio`); `gain` is a history variable, what the closes have moved the
  positions. `Series` has `maximum_drawdown` and `recovery_period` as the loops they are,
  as recursive functions. `Backtest` uses the first for its curve.
* `MarketPages` is a reader that asks for page after page of one of the two lists while
  `Import` adds rows. The filter is a name: an index code, which is unique and stays, or the
  symbol of an instrument, which two may have and each import sets again (`Renamed`).
  `steady` is a history variable: the filter has stood for one instrument at most, the same
  all along.
  `Ties` are the orders a database may return for rows that `ORDER BY` does not tell
  apart, chosen anew by each query.

## 3. The runs

| run | instance | what it checks |
|---|---|---|
| `FundRefreshCsv` | two threads of a process, four CSV files, all failures, three runs, two failures | `Exclusive`, `CountExact`, `NoOrphanRun` |
| `FundRefreshShared` | two processes, two FIPIRAN catalogues, histories that overlap with them and repeat a day, autoflush off, failing steps and crashes, fairness | `LockReturned`, `OneWriter`, `MetricsFresh`, `Publishes`, `RefreshEnds` |
| `RefreshDispatch` | csv, fipiran and chain; two API calls, scheduler, command line; every class of failure, that of the run row included | `Provenance`, `FallsBack` |
| `CircuitBreaker` | threshold 3, three attempts, cooling 3, interval 2 | `OpenAtThreshold`, `NoCallWhileOpen` |
| `FundBackfillResume` | the script, two funds or one of them, chosen anew by each call, three faults of any kind at any step, resumed | `Checkpointed`, `CountsExact`, `CompletedStays`, `Reported`, `Publishes` |
| `FundBackfillShared` | a call of the API and a script, on two runs or on one, with a failing fetch and crashes, and a refresh that looks up early and commits late | `LastDayWritten`, `DuplicatesHaveCause` |
| `MultiAssetRefresh` | two requests, for bank products or for all, on PostgreSQL and SQLite; files missing, broken, refused late or early, with a natural key twice; lost connections; fairness | `TypeOK`, `WholeFiles`, `Idempotent`, `CountsReceived`, `Independent`, `RequestsEnd` |
| `FundCatalogue` | ten catalogues and three files, alone or behind the chain, over two numbers, two days, one history per refresh; fairness | `FailureHasCause`, `NumbersGoWithCause`, `EveryoneServed` |
| `Services` | the tables of the code and profiles on both sides of each comparison; pairs of funds at every gate; four strategies on up to seven bars; series of up to five values; two indices or instruments with two names on three days in pages of two | `TypeOK`, `SumsTo100`, `DrawdownRespected`, `TradingRespected`, `Payable` (`Allocation`); `SuggestedOnEvidence`, `WarningIsTrue` (`Recommendations`); `NoLookAhead`, `CostsExplain`, `TradesInCurve` (`Backtest`); `RecoveryFromPeak` (`Series`); `NothingMissed` (`MarketPages`) |

What a theorem establishes for all values is not run again where another property of the
run depends on it: the type invariants of `FundRefresh`, `FundBackfill`,
`CircuitBreaker` and `RefreshDispatch`, `AllOrNothing` (part of `Publishes`), `Paced`,
`LockedByOne` and `Answered`.

Three runs show where the code and a document or test disagree (section 5):
`FundRefreshDuplicates`, `RefreshDispatchWorker`, `MultiAssetCurrency`.

### Bounds, and why they are enough

* `MaxRuns`, `MaxFailures` (`FundRefresh`): refreshes interact through the committed
  rows and the two locks. Two runs at once show each interaction, with the source row
  missing or there from the start; a third run comes after both (`FundRefreshCsv`); a
  second failure is one that hits the error path of the first. The
  theorems do not depend on them.
* Two funds and two or three dates: a fund in the catalogue alone, in both phases, and in
  neither; a day that is new and one that is there.
* Three attempts, threshold 3 (`CircuitBreaker`): the production values. The cooling
  period is longer than the interval, and the delays of a call, up to 4 each, reach
  beyond it, so a retry may fall on either side of its end. `MaxFailures` 7 lets the circuit open, cool and open again.
* `MaxFaults` 3 (`FundBackfillResume`): a fund that fails, an error path that fails and
  a crash in one run. Three days around `FromDate` 2 and a history that repeats none,
  starts before or is empty. A resumed call may choose more funds than the one before it, or
  fewer.
* One fund and two runs (`FundBackfillShared`): what races there is a day, a checkpoint and a
  run row. Two calls, on a run each or on the same, and a refresh meet in every order of
  lookups and commits.
* Profiles: every comparison of a rule has a value on each side; the capital is the
  smallest that is accepted and one at which every part is executable, with a remainder.
* Files of one or two rows (`MultiAssetRefresh`): the second row is the one that fails
  after the first was stored, or repeats its key. One request for all next to another
  one meets every pair of imports; the files of bank products are such that two of them make the
  same product, with the same version or another. Two datasets have earlier rows and two have none.
* Two numbers and one place (`FundCatalogue`): one fund has the history, the other
  waits; every way in which two records can share a number, symbol, name or type is a
  catalogue, and any sequence of catalogues is a behaviour.
* Pairs of funds (`Services`): a gate concerns one fund, the order two. Ages are on both
  sides of seven and of eight days, to the hour. One investor, who gets a part of every
  kind, meets all pairs; the others meet three typical worlds.
* Seven bars with windows 2 and 3: two trades, or one with bars that cannot be traded
  within it. Three values and five observations: two falls that are equally deep, from
  equal peaks, recovered or not.
* Three days and pages of two: a third page exists, and imports can move a row across
  each border. Two names: two instruments have the same, or exchange theirs. A reader
  without a filter, to whom `NothingMissed` promises nothing, is left out.
* Symmetry is used in `FundRefreshCsv` and `FundBackfillShared` only, where the two threads or
  the two runs are interchangeable and no property is temporal.

Deadlock is checked in every run but `Services`, where a behaviour ends with the answer;
`Finished`, `Done` and `Answered` are stuttering steps in the states in which everybody
has returned.

### Fairness

`FairSpec` is used for `RefreshEnds` (with the safety properties of the same run). A job
that has begun keeps running (weak fairness of `Step`): a thread is scheduled, retries
are counted and sleeps are finite. PostgreSQL serves the waiters of a row lock in turn,
so a job whose flush is possible again and again gets the lock (strong fairness of the
two flushes). No fairness is assumed of `Acquire`, of failures or of crashes.

`MultiAssetRefresh`: weak fairness of the steps of each request. A request that waits
for a row lock gets it when the holder ends; `LoseConnection` is outside of fairness, so
that no deadlock is resolved by it: `RequestsEnd` says that there is none to resolve.

`FundCatalogue`: weak fairness of its next step, since the scheduler starts one refresh
after the other, and strong fairness of `HistoryArrives` for each number: an upstream
that is asked for the same history again and again sends it at some point. No catalogue
is assumed to come; `EveryoneServed` is about behaviours in which one keeps coming.

## 4. What is proved

The theorems have the form `Spec => []P`, or `Spec => P` for a step property, for every
value of the constants that satisfies the modules' `ASSUME`s. These state types, that roles
are distinct, and what the code's tables and validators guarantee of the data: base
allocations that add up to 100, the minimums behind `AdviceAssumption`, the ranges that a
backtest's request admits (`backtest.py` l.18-35: positive closes, fee and slippage up to a
tenth), positive values of a series, files that have passed their reader. A theorem that needs more says so in
its own hypotheses, and they are explained below. The bounds of the runs
(`MaxRuns`, `MaxFailures`, `MaxFaults`, ...) are constants like the others.

An invariant that is not inductive is proved from a stronger one; the names below are
those of the strengthenings.

**FundRefreshProofs.** `TypeInv` is the type invariant with the indexes into the
fetched catalogue. `LockExcludes` (Exclusive) and `LockGivenBack` (LockReturned) follow
from it by steps. For the database, `SafeInv` adds what the types do not say: `Owned`
(a job that works has a run row of its own that says running), `Held` (a job with
flushed writes is the holder of the source row), `OwnRows` (its uncommitted rows carry
its run). From `SafeInv`: `Serialised` (OneWriter), `Atomicity` (AllOrNothing).
`UniqueInv` says that the committed rows together with the uncommitted ones of any job
are unique. It is inductive only because the holder is the only one with uncommitted
rows: a commit by somebody else cannot invalidate a check that has been made. From it
`Idempotence` (NoDuplicates), which assumes `Careful == Autoflush \/ ~HasHistory`; without it
the theorem is false, as `FundRefreshDuplicates` shows. `Implementation` (every step is a step
of `NavHistory` or leaves it alone) does not need that assumption: `NewInv` says that no
session has in hand what is committed already, for which it suffices that queries see the
committed rows and that only the holder has rows to commit.

* `OrphansHaveCause` (NoOrphanRun): `DroppedInv` is about the run rows that say running and
  that no job will close any more, those included whose job could not report its failure and has
  not yet left; each of them is in `lost`.
* `MetricsComplete` (MetricsFresh): `FreshInv` says that the metrics in a session were
  computed from the committed rows and its own, and that the session holds the source row;
  so nobody adds a row between the computation and the commit.
* `CountGoesWithLoads` (CountExact): the count of a source is exact as long as no session
  loads it while another one, which has loaded it too, is still going to write it
  (`OneCounter`). `CountInv` relates the count of a session to the source's and to the
  records stored so far; `CountMoves` says of each step whether it loads, keeps or
  writes. `CountKept` is the case of a single process, where the lock gives `OneCounter`.
  Across processes the hypothesis fails, since the source is loaded before its row is
  locked: then a count is written back that another commit has raised. `CountNeverAbove`
  says what is left for any processes: the count may miss records, it never has too many.
  The sum over the runs is a recursive function; `SumsUnique` shows by induction that it
  is determined by its equations.

**RefreshDispatchProofs.** `Tracked` follows a call through the chain: which sources it
has given up when it asks one, and that a call which was answered keeps to the source
that answered. With the type invariant it gives `OriginIsKept` (Provenance),
`LockIsExact` (LockedByOne: the lock is taken exactly while a call is inside, and for good
once the insert of a run row has failed, when nobody is), `AlwaysAnswered` (Answered) and `FileIsTried` (FallsBack).
`RaisesFrame`, `GoesFrame`
and `EndsFrame` reduce the steps to three kinds, so that each conjunct is proved by kind.

**CircuitBreakerProofs.** `Circuit` says what a call that is under way knows of the
circuit, `Pacing` that a call which has slept finds the interval over. They give
`ThresholdOpens`, `CallsKeepOut`, `CallsArePaced` and, when there are no retries,
`QuietWithoutRetries`: then nothing at all is sent in the cooling period. `Circuit` is
what carries the check of `Admit` to the request: with the threshold on record, the
first attempt of a call finds the cooling period over.

`CatalogueInv` is about a refresh that has stored the first `Done` of its records. `Traced`:
each fund of the session is as the table or one of these records has it. `Placed`: unless
two records share something, each of them has a fund, which is as one of these records
has it. `Named`: a number that was in the table is still there, or a record of another
number shares something with it. From it `FailuresHaveCause` (FailureHasCause) and `NumbersAreKept`
(NumbersGoWithCause).

**FundBackfillProofs.** `TypeCorrect` (TypeOK) and `NoGap` (LastDayWritten) hold whatever
shares a run: `Reached` carries the day of a checkpoint, from the moment it is looked up,
through the fetch and to the commit. The other properties hold of a run that one call
at a time works on, and need that: the script does not look whether its run
is being worked on. `OneWorker` says it, and `Unshared` derives it from who resumes: when
a script that resumes is the only call, or none resumes. The first is the instance
of `FundBackfillResume`. Given `[]OneWorker`, `RunInv` (with `Working`: what a
call has in hand agrees with the run row and the checkpoints, at each point of the
loop, and the funds it is past have a checkpoint) gives `Atomicity` (Checkpointed),
`Counters` (CountsExact), and by steps `NoneForgotten` (Reported) and `CompletedForGood`
(CompletedStays); `Resumable` joins the four with `Unshared`. None of them assumes anything of
the funds that the calls of a run choose.

`DaysOnce` (DuplicatesHaveCause) has no hypothesis: any number of calls may share a run, and
refreshes look days up and commit when they do. `HandsInv` carries it: a day that two
sessions have in hand, that one has twice, or that is in hand and in the database, is
contended. What remains is to say when nothing is contended. Whatever else writes, a run that
one call at a time works on has no day twice of its own if histories have none
(`OwnDaysOnce`, from `DistinctDays`): the two rows of a day are of two runs, or of a run and
a refresh. While no two calls share a run and nothing is contended (`OneWorker`,
`Uncontended`), backfills and refreshes implement `NavHistory` (`Implementation`): a fund of a
run is a batch, published by the commit that completes its checkpoint (`CommitPublishes`), and
so is all that a refresh has added (`RefreshPublishes`). Both hypotheses are needed, since the
code has neither a key nor a lock: a day that a refresh and a backfill have in hand at once is
written twice. `AloneImplements` (Publishes) derives them for the instance of
`FundBackfillResume`: a single script, no refresh, and histories that repeat no day.

**MultiAssetRefreshProofs.** `TypeInv` and `SessionInv` say of every request where the keys
of the records it has read are: stored, sent, added, or still to come. `ResultInv` relates
the result of each import to the answer of its request. From these `TypeCorrect` and
`NoneDragsAnother` (Independent). `WholeInv` says that the keys of an import that succeeded
are stored, and that each stored key is of one that did: `AllOrNothing` (WholeFiles). `OverlapInv`
says that two requests at the same import, or a session that has added a key which is
stored, mean an overlap, and `TwinsInv` that without one neither the database nor what a
session sees has two products of one name: `ImportsAreIdempotent` (Idempotent). `CountInv` follows
`record_count` through the sessions, which increment what they have loaded:
`CountsFollow` (CountsReceived). None assumes that requests come one at a time.

**AllocationProofs.** `Inv` joins types and sum with `Capped` and `Enforced`, and `Lowered`
comes on top: they carry a cap from the rule that establishes it to the end, since no later
rule gives to short-term trading or raises the risky parts above their cap, and no rule after
`_enforce_minimums` changes a percentage. `AddsUp` (SumsTo100), `TradingIsCapped`
(TradingRespected), `PartsAreExecutable` and `DrawdownIsCapped` (DrawdownRespected) follow.
`AmountsArePayable` (Payable) adds that the amounts belong to the final percentages (`Divided`),
bounds the roundings, and bounds from them what the last category has where there is no
answer.

**ServicesProofs.** `Sheltered` (no rule takes from fixed income) and `Advice` (what is
suggested belongs to the percentages as they are) give `WarningsAreTrue` (WarningIsTrue)
and `SuggestionsHaveEvidence` (SuggestedOnEvidence), the latter with what `Ranking` returns.
`ReadersMissNothing` (NothingMissed) rests on `PagesInv`: of the rows at the positions
that a reader has passed it lacks at most as many as were imported since, and what it has
not got of the first rows is further on, while the reader's filter stands for one entity
(`steady`, for indices always). An import moves every older row by one place,
a page moves the reader by its length.
`DecisionsLookBack` (NoLookAhead): what is held after a bar is decided by
the closes before it, the position and whether the bar is liquid (`BarDecides`).

The other three are about fractions, and need laws of `Ratio` that the solvers do not have.
`DivisorRuns` and `DivisorDivides` are Euclid's algorithm, `DivisorScales` that the divisor
of two multiples is the multiple of the divisor; so two fractions in lowest terms that stand
for the same number are the same pair (`SameIfEqual`), and an equation between results of
`Plus`, `Minus`, `Times` and `Over` is one between products of integers.

* `RecoveryIsFromPeak` (RecoveryFromPeak): `DeepInv` describes the loop after `n` values. Its
  peak is the first of the highest of them, its worst fall leads from the first of the
  highest values before it, is deeper than every fall that ends earlier, and none up to
  there is deeper.
  `LessOrders` has the order of fractions, `FallsCompare` how falls compare.
* `Accounts` describes the loop of the backtest after each bar: the last equity and the costs are the
  capital and the gain (`Balanced`); what is held was bought for an earlier equity of the
  curve (`Bought`); each return is the fall between two points of the curve, and neither can
  still be overwritten by the last sale (`Explained`); the returns compound to what is
  there, or to what the position was bought for (`Worth`). `OrderSettles` is about the order
  of a bar, `BarKeeps` about a turn of the loop, `LastSaleKeeps` about the last sale.
  `CostsAddUp` (CostsExplain) is `Balanced`; `TradesMatchCurve` (TradesInCurve) is the rest,
  with `DrawdownRuns`: no fall of a curve is deeper than its maximum drawdown.

**Induction.** TLAPS cannot instantiate the library's induction theorems, which take an
operator. `SetInduction` and `SubsetInduction` say the same of sets, which it can:
the set of numbers (or of subsets of a finite set) for which something holds. They come from the
well-foundedness of the strict subset order. Recursive functions and the places of a sorted
set are reasoned about with them; `SumAdds` is the example that is used most. `Recursion`
and `LoopDefined` say that a function which is defined by its first value and a step exists; the
loops of `Series` and `Backtest` and the divisor of `Ratio` are functions of this kind.

Only model-checked is liveness (`RefreshEnds`, `RequestsEnd`, `EveryoneServed`), which
TLAPS cannot do: it has neither the rules of fairness nor ENABLED. Every safety property
that a passing run checks is stated by a theorem; where the theorem has hypotheses, the
run whose instance satisfies them is named above. The fractions stand for floats: that
sums and products are exact is a property of the model, not of the code.


## 5. Where code and documents disagree

With a run and a finding:

* **`FundRefreshDuplicates`**: with the deployment's session the history phase stores a
  second row for a day that the catalogue has just added (`data_refresh.py:229`); the
  README calls a repeated refresh idempotent, and the test of that uses autoflush.
* **`RefreshDispatchWorker`**: the scheduler does not catch the `RuntimeError` that
  every failure is wrapped into (`scheduler.py:22`); the first failure ends it.
* **`MultiAssetCurrency`**: rows of market indices and inflation are written with a
  currency of 11 and 13 characters (`multi_asset_refresh.py:90`, `:198`) into a column of
  8 (`models.py:44`); PostgreSQL refuses each of them, and `test_multi_asset.py` passes
  because SQLite does not look at the width.

Without a run: the first are actions of the model that are always possible, the last were
met while modelling and concern what the model leaves out.

* the overlap protection that `data_refresh.py:1` announces ends at the process
  (`Exclusive` is per process);
* `StartRunFails` and `BeginFails` keep the lock, after which every call is refused as an
  overlap (`data_refresh.py:84-88`);
* the failure that opens the circuit is followed by the remaining retries of its call,
  inside the cooling period (`fipiran.py:216`), which `docs/fipiran-provider.md:16`
  rules out; `NoCallWhileOpen` is the part that holds;
* an `httpx` error of FIPIRAN is none of the exceptions the chain catches
  (`chain.py:41`), so the official file, the second source of
  `docs/provider-fallback.md:5-9`, is not tried when FIPIRAN does not answer. `FallsBack`
  says that these exceptions are the only reason;
* `completed_with_errors` does not fit its column on PostgreSQL (`fund_backfill.py:105`,
  `models.py:398`): `FinishTooLong`, after which the run stays running;
* the last category of an allocation takes the rounding of the other five and may become
  negative (`recommendation.py:250`), which `recommendation.py:88` refuses: a capital of
  20000037 divided 15/60/15/5/5/0 leaves -1, and the investor gets a `ValidationError` for an
  answer. `test_profile_recommendation.py:40-49` has capitals that divide evenly. `Payable` says
  that this is the only way to get none, and takes next to nothing in the last category;
* two calls of the backfill endpoint can both pass its check (`routes.py:767`) and write
  a day twice, and a backfill that dies leaves a run that refuses all later calls
  (`routes.py:768`);
* a backfill and a refresh that have looked a day up before either commits write it twice, as
  there is no key and no common lock (`fund_backfill.py:63-69`, `data_refresh.py:229-262`),
  while `docs/fund-backfill.md:10` says that existing days are not written again.
  `DuplicatesHaveCause` says that it takes such a race;
* a resumed backfill chooses its funds anew (`fund_backfill.py:35-38`): a call for another type
  or limit ends the run as completed although funds of the first choice have no checkpoint. A
  resumed call that is killed leaves the status of the call before it, so that a run may say
  completed with a checkpoint that says error; and the errors of earlier calls are never taken
  out of the list (l.39). `Reported` is about what a call says when it ends;
* two imports of bank products at once can each add a product, and nothing finds out, since
  the table has no unique key (`models.py:144-152`); `multi_asset_refresh.py:1` announces
  idempotent persistence. `Idempotent` says that it takes the overlap;
* records are matched by name and type as well (`data_refresh.py:120-126`), while
  `docs/provider-fallback.md:14` admits "only" number, symbol and official identifier, and adds
  that a name alone is no basis for a merge. The code keeps the second half of the sentence and
  not the first; `NumbersGoWithCause` states the code's rule;
* ages are compared in whole days (`fund_rankings.py:53`), so a fund in its eighth day is ranked
  and suggested, while `docs/fund-ranking-methodology.md:6` and
  `docs/recommendation-methodology.md:16-19` admit data of at most seven days and withhold what
  is stale; `list_funds`, which compares the time itself (`repositories.py:46`), calls the same
  fund stale. `SuggestedOnEvidence` bounds the age at eight days;
* once symbols have moved from one fund to another, every refresh fails at the unique
  key, since the funds are updated one after the other (`FailureHasCause` names the cause);
* funds with short histories can keep all places of `history_limit` for good, while a fund
  with more rows from the catalogue waits (`Overtaken` in `FundCatalogue`);
* the eligibility endpoint may give the reason of another fund of the type
  (`routes.py:266-270`: the first reason for which any fund was excluded);
* a list that is read without a filter can miss rows, with or without imports, because
  the rows of a day have no order (`routes.py:363`), and so can one of the instruments with a
  symbol that two of them have or that an import takes away (`routes.py:431`, `models.py:253`);
* the Calmar ratio is always `None`: `series.py:69` asks for a drawdown below zero, and
  `MaximumDrawdown` never is;
* the premium of a gold fund divides the last price by the last NAV, whichever their days
  (`routes.py:510-512`);
* one falling day in a file of indices, or one negative inflation rate, makes the whole
  file refused (`multi_asset_csv.py:28-29`, l.113-114);
* NAVs are stored in rial by `fipiran.py` (l.238) and in toman by `csv_provider.py`
  (l.68), in one table whose currency defaults to TOMAN, and a chain can mix them;
* bank products whose validity begins in the future are returned as current
  (`routes.py:576-581`).

## 6. Plan

Done, in this order: `NavHistory` and `FundRefresh`; `CircuitBreaker`; `FundBackfill`;
`Allocation`; `RefreshDispatch`; the first proofs;
`MultiAssetRefresh`; `FundCatalogue`; `FundRanking` and `Recommendations`; `Series` and
`Backtest`; `MarketPages`; the proofs of section 4, with the weakest conditions found under which the
count and the days of a history survive an overlap (`CountGoesWithLoads`, `DaysOnce`,
`Implementation` of `FundBackfillProofs`). What
is left:

1. Step properties that no run checks yet and that follow from the invariants at hand: what
   a resumed session may write into a run that another one has changed meanwhile.
2. Invariants that liveness rests on, as theorems: in `MultiAssetRefresh`, that a waiting
   request waits for one that waits for nobody.

`FundRefresh` and `RefreshDispatch` stay separate: the refinement to `NavHistory` is what
joins them. `FundCatalogue` rests on `OneWriter` and `NoDuplicates` in the same way.

## 7. Not modelled, and why

* Formulas with roots, powers and deviations, and the weights of a score: TLC has no
  reals. Drawdown, recovery, and the sums and products of a backtest are in `Series` and
  `Backtest`.
* Scenarios, portfolio plans (`rebalance_plan` answers for each category by itself;
  `staged_entry_plan` is called by tests only) and `services/data_quality.py` (called by
  tests only): functions without state.
* What a recommendation and a backtest store: one commit each, which nothing else reads
  or changes.
* `fetch_nav_history`, apart from its failures: it makes a point of each item.
* Endpoints that answer from one query (the eligibility of a fund among them), validation by Pydantic, the admin key, logging,
  settings.
* The schema, except for what other modules depend on: unique keys, the absence of one on
  the history tables, the widths of two columns, the session's options.
* The Streamlit page: a client of the API.
* Backup, restore, bootstrap, end-to-end and live-validation scripts: sequential drivers
  of external programs and networks.

## 8. Running

`tlc -config X.cfg M` for the run `X` of module `M` (section 3 and `PROJECT.json`), and
`tlapm MProofs.tla` for the proofs. `FundBackfillShared` (two million
states), `MultiAssetRefresh` (half a million, with liveness) and `Services` (a million) take one to
two minutes with two workers, `FundRefreshShared`, `FundBackfillResume` and `FundCatalogue`
up to a minute, the others seconds. The proofs of `FundRefreshProofs`, `FundBackfillProofs` and
`ServicesProofs` take three to four minutes each, those of the other modules less than that.
