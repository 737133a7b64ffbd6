---------------------------- MODULE FundBackfill ----------------------------
(***************************************************************************)
(* backfill_fund_history (src/irma/services/fund_backfill.py), its admin   *)
(* endpoint and its script: the history of one fund after the other, a     *)
(* commit and a checkpoint per fund, a run that the script can resume.     *)
(* A job is one call.  Sessions are SessionLocal's: objects keep the       *)
(* values they were loaded with until a rollback, and a query does not see *)
(* what the session has added and not committed.  A data refresh beside    *)
(* them (FundRefresh) looks a day up and commits it much later: there is   *)
(* no unique key, so two sessions can both find a day missing.             *)
(***************************************************************************)
EXTENDS Naturals, Sequences, FiniteSets, Functions

CONSTANTS
    ApiJobs,       \* calls of POST /v1/admin/funds/backfill, in one process
    ScriptJobs,    \* runs of scripts/backfill_fund_history.py
    Resumers,      \* those of the scripts that are given --resume, with any run_id
    RunIds,        \* run_id
    NoRun,
    Funds,
    Selections,    \* what the query for funds gives a call: its type, its limit
    Dates,         \* days, numbers
    Histories,     \* what provider.fetch_nav_history may return: days, in order
    FromDate,      \* from_date, 0 for None
    Refreshes,     \* data refreshes, one at a time (OneWriter of FundRefresh)
    RefreshDates,  \* days a data refresh may write
    StatusLength,  \* number of characters of a status
    StatusWidth,   \* what the status column holds: 20 on PostgreSQL
    Faults,        \* the kinds of fault that may happen
    MaxFaults      \* bound on their number

Jobs == ApiJobs \cup ScriptJobs
FaultKinds == {"fetch", "commit", "note", "database", "crash"}
Final == {"completed", "completed_with_errors"}

ASSUME BackfillAssumption ==
    /\ ApiJobs \cap ScriptJobs = {}
    /\ Resumers \subseteq ScriptJobs
    /\ NoRun \notin RunIds
    /\ Refreshes \cap (RunIds \cup Jobs) = {}
    /\ Selections \subseteq Seq(Funds)
    /\ Dates \subseteq Nat \ {0}
    /\ Histories \subseteq Seq(Dates)
    /\ FromDate \in Nat
    /\ RefreshDates \subseteq Dates
    /\ StatusLength \in [Final -> Nat]
    /\ StatusWidth \in Nat
    /\ Faults \subseteq FaultKinds
    /\ MaxFaults \in Nat

VARIABLES
    runs,      \* backfill_runs
    checks,    \* backfill_checkpoints
    rows,      \* fund_nav_history
    pc,        \* where each job is
    job,       \* the local variables of each job
    answer,    \* how the job's last call ended
    refresh,   \* the rows each data refresh has added and not committed
    faults,    \* faults so far
    contended  \* the days of a fund that were added when already in hand

database == <<runs, checks, rows>>
surroundings == <<refresh, faults, contended>>
vars == <<database, pc, job, answer, refresh, faults, contended>>

(***************************************************************************)
(* State.                                                                  *)
(***************************************************************************)
\* "run" is the backfill or the refresh that wrote the row, "from" the session
\* and the position in what it had fetched.
Sessions == Jobs \cup Refreshes
Row == [fund: Funds, date: Dates, run: RunIds \cup Refreshes, from: Sessions \X Nat]
Run == [status: {"none", "running"} \cup Final, completed: Nat, written: Nat,
        errors: Seq(Funds)]
Checkpoint == [status: {"none", "completed", "error"}, last: Nat]

NoRow == [status |-> "none", completed |-> 0, written |-> 0, errors |-> <<>>]
NewRun == [NoRow EXCEPT !.status = "running"]
NoCheckpoint == [status |-> "none", last |-> 0]

\* funds: the funds of this call, todo: those left; mine: the run object in the
\* session; found: the checkpoint as it was looked up; new: the rows added to
\* the session.
Job == [id: RunIds \cup {NoRun}, funds: Seq(Funds), todo: Seq(Funds), errors: Seq(Funds), mine: Run,
        found: Checkpoint, last: Nat, new: SUBSET Row]
NoJob == [id |-> NoRun, funds |-> <<>>, todo |-> <<>>, errors |-> <<>>, mine |-> NoRow,
          found |-> NoCheckpoint, last |-> 0, new |-> {}]

SurroundingsOK ==
    /\ refresh \in [Refreshes -> SUBSET Row]
    /\ \A i \in Refreshes : \A r \in refresh[i] : r.run = i
    /\ faults \in Nat
    /\ contended \subseteq Funds \X Dates

TypeOK ==
    /\ runs \in [RunIds -> Run]
    /\ checks \in [RunIds -> [Funds -> Checkpoint]]
    /\ rows \subseteq Row
    /\ pc \in [Jobs -> {"idle", "load", "insert", "find", "fetch", "commit",
                        "except", "note"}]
    /\ job \in [Jobs -> Job]
    /\ \A j \in Jobs : pc[j] # "idle" => job[j].id \in RunIds
    /\ \A j \in Jobs : pc[j] \in {"fetch", "commit", "except", "note"} => job[j].todo # <<>>
    /\ answer \in [Jobs -> {"none", "refused", "raised"} \cup Final]
    /\ SurroundingsOK

Init ==
    /\ runs = [r \in RunIds |-> NoRow]
    /\ checks = [r \in RunIds |-> [f \in Funds |-> NoCheckpoint]]
    /\ rows = {}
    /\ pc = [j \in Jobs |-> "idle"]
    /\ job = [j \in Jobs |-> NoJob]
    /\ answer = [j \in Jobs |-> "none"]
    /\ refresh = [i \in Refreshes |-> {}]
    /\ faults = 0
    /\ contended = {}

Goto(j, l) == pc' = [pc EXCEPT ![j] = l]
Fault(kind) == kind \in Faults /\ faults < MaxFaults /\ faults' = faults + 1

Existing == {r \in RunIds : runs[r].status # "none"}
\* uuid4 never gives what somebody uses.
Fresh == {r \in RunIds \ Existing : \A j \in Jobs : job[j].id # r}
Fund(j) == Head(job[j].todo)
Check(j) == checks[job[j].id][Fund(j)]

\* What a session has added; the days of N that are in hand when x adds N: another
\* session has them too, or x has them twice.
Added(x) == IF x \in Jobs THEN job[x].new ELSE refresh[x]
Day(r) == <<r.fund, r.date>>
Meets(x, N, r) ==
    \/ \E y \in Sessions \ {x} : \E s \in Added(y) : Day(s) = Day(r)
    \/ \E s \in N \ {r} : Day(s) = Day(r)
Add(x, N) == contended' = contended \cup {Day(r) : r \in {s \in N : Meets(x, N, s)}}

\* The call returns, or raises, and its session is closed.
Return(j, how) ==
    /\ Goto(j, "idle")
    /\ job' = [job EXCEPT ![j] = NoJob]
    /\ answer' = [answer EXCEPT ![j] = how]
Raise(j) == Return(j, "raised")

(***************************************************************************)
(* The callers.                                                            *)
(***************************************************************************)
Begin(j, r) ==
    /\ Goto(j, "load")
    /\ job' = [job EXCEPT ![j] = [NoJob EXCEPT !.id = r]]
    /\ answer' = [answer EXCEPT ![j] = "none"]
    /\ UNCHANGED <<database, surroundings>>

SomeRunning == \E r \in RunIds : runs[r].status = "running"

ApiRefuse(j) ==
    /\ j \in ApiJobs /\ pc[j] = "idle"
    /\ SomeRunning
    /\ answer' = [answer EXCEPT ![j] = "refused"]
    /\ UNCHANGED <<database, pc, job, surroundings>>

ApiCall(j) ==
    /\ j \in ApiJobs /\ pc[j] = "idle"
    /\ ~SomeRunning
    /\ \E r \in Fresh : Begin(j, r)

ScriptCall(j) ==
    /\ j \in ScriptJobs /\ pc[j] = "idle"
    /\ \E r \in IF j \in Resumers THEN RunIds ELSE Fresh : Begin(j, r)

(***************************************************************************)
(* The run row and the funds of this call (l.25-39): a resumed run may get *)
(* others than its first call had.                                         *)
(***************************************************************************)
Loaded(j, row) ==
    \E s \in Selections :
        job' = [job EXCEPT ![j] = [@ EXCEPT !.mine = row, !.errors = row.errors,
                                            !.funds = s, !.todo = s]]

LoadRun(j) ==
    /\ pc[j] = "load"
    /\ IF job[j].id \in Existing
       THEN Loaded(j, runs[job[j].id]) /\ Goto(j, "find")
       ELSE UNCHANGED job /\ Goto(j, "insert")
    /\ UNCHANGED <<database, answer, surroundings>>

InsertRun(j) ==
    /\ pc[j] = "insert"
    /\ job[j].id \notin Existing
    /\ runs' = [runs EXCEPT ![job[j].id] = NewRun]
    /\ Loaded(j, NewRun)
    /\ Goto(j, "find")
    /\ UNCHANGED <<checks, rows, answer, surroundings>>

\* run_id is unique.
InsertRunConflicts(j) ==
    /\ pc[j] = "insert"
    /\ job[j].id \in Existing
    /\ Raise(j)
    /\ UNCHANGED <<database, surroundings>>

(***************************************************************************)
(* One fund (l.40-102).                                                    *)
(***************************************************************************)
NextFund(j, l) == [l EXCEPT !.todo = Tail(@), !.new = {}, !.found = NoCheckpoint, !.last = 0]

\* Mutant of Skippable: a resumed run does every fund again.
Skippable_Never(c) == FALSE
Skippable(c) == c.status = "completed"

FindCheckpoint(j) ==
    /\ pc[j] = "find"
    /\ job[j].todo # <<>>
    /\ IF Skippable(Check(j))
       THEN /\ job' = [job EXCEPT ![j] = NextFund(j, @)]
            /\ UNCHANGED pc
       ELSE /\ job' = [job EXCEPT ![j] = [@ EXCEPT !.found = Check(j)]]
            /\ Goto(j, "fetch")
    /\ UNCHANGED <<database, answer, surroundings>>

\* The days after from_date and after the checkpoint.
Wanted(j, h) == {n \in DOMAIN h : h[n] >= FromDate /\ h[n] > job[j].found.last}

\* Mutant of NewRows: a day is written whether it is there or not.
NewRows_Unchecked(j, h) ==
    {[fund |-> Fund(j), date |-> h[n], run |-> job[j].id, from |-> <<j, n>>] : n \in Wanted(j, h)}
NewRows(j, h) ==
    {[fund |-> Fund(j), date |-> h[n], run |-> job[j].id, from |-> <<j, n>>] :
        n \in {m \in Wanted(j, h) :
                 \A r \in rows : r.fund = Fund(j) => r.date # h[m]}}
\* Mutant of LastDate: the days that from_date leaves out move the checkpoint.
LastDate_Unfiltered(j, h) ==
    LET seen == {h[n] : n \in DOMAIN h} \cup {job[j].found.last}
    IN  CHOOSE d \in seen : \A e \in seen : e <= d
LastDate(j, h) ==
    LET seen == {h[n] : n \in Wanted(j, h)} \cup {job[j].found.last}
    IN  CHOOSE d \in seen : \A e \in seen : e <= d

FetchHistory(j) ==
    /\ pc[j] = "fetch"
    /\ \E h \in Histories :
          /\ job' = [job EXCEPT ![j] = [@ EXCEPT !.new = NewRows(j, h), !.last = LastDate(j, h)]]
          /\ Add(j, NewRows(j, h))
    /\ Goto(j, "commit")
    /\ UNCHANGED <<database, answer, refresh, faults>>

FetchFails(j) ==
    /\ pc[j] = "fetch"
    /\ Fault("fetch")
    /\ Goto(j, "except")
    /\ UNCHANGED <<database, job, answer, refresh, contended>>

\* The run object counts on what it was loaded with.
\* Mutant of Counted: the fund is counted, its rows are not.
Counted_NoRows(j) == [job[j].mine EXCEPT !.completed = @ + 1]
Counted(j) ==
    [job[j].mine EXCEPT !.completed = @ + 1, !.written = @ + Cardinality(job[j].new)]

\* Another job of the same run has inserted the checkpoint meanwhile.
Conflict(j) == job[j].found.status = "none" /\ Check(j).status # "none"

CommitFund(j) ==
    /\ pc[j] = "commit"
    /\ ~Conflict(j)
    /\ rows' = rows \cup job[j].new
    /\ checks' = [checks EXCEPT ![job[j].id][Fund(j)] =
                    [status |-> "completed", last |-> job[j].last]]
    /\ runs' = [runs EXCEPT ![job[j].id] =
                  [@ EXCEPT !.completed = Counted(j).completed, !.written = Counted(j).written]]
    /\ job' = [job EXCEPT ![j] = [NextFund(j, @) EXCEPT !.mine = Counted(j)]]
    /\ Goto(j, "find")
    /\ UNCHANGED <<answer, surroundings>>

CommitConflicts(j) ==
    /\ pc[j] = "commit"
    /\ Conflict(j)
    /\ Goto(j, "except")
    /\ UNCHANGED <<database, job, answer, surroundings>>

CommitFails(j) ==
    /\ pc[j] = "commit"
    /\ Fault("commit")
    /\ Goto(j, "except")
    /\ UNCHANGED <<database, job, answer, refresh, contended>>

\* rollback, which expires the run object, and the two queries.
\* Mutant of Except: the exception is handled without session.rollback.
Except_Keeps(j) ==
    /\ pc[j] = "except"
    /\ rows' = rows \cup job[j].new
    /\ job' = [job EXCEPT ![j] =
          [@ EXCEPT !.found = Check(j), !.mine = runs[job[j].id], !.new = {},
                    !.errors = Append(job[j].errors, Fund(j))]]
    /\ Goto(j, "note")
    /\ UNCHANGED <<runs, checks, answer, surroundings>>
Except(j) ==
    /\ pc[j] = "except"
    /\ job' = [job EXCEPT ![j] =
          [@ EXCEPT !.found = Check(j), !.mine = runs[job[j].id], !.new = {},
                    !.errors = Append(job[j].errors, Fund(j))]]
    /\ Goto(j, "note")
    /\ UNCHANGED <<database, answer, surroundings>>

\* A checkpoint that another job completed becomes an error as well.
NoteError(j) ==
    /\ pc[j] = "note"
    /\ ~Conflict(j)
    /\ checks' = [checks EXCEPT ![job[j].id][Fund(j)].status = "error"]
    /\ runs' = [runs EXCEPT ![job[j].id].errors = job[j].errors]
    /\ job' = [job EXCEPT ![j] = [NextFund(j, @) EXCEPT !.mine.errors = job[j].errors]]
    /\ Goto(j, "find")
    /\ UNCHANGED <<rows, answer, surroundings>>

NoteConflicts(j) ==
    /\ pc[j] = "note"
    /\ Conflict(j)
    /\ Raise(j)
    /\ UNCHANGED <<database, surroundings>>

NoteFails(j) ==
    /\ pc[j] = "note"
    /\ Fault("note")
    /\ Raise(j)
    /\ UNCHANGED <<database, refresh, contended>>

(***************************************************************************)
(* The end (l.103-114).                                                    *)
(***************************************************************************)
\* Mutant of Outcome: the errors are not looked at.
Outcome_Completed(j) == "completed"
Outcome(j) == IF job[j].errors = <<>> THEN "completed" ELSE "completed_with_errors"
AtEnd(j) == pc[j] = "find" /\ job[j].todo = <<>>

Finish(j) ==
    /\ AtEnd(j)
    /\ StatusLength[Outcome(j)] <= StatusWidth
    /\ runs' = [runs EXCEPT ![job[j].id].status = Outcome(j)]
    /\ Return(j, Outcome(j))
    /\ UNCHANGED <<checks, rows, surroundings>>

\* PostgreSQL refuses a status that is too long for its column.
FinishTooLong(j) ==
    /\ AtEnd(j)
    /\ StatusLength[Outcome(j)] > StatusWidth
    /\ Raise(j)
    /\ UNCHANGED <<database, surroundings>>

\* A query or a commit outside the try block fails.
DatabaseFails(j) ==
    /\ pc[j] \in {"load", "insert", "find"}
    /\ Fault("database")
    /\ Raise(j)
    /\ UNCHANGED <<database, refresh, contended>>

(***************************************************************************)
(* The surroundings.                                                       *)
(***************************************************************************)
\* The API process dies with all its calls, or one script does.
Crash(dead) ==
    /\ \E j \in dead : pc[j] # "idle"
    /\ Fault("crash")
    /\ pc' = [j \in Jobs |-> IF j \in dead THEN "idle" ELSE pc[j]]
    /\ job' = [j \in Jobs |-> IF j \in dead THEN NoJob ELSE job[j]]
    /\ answer' = [j \in Jobs |-> IF j \in dead THEN "none" ELSE answer[j]]
    /\ UNCHANGED <<database, refresh, contended>>

\* A data refresh looks a day up, as the catalogue's observation (part 0) and as a
\* day of the fund's history (part 1), and adds it,
RefreshAdds(i, f, d, part) ==
    LET new == refresh[i] \cup {[fund |-> f, date |-> d, run |-> i, from |-> <<i, part>>]}
    IN  /\ \A k \in Refreshes \ {i} : refresh[k] = {}
        /\ \A r \in rows : r.run # i /\ Day(r) # <<f, d>>
        /\ refresh' = [refresh EXCEPT ![i] = new]
        /\ Add(i, new)
        /\ UNCHANGED <<database, pc, job, answer, faults>>

\* and commits at its very end,
RefreshCommits(i) ==
    /\ refresh[i] # {}
    /\ rows' = rows \cup refresh[i]
    /\ refresh' = [refresh EXCEPT ![i] = {}]
    /\ UNCHANGED <<runs, checks, pc, job, answer, faults, contended>>

\* or fails.
RefreshRollsBack(i) ==
    /\ refresh[i] # {}
    /\ refresh' = [refresh EXCEPT ![i] = {}]
    /\ UNCHANGED <<database, pc, job, answer, faults, contended>>

Refresh(i) ==
    \/ \E f \in Funds, d \in RefreshDates, part \in {0, 1} : RefreshAdds(i, f, d, part)
    \/ RefreshCommits(i)
    \/ RefreshRollsBack(i)

Finished == Fresh = {} /\ (\A j \in Jobs : pc[j] = "idle") /\ UNCHANGED vars

Call(j) == ApiRefuse(j) \/ ApiCall(j) \/ ScriptCall(j)
Step(j) ==
    \/ LoadRun(j) \/ InsertRun(j) \/ InsertRunConflicts(j)
    \/ FindCheckpoint(j) \/ FetchHistory(j) \/ CommitFund(j) \/ CommitConflicts(j)
    \/ Except(j) \/ NoteError(j) \/ NoteConflicts(j)
    \/ Finish(j) \/ FinishTooLong(j)
Failure(j) == FetchFails(j) \/ CommitFails(j) \/ NoteFails(j) \/ DatabaseFails(j)

Next ==
    \/ \E j \in Jobs : Call(j) \/ Step(j) \/ Failure(j)
    \/ \E dead \in {ApiJobs} \cup {{j} : j \in ScriptJobs} : Crash(dead)
    \/ \E i \in Refreshes : Refresh(i)
    \/ Finished

Spec == Init /\ [][Next]_vars

(***************************************************************************)
(* Properties.                                                             *)
(***************************************************************************)
\* All or nothing: a row of a run belongs to a fund whose checkpoint is
\* completed and reaches at least to its day (l.82-86, l.88).
Checkpointed ==
    \A r \in rows : r.run \in RunIds =>
        /\ checks[r.run][r.fund].status = "completed"
        /\ r.date <= checks[r.run][r.fund].last

\* The day a checkpoint has reached, and a resumed fetch starts after, is in
\* the database, whoever wrote it and whoever works on the run (l.56-62, l.82).
LastDayWritten ==
    \A id \in RunIds, f \in Funds :
        checks[id][f].last # 0 =>
            \E r \in rows : r.fund = f /\ r.date = checks[id][f].last

\* The counters of a run agree with its checkpoints and its rows after every
\* commit, failure, crash and resume (l.84-86).
CountsExact ==
    \A id \in RunIds :
        /\ runs[id].completed = Cardinality({f \in Funds : checks[id][f].status = "completed"})
        /\ runs[id].written = Cardinality({r \in rows : r.run = id})

\* One failing fund does not stop the others, and no failure goes unreported: when a
\* call returns, every fund it had selected has a checkpoint, the run's errors name
\* every fund of the run whose checkpoint is an error, those of earlier calls
\* included, and if the call says completed there is none (l.39, l.87-105,
\* fund-backfill.md l.12).
Ends(j) == answer[j] = "none" /\ answer'[j] \in Final
Reported ==
    [][\A j \in Jobs : Ends(j) =>
          LET id == job[j].id
          IN  /\ \A f \in Range(job[j].funds) : checks[id][f].status # "none"
              /\ \A f \in Funds : checks[id][f].status = "error" =>
                    f \in Range(runs'[id].errors) /\ answer'[j] # "completed"]_vars

\* There is no unique key over fund and day, so a day may get two rows.  It does so
\* only if somebody added it while it was in hand: another session had added it and
\* not committed, or the same history had it twice.  Resuming, retrying, rolling back
\* and restarting never write a day again (l.63-69, fund-backfill.md l.10).
DuplicatesHaveCause ==
    \A r, s \in rows : r # s /\ Day(r) = Day(s) => Day(r) \in contended

\* What a checkpoint says is completed stays so (l.48).
CompletedStays ==
    [][\A id \in RunIds, f \in Funds :
          checks[id][f].status = "completed" => checks'[id][f] = checks[id][f]]_vars

\* Readers see a history that grows by batches (NavHistory): all days of a fund in a
\* run at once and at most once, or all days of a refresh, and no observation that is
\* there gets a second row (l.63-86).
Batch(r) == IF r.run \in Refreshes THEN <<r.run>> ELSE <<r.run, r.fund>>
NavRow(r) == [table |-> "nav", fund |-> r.fund, date |-> r.date, from |-> r.from, run |-> Batch(r)]
Published ==
    {b \in RunIds \X Funds : checks[b[1]][b[2]].status = "completed"}
        \cup {Batch(r) : r \in {s \in rows : s.run \in Refreshes}}
Abstract == INSTANCE NavHistory WITH history <- {NavRow(r) : r \in rows}, published <- Published
Publishes == Abstract!Spec
=============================================================================
