------------------------- MODULE FundBackfillProofs -------------------------
(***************************************************************************)
(* Theorems about FundBackfill for any number of calls, runs, funds, days  *)
(* and histories, any failures and any bounds.                             *)
(***************************************************************************)
EXTENDS FundBackfill, SequenceTheorems, Induction

(***************************************************************************)
(* Types.                                                                  *)
(***************************************************************************)
Labels == {"idle", "load", "insert", "find", "fetch", "commit", "except", "note"}
AtFund == {"fetch", "commit", "except", "note"}

\* The records of an empty session and of a new run.
LEMMA EmptyTypes ==
    /\ NoRow \in Run /\ NewRun \in Run
    /\ NoRow.completed = 0 /\ NoRow.written = 0
    /\ NewRun.completed = 0 /\ NewRun.written = 0
    /\ NoRow.errors = <<>> /\ NewRun.errors = <<>>
    /\ NoCheckpoint \in Checkpoint
    /\ NoJob \in Job
    /\ NoJob.id = NoRun /\ NoJob.new = {}
<1>1. <<>> \in Seq(Funds)
  OBVIOUS
<1>2. NoRow \in Run
  BY <1>1 DEF NoRow, Run
<1>3. NewRun = [status |-> "running", completed |-> 0, written |-> 0, errors |-> <<>>]
  BY DEF NewRun, NoRow
<1>4. NewRun \in Run
  BY <1>1, <1>3 DEF Run
<1>5. NoCheckpoint \in Checkpoint
  BY DEF NoCheckpoint, Checkpoint
<1>6. NoJob \in Job
  BY <1>1, <1>2, <1>5 DEF NoJob, Job
<1> QED
  BY <1>2, <1>3, <1>4, <1>5, <1>6 DEF NoRow, NoJob

\* What the local variables of a job are.
LEMMA JobFields ==
    ASSUME NEW l \in Job
    PROVE  /\ l.id \in RunIds \cup {NoRun}
           /\ l.funds \in Seq(Funds) /\ l.todo \in Seq(Funds) /\ l.errors \in Seq(Funds)
           /\ l.mine \in Run /\ l.found \in Checkpoint
           /\ l.last \in Nat /\ l.new \in SUBSET Row
BY DEF Job

\* Each assignment keeps the type of the local variables.
LEMMA JobUpdates ==
    ASSUME NEW l \in Job
    PROVE  /\ \A i \in RunIds \cup {NoRun} : [l EXCEPT !.id = i] \in Job
           /\ \A t \in Seq(Funds) : [l EXCEPT !.funds = t] \in Job
           /\ \A t \in Seq(Funds) : [l EXCEPT !.todo = t] \in Job
           /\ \A e \in Seq(Funds) : [l EXCEPT !.errors = e] \in Job
           /\ \A m \in Run : [l EXCEPT !.mine = m] \in Job
           /\ \A c \in Checkpoint : [l EXCEPT !.found = c] \in Job
           /\ \A d \in Nat : [l EXCEPT !.last = d] \in Job
           /\ \A n \in SUBSET Row : [l EXCEPT !.new = n] \in Job
BY DEF Job

\* The fund a job is at, and its checkpoint.
LEMMA FundType ==
    ASSUME TypeOK, NEW j \in Jobs, pc[j] # "idle", job[j].todo # <<>>
    PROVE  /\ job[j] \in Job /\ job[j].id \in RunIds
           /\ Fund(j) \in Funds /\ Tail(job[j].todo) \in Seq(Funds)
           /\ checks[job[j].id] \in [Funds -> Checkpoint]
           /\ Check(j) \in Checkpoint
<1>1. job[j] \in Job /\ job[j].id \in RunIds
  BY DEF TypeOK
<1>2. job[j].todo \in Seq(Funds)
  BY <1>1, JobFields
<1>3. Fund(j) \in Funds /\ Tail(job[j].todo) \in Seq(Funds)
  BY <1>2, HeadTailProperties DEF Fund
<1> QED
  BY <1>1, <1>3 DEF TypeOK, Check

\* What is left of the local variables when the next fund comes.
LEMMA NextFundType ==
    ASSUME NEW j, NEW l \in Job, l.todo # <<>>
    PROVE  /\ NextFund(j, l) \in Job
           /\ NextFund(j, l).id = l.id /\ NextFund(j, l).funds = l.funds
           /\ NextFund(j, l).todo = Tail(l.todo)
           /\ NextFund(j, l).errors = l.errors /\ NextFund(j, l).mine = l.mine
           /\ NextFund(j, l).new = {}
<1>1. Tail(l.todo) \in Seq(Funds)
  BY JobFields, HeadTailProperties
<1>2. NoCheckpoint \in Checkpoint
  BY EmptyTypes
<1> DEFINE a == [l EXCEPT !.todo = Tail(l.todo)]
           b == [a EXCEPT !.new = {}]
           c == [b EXCEPT !.found = NoCheckpoint]
           d == [c EXCEPT !.last = 0]
<1>3. a \in Job
  BY <1>1, JobUpdates
<1>4. b \in Job
  <2> HIDE DEF a
  <2> QED
    BY <1>3, JobUpdates
<1>5. c \in Job
  <2> HIDE DEF b
  <2> QED
    BY <1>2, <1>4, JobUpdates
<1>6. d \in Job
  <2> HIDE DEF c
  <2> QED
    BY <1>5, JobUpdates
<1>7. NextFund(j, l) = d
  BY DEF NextFund
<1>8. /\ d.id = l.id /\ d.funds = l.funds /\ d.todo = Tail(l.todo) /\ d.errors = l.errors
      /\ d.mine = l.mine /\ d.new = {}
  BY DEF Job
<1> QED
  BY <1>6, <1>7, <1>8

\* The rows a fetched history adds: rows of the fund and of the run, on days
\* of the history that are not in the database.
LEMMA NewRowsType ==
    ASSUME TypeOK, NEW j \in Jobs, pc[j] = "fetch", NEW h \in Histories
    PROVE  /\ NewRows(j, h) \in SUBSET Row
           /\ IsFiniteSet(NewRows(j, h))
           /\ \A r \in NewRows(j, h) :
                 /\ r.run = job[j].id /\ r.fund = Fund(j)
                 /\ \E n \in Wanted(j, h) : r.from = <<j, n>> /\ r.date = h[n]
                 /\ \A s \in rows : s.fund = r.fund => s.date # r.date
<1> DEFINE row(n) == [fund |-> Fund(j), date |-> h[n], run |-> job[j].id, from |-> <<j, n>>]
           g == [n \in DOMAIN h |-> row(n)]
           all == {row(n) : n \in DOMAIN h}
<1>1. h \in Seq(Dates)
  BY BackfillAssumption
<1>2. IsFiniteSet(DOMAIN h) /\ \A n \in DOMAIN h : h[n] \in Dates /\ n \in Nat
  BY <1>1, FS_Interval
<1>3. job[j].id \in RunIds /\ Fund(j) \in Funds
  <2>1. job[j].todo # <<>>
    BY DEF TypeOK
  <2> QED
    BY <2>1, FundType
<1>4. g \in Surjection(DOMAIN h, all)
  BY DEF Surjection
<1>5. IsFiniteSet(all)
  <2> HIDE DEF g, all
  <2> QED
    BY <1>2, <1>4, FS_Surjection
<1>6. NewRows(j, h) \subseteq all
  BY DEF NewRows, Wanted
<1>7. all \in SUBSET Row
  <2>1. \A n \in Nat : <<j, n>> \in Sessions \X Nat
    BY DEF Sessions
  <2> QED
    BY <1>2, <1>3, <2>1 DEF Row
<1>8. ASSUME NEW r \in NewRows(j, h)
      PROVE  /\ r.run = job[j].id /\ r.fund = Fund(j)
             /\ \E n \in Wanted(j, h) : r.from = <<j, n>> /\ r.date = h[n]
             /\ \A s \in rows : s.fund = r.fund => s.date # r.date
  BY DEF NewRows
<1> QED
  BY <1>5, <1>6, <1>7, <1>8, FS_Subset

\* The day a fetched history reaches: the checkpoint's or one of its wanted
\* days, and none of those is later.
LEMMA LastDateType ==
    ASSUME TypeOK, NEW j \in Jobs, pc[j] = "fetch", NEW h \in Histories
    PROVE  /\ LastDate(j, h) \in Nat
           /\ job[j].found.last <= LastDate(j, h)
           /\ \A n \in Wanted(j, h) : h[n] <= LastDate(j, h)
           /\ \/ LastDate(j, h) = job[j].found.last
              \/ \E n \in Wanted(j, h) : LastDate(j, h) = h[n]
<1> DEFINE seen == {h[n] : n \in Wanted(j, h)} \cup {job[j].found.last}
<1>1. h \in Seq(Dates) /\ Dates \subseteq Nat
  BY BackfillAssumption
<1>2. h \in Seq(Nat)
  BY <1>1, SeqMonotonic
<1>3. job[j].found.last \in Nat
  <2>1. job[j] \in Job
    BY DEF TypeOK
  <2>2. job[j].found \in Checkpoint
    BY <2>1, JobFields
  <2> QED
    BY <2>2 DEF Checkpoint
<1>4. PICK b \in Nat : \A n \in DOMAIN h : h[n] <= b
  BY <1>2, BoundedSequence
<1>5. \A n \in Wanted(j, h) : n \in DOMAIN h /\ h[n] \in Nat
  BY <1>2 DEF Wanted
<1>6. PICK c \in Nat : b <= c /\ job[j].found.last <= c
  BY <1>3
<1>7. seen \in SUBSET Nat /\ seen # {} /\ \A d \in seen : d <= c
  BY <1>3, <1>4, <1>5, <1>6
<1>8. \E d \in seen : \A e \in seen : e <= d
  <2> HIDE DEF seen
  <2> QED
    BY <1>7, GreatestNatural
<1>9. LastDate(j, h) = CHOOSE d \in seen : \A e \in seen : e <= d
  BY DEF LastDate
<1>10. LastDate(j, h) \in seen /\ \A e \in seen : e <= LastDate(j, h)
  <2> HIDE DEF seen
  <2> QED
    BY <1>8, <1>9
<1> QED
  BY <1>7, <1>10

\* A step of a job that goes to a label with the local variables it leaves.
LEMMA MoveType ==
    ASSUME TypeOK, NEW j \in Jobs, NEW l \in Labels, NEW v \in Job,
           pc' = [pc EXCEPT ![j] = l], job' = [job EXCEPT ![j] = v],
           l # "idle" => v.id \in RunIds, l \in AtFund => v.todo # <<>>
    PROVE  /\ pc' \in [Jobs -> Labels] /\ job' \in [Jobs -> Job]
           /\ \A k \in Jobs : pc'[k] # "idle" => job'[k].id \in RunIds
           /\ \A k \in Jobs : pc'[k] \in AtFund => job'[k].todo # <<>>
<1>1. pc \in [Jobs -> Labels] /\ job \in [Jobs -> Job]
  BY DEF TypeOK, Labels
<1>2. pc' \in [Jobs -> Labels] /\ job' \in [Jobs -> Job]
  BY <1>1
<1>3. ASSUME NEW k \in Jobs
      PROVE  /\ pc'[k] # "idle" => job'[k].id \in RunIds
             /\ pc'[k] \in AtFund => job'[k].todo # <<>>
  <2>1. CASE k = j
    BY <1>1, <2>1
  <2>2. CASE k # j
    <3>1. pc'[k] = pc[k] /\ job'[k] = job[k]
      BY <1>1, <2>2
    <3> QED
      BY <3>1 DEF TypeOK, AtFund
  <2> QED
    BY <2>1, <2>2
<1> QED
  BY <1>2, <1>3

\* A step that only goes to another label.
LEMMA GotoType ==
    ASSUME TypeOK, NEW j \in Jobs, NEW l \in Labels, pc[j] # "idle",
           pc' = [pc EXCEPT ![j] = l], job' = job, l \in AtFund => pc[j] \in AtFund
    PROVE  /\ pc' \in [Jobs -> Labels] /\ job' \in [Jobs -> Job]
           /\ \A k \in Jobs : pc'[k] # "idle" => job'[k].id \in RunIds
           /\ \A k \in Jobs : pc'[k] \in AtFund => job'[k].todo # <<>>
<1>1. job \in [Jobs -> Job] /\ job[j] \in Job /\ job[j].id \in RunIds
  BY DEF TypeOK
<1>2. job' = [job EXCEPT ![j] = job[j]]
  BY <1>1
<1>3. l \in AtFund => job[j].todo # <<>>
  BY DEF TypeOK, AtFund
<1> QED
  BY <1>1, <1>2, <1>3, MoveType

\* The end of a call.
LEMMA ReturnType ==
    ASSUME TypeOK, NEW j \in Jobs, NEW how \in {"none", "refused", "raised"} \cup Final,
           Return(j, how)
    PROVE  /\ pc' \in [Jobs -> Labels] /\ job' \in [Jobs -> Job]
           /\ \A k \in Jobs : pc'[k] # "idle" => job'[k].id \in RunIds
           /\ \A k \in Jobs : pc'[k] \in AtFund => job'[k].todo # <<>>
           /\ answer' \in [Jobs -> {"none", "refused", "raised"} \cup Final]
<1>1. "idle" \in Labels /\ "idle" \notin AtFund /\ NoJob \in Job
  BY EmptyTypes DEF Labels, AtFund
<1>2. pc' = [pc EXCEPT ![j] = "idle"] /\ job' = [job EXCEPT ![j] = NoJob]
  BY DEF Return, Goto
<1>3. answer' \in [Jobs -> {"none", "refused", "raised"} \cup Final]
  BY DEF Return, TypeOK
<1> QED
  BY <1>1, <1>2, <1>3, MoveType

\* A call with a run_id.
LEMMA BeginType ==
    ASSUME TypeOK, SurroundingsOK', NEW j \in Jobs, NEW r \in RunIds, Begin(j, r)
    PROVE  TypeOK'
<1>1. NoJob \in Job /\ [NoJob EXCEPT !.id = r] \in Job /\ [NoJob EXCEPT !.id = r].id = r
  <2>1. NoJob \in Job
    BY EmptyTypes
  <2> QED
    BY <2>1, JobUpdates DEF NoJob
<1>2. pc' = [pc EXCEPT ![j] = "load"] /\ job' = [job EXCEPT ![j] = [NoJob EXCEPT !.id = r]]
  BY DEF Begin, Goto
<1>3. "load" \in Labels /\ "load" \notin AtFund
  BY DEF Labels, AtFund
<1>4. /\ pc' \in [Jobs -> Labels] /\ job' \in [Jobs -> Job]
      /\ \A k \in Jobs : pc'[k] # "idle" => job'[k].id \in RunIds
      /\ \A k \in Jobs : pc'[k] \in AtFund => job'[k].todo # <<>>
  <2> DEFINE v == [NoJob EXCEPT !.id = r]
  <2>1. v \in Job /\ v.id \in RunIds /\ job' = [job EXCEPT ![j] = v]
    BY <1>1, <1>2
  <2> HIDE DEF v
  <2> QED
    BY <1>2, <1>3, <2>1, MoveType
<1>5. /\ answer' \in [Jobs -> {"none", "refused", "raised"} \cup Final]
      /\ runs' = runs /\ checks' = checks /\ rows' = rows
  BY DEF Begin, database, TypeOK
<1> QED
  BY <1>4, <1>5 DEF TypeOK, Labels, AtFund

\* The run row, and the local variables once it is in the session.
LEMMA LoadedType ==
    ASSUME TypeOK, NEW j \in Jobs, pc[j] # "idle", NEW row \in Run,
           Loaded(j, row), Goto(j, "find")
    PROVE  /\ pc' \in [Jobs -> Labels] /\ job' \in [Jobs -> Job]
           /\ \A k \in Jobs : pc'[k] # "idle" => job'[k].id \in RunIds
           /\ \A k \in Jobs : pc'[k] \in AtFund => job'[k].todo # <<>>
           /\ job'[j].id = job[j].id /\ job'[j].mine = row /\ job'[j].new = job[j].new
           /\ job'[j].errors = row.errors
           /\ job'[j].funds \in Selections /\ job'[j].todo = job'[j].funds
<1>1. job \in [Jobs -> Job] /\ job[j] \in Job /\ job[j].id \in RunIds
  BY DEF TypeOK
<1>2. PICK s \in Selections :
        job' = [job EXCEPT ![j] = [@ EXCEPT !.mine = row, !.errors = row.errors,
                                            !.funds = s, !.todo = s]]
  BY DEF Loaded
<1>3. row.errors \in Seq(Funds) /\ s \in Seq(Funds)
  BY BackfillAssumption DEF Run
<1> DEFINE a == [job[j] EXCEPT !.mine = row]
           b == [a EXCEPT !.errors = row.errors]
           c == [b EXCEPT !.funds = s]
           d == [c EXCEPT !.todo = s]
<1>4. a \in Job
  BY <1>1, JobUpdates
<1>5. b \in Job
  <2> HIDE DEF a
  <2> QED
    BY <1>3, <1>4, JobUpdates
<1>6. c \in Job
  <2> HIDE DEF b
  <2> QED
    BY <1>3, <1>5, JobUpdates
<1>7. d \in Job
  <2> HIDE DEF c
  <2> QED
    BY <1>3, <1>6, JobUpdates
<1>8. job' = [job EXCEPT ![j] = d]
  BY <1>1, <1>2
<1>9. /\ d.id = job[j].id /\ d.mine = row /\ d.new = job[j].new
      /\ d.errors = row.errors /\ d.funds = s /\ d.todo = s
  BY <1>1 DEF Job
<1>10. "find" \in Labels /\ "find" \notin AtFund /\ pc' = [pc EXCEPT ![j] = "find"]
  BY DEF Labels, AtFund, Goto
<1>11. job'[j] = d
  BY <1>1, <1>8
<1> HIDE DEF d
<1> QED
  BY <1>1, <1>7, <1>8, <1>9, <1>10, <1>11, MoveType

\* The local variables after a checkpoint is looked up,
LEMMA FoundJob ==
    ASSUME TypeOK, NEW j \in Jobs, pc[j] = "find", job[j].todo # <<>>
    PROVE  LET v == [job[j] EXCEPT !.found = Check(j)]
           IN  /\ v \in Job
               /\ v.id = job[j].id /\ v.funds = job[j].funds
               /\ v.todo = job[j].todo /\ v.errors = job[j].errors
               /\ v.mine = job[j].mine /\ v.new = job[j].new /\ v.found = Check(j)
<1>1. job[j] \in Job /\ Check(j) \in Checkpoint
  BY FundType
<1>2. [job[j] EXCEPT !.found = Check(j)] \in Job
  BY <1>1, JobUpdates
<1> QED
  BY <1>1, <1>2 DEF Job

\* after a history is fetched,
LEMMA FetchedJob ==
    ASSUME TypeOK, NEW j \in Jobs, pc[j] = "fetch", NEW h \in Histories
    PROVE  LET v == [job[j] EXCEPT !.new = NewRows(j, h), !.last = LastDate(j, h)]
           IN  /\ v \in Job
               /\ v.id = job[j].id /\ v.funds = job[j].funds
               /\ v.todo = job[j].todo /\ v.errors = job[j].errors
               /\ v.mine = job[j].mine /\ v.found = job[j].found
               /\ v.new = NewRows(j, h) /\ v.last = LastDate(j, h)
<1>1. job[j] \in Job
  BY DEF TypeOK
<1>2. NewRows(j, h) \in SUBSET Row /\ LastDate(j, h) \in Nat
  BY NewRowsType, LastDateType
<1> DEFINE a == [job[j] EXCEPT !.new = NewRows(j, h)]
           b == [a EXCEPT !.last = LastDate(j, h)]
<1>3. a \in Job
  BY <1>1, <1>2, JobUpdates
<1>4. b \in Job
  <2> HIDE DEF a
  <2> QED
    BY <1>2, <1>3, JobUpdates
<1>5. b = [job[j] EXCEPT !.new = NewRows(j, h), !.last = LastDate(j, h)]
  OBVIOUS
<1>6. /\ b.id = job[j].id /\ b.funds = job[j].funds /\ b.todo = job[j].todo /\ b.errors = job[j].errors
      /\ b.mine = job[j].mine /\ b.found = job[j].found
      /\ b.new = NewRows(j, h) /\ b.last = LastDate(j, h)
  BY <1>1 DEF Job
<1> QED
  BY <1>4, <1>5, <1>6

\* What a fund adds to the counters of the run.
LEMMA CountedType ==
    ASSUME TypeOK, NEW j \in Jobs, IsFiniteSet(job[j].new)
    PROVE  /\ Counted(j) \in Run
           /\ Counted(j).completed = job[j].mine.completed + 1
           /\ Counted(j).written = job[j].mine.written + Cardinality(job[j].new)
           /\ Counted(j).completed \in Nat /\ Counted(j).written \in Nat
           /\ Counted(j).errors = job[j].mine.errors
<1>1. job[j].mine \in Run
  <2>1. job[j] \in Job
    BY DEF TypeOK
  <2> QED
    BY <2>1, JobFields
<1>2. Cardinality(job[j].new) \in Nat
  BY FS_CardinalityType
<1> DEFINE m == job[j].mine
           c == m.completed + 1
           w == m.written + Cardinality(job[j].new)
           a == [m EXCEPT !.completed = c]
           b == [a EXCEPT !.written = w]
<1>3. c \in Nat /\ w \in Nat
  BY <1>1, <1>2 DEF Run
<1>4. a \in Run /\ a.written = m.written
  BY <1>1, <1>3 DEF Run
<1>5. b = Counted(j)
  BY <1>1, <1>4 DEF Counted
<1>6. b \in Run /\ b.completed = c /\ b.written = w /\ b.errors = m.errors
  <2> HIDE DEF c, w
  <2> QED
    BY <1>1, <1>3 DEF Run
<1> QED
  BY <1>3, <1>5, <1>6

\* after the commit of a fund,
LEMMA CommittedJob ==
    ASSUME TypeOK, NEW j \in Jobs, pc[j] = "commit", IsFiniteSet(job[j].new)
    PROVE  LET v == [NextFund(j, job[j]) EXCEPT !.mine = Counted(j)]
           IN  /\ v \in Job
               /\ v.id = job[j].id /\ v.funds = job[j].funds /\ v.todo = Tail(job[j].todo)
               /\ v.errors = job[j].errors
               /\ v.mine = Counted(j) /\ v.new = {}
<1>1. job[j] \in Job /\ job[j].todo # <<>>
  BY DEF TypeOK
<1> DEFINE u == NextFund(j, job[j])
<1>2. /\ u \in Job /\ u.id = job[j].id /\ u.funds = job[j].funds /\ u.todo = Tail(job[j].todo)
      /\ u.errors = job[j].errors /\ u.new = {}
  BY <1>1, NextFundType
<1>3. Counted(j) \in Run
  BY CountedType
<1> HIDE DEF u
<1>4. [u EXCEPT !.mine = Counted(j)] \in Job
  BY <1>2, <1>3, JobUpdates
<1>5. LET v == [u EXCEPT !.mine = Counted(j)]
      IN  /\ v.id = u.id /\ v.funds = u.funds /\ v.todo = u.todo /\ v.errors = u.errors
          /\ v.mine = Counted(j) /\ v.new = u.new
  BY <1>2 DEF Job
<1> QED
  BY <1>2, <1>4, <1>5 DEF u

\* after the rollback,
LEMMA ExceptJob ==
    ASSUME TypeOK, NEW j \in Jobs, pc[j] = "except"
    PROVE  LET v == [job[j] EXCEPT !.found = Check(j), !.mine = runs[job[j].id], !.new = {},
                                   !.errors = Append(job[j].errors, Fund(j))]
           IN  /\ v \in Job
               /\ v.id = job[j].id /\ v.funds = job[j].funds /\ v.todo = job[j].todo
               /\ v.errors = Append(job[j].errors, Fund(j)) /\ v.errors # <<>>
               /\ v.mine = runs[job[j].id] /\ v.new = {} /\ v.found = Check(j)
<1>1. /\ job[j] \in Job /\ Check(j) \in Checkpoint
      /\ job[j].id \in RunIds /\ Fund(j) \in Funds
  <2>1. job[j].todo # <<>>
    BY DEF TypeOK
  <2> QED
    BY <2>1, FundType
<1>2. runs[job[j].id] \in Run
  BY <1>1 DEF TypeOK
<1>3. job[j].errors \in Seq(Funds)
  BY <1>1, JobFields
<1>4. /\ Append(job[j].errors, Fund(j)) \in Seq(Funds)
      /\ Append(job[j].errors, Fund(j)) # <<>>
  BY <1>1, <1>3
<1> DEFINE e == Append(job[j].errors, Fund(j))
           a == [job[j] EXCEPT !.found = Check(j)]
           b == [a EXCEPT !.mine = runs[job[j].id]]
           c == [b EXCEPT !.new = {}]
           d == [c EXCEPT !.errors = e]
<1>5. a \in Job
  BY <1>1, JobUpdates
<1>6. b \in Job
  <2> HIDE DEF a
  <2> QED
    BY <1>2, <1>5, JobUpdates
<1>7. c \in Job
  <2> HIDE DEF b
  <2> QED
    BY <1>6, JobUpdates
<1>8. d \in Job
  <2> HIDE DEF c, e
  <2> QED
    BY <1>4, <1>7, JobUpdates DEF e
<1>9. /\ d.id = job[j].id /\ d.funds = job[j].funds /\ d.todo = job[j].todo /\ d.errors = e
      /\ d.mine = runs[job[j].id] /\ d.new = {} /\ d.found = Check(j)
  BY <1>1 DEF Job
<1>10. d = [job[j] EXCEPT !.found = Check(j), !.mine = runs[job[j].id], !.new = {},
                          !.errors = Append(job[j].errors, Fund(j))]
  BY <1>1 DEF Job
<1> QED
  BY <1>4, <1>8, <1>9, <1>10

\* and after the error is noted.
LEMMA NotedJob ==
    ASSUME TypeOK, NEW j \in Jobs, pc[j] = "note"
    PROVE  LET v == [NextFund(j, job[j]) EXCEPT !.mine.errors = job[j].errors]
           IN  /\ v \in Job
               /\ v.id = job[j].id /\ v.funds = job[j].funds /\ v.todo = Tail(job[j].todo)
               /\ v.errors = job[j].errors
               /\ v.mine.completed = job[j].mine.completed
               /\ v.mine.written = job[j].mine.written
               /\ v.new = {}
<1>1. job[j] \in Job /\ job[j].todo # <<>>
  BY DEF TypeOK
<1> DEFINE u == NextFund(j, job[j])
           m == [u.mine EXCEPT !.errors = job[j].errors]
<1>2. /\ u \in Job /\ u.id = job[j].id /\ u.funds = job[j].funds /\ u.todo = Tail(job[j].todo)
      /\ u.errors = job[j].errors /\ u.mine = job[j].mine /\ u.new = {}
  BY <1>1, NextFundType
<1>3. job[j].errors \in Seq(Funds) /\ u.mine \in Run
  BY <1>1, <1>2, JobFields
<1> HIDE DEF u
<1>4. m \in Run /\ m.completed = u.mine.completed /\ m.written = u.mine.written
  BY <1>3 DEF Run
<1>5. [u EXCEPT !.mine = m] \in Job
  <2> HIDE DEF m
  <2> QED
    BY <1>2, <1>4, JobUpdates
<1>6. LET v == [u EXCEPT !.mine = m]
      IN  /\ v.id = u.id /\ v.funds = u.funds /\ v.todo = u.todo /\ v.errors = u.errors
          /\ v.mine = m /\ v.new = u.new
  BY <1>2 DEF Job
<1>7. [u EXCEPT !.mine = m] = [u EXCEPT !.mine.errors = job[j].errors]
  BY <1>2 DEF Job
<1> HIDE DEF m
<1> QED
  BY <1>2, <1>4, <1>5, <1>6, <1>7 DEF u

\* What is counted is finite.
Done(id) == {f \in Funds : checks[id][f].status = "completed"}
Finite ==
    /\ IsFiniteSet(rows)
    /\ \A j \in Jobs : IsFiniteSet(job[j].new)
    /\ \A i \in Refreshes : IsFiniteSet(refresh[i])
    /\ \A id \in RunIds : IsFiniteSet(Done(id))
TypeInv == TypeOK /\ Finite

LEMMA TypeInit == Init => TypeInv
<1> SUFFICES ASSUME Init PROVE TypeInv
  OBVIOUS
<1>1. \A id \in RunIds : Done(id) = {}
  BY DEF Init, Done, NoCheckpoint
<1>2. \A j \in Jobs : job[j].new = {} /\ pc[j] = "idle"
  BY EmptyTypes DEF Init
<1>3. TypeOK
  BY EmptyTypes, <1>2 DEF Init, TypeOK, SurroundingsOK
<1>4. rows = {} /\ \A i \in Refreshes : refresh[i] = {}
  BY DEF Init
<1>5. Finite
  BY <1>1, <1>2, <1>4, FS_EmptySet DEF Finite
<1> QED
  BY <1>3, <1>5 DEF TypeInv

\* The days that become contended are days of rows.
LEMMA AddType ==
    ASSUME contended \subseteq Funds \X Dates, NEW x, NEW N \in SUBSET Row, Add(x, N)
    PROVE  contended' \subseteq Funds \X Dates
<1>1. \A r \in N : Day(r) \in Funds \X Dates
  BY DEF Day, Row
<1> QED
  BY <1>1 DEF Add

\* The rows of a refresh carry its name.
LEMMA AddsType ==
    ASSUME SurroundingsOK, NEW i \in Refreshes, NEW f \in Funds, NEW d \in RefreshDates,
           NEW part \in {0, 1}
    PROVE  LET new == refresh[i] \cup {[fund |-> f, date |-> d, run |-> i, from |-> <<i, part>>]}
           IN  new \in SUBSET Row /\ \A r \in new : r.run = i
<1> DEFINE r == [fund |-> f, date |-> d, run |-> i, from |-> <<i, part>>]
<1>1. <<i, part>> \in Sessions \X Nat /\ d \in Dates
  BY BackfillAssumption DEF Sessions
<1>2. r \in Row /\ r.run = i
  BY <1>1 DEF Row
<1> HIDE DEF r
<1>3. refresh[i] \in SUBSET Row /\ \A s \in refresh[i] : s.run = i
  BY DEF SurroundingsOK
<1> QED
  BY <1>2, <1>3 DEF r

LEMMA SurroundingsStep == TypeOK /\ [Next]_vars => SurroundingsOK'
<1> SUFFICES ASSUME TypeOK, [Next]_vars PROVE SurroundingsOK'
  OBVIOUS
<1>0. SurroundingsOK
  BY DEF TypeOK
<1>1. ASSUME refresh' = refresh, contended' = contended, faults' \in Nat PROVE SurroundingsOK'
  BY <1>0, <1>1 DEF SurroundingsOK
<1>2. faults \in Nat /\ faults + 1 \in Nat
  BY <1>0 DEF SurroundingsOK
<1>3. ASSUME NEW j \in Jobs, FetchHistory(j) PROVE SurroundingsOK'
  <2>1. PICK h \in Histories : Add(j, NewRows(j, h))
    BY <1>3 DEF FetchHistory
  <2>2. pc[j] = "fetch" /\ refresh' = refresh /\ faults' = faults
    BY <1>3 DEF FetchHistory
  <2>3. contended' \subseteq Funds \X Dates
    BY <1>0, <2>1, <2>2, NewRowsType, AddType DEF SurroundingsOK
  <2> QED
    BY <1>0, <2>2, <2>3 DEF SurroundingsOK
<1>4. ASSUME NEW j \in Jobs, Call(j) PROVE SurroundingsOK'
  BY <1>1, <1>2, <1>4 DEF Call, ApiRefuse, ApiCall, ScriptCall, Begin, surroundings
<1>5. ASSUME NEW j \in Jobs, Step(j), ~FetchHistory(j) PROVE SurroundingsOK'
  BY <1>1, <1>2, <1>5
     DEF Step, LoadRun, InsertRun, InsertRunConflicts, FindCheckpoint, CommitFund,
         CommitConflicts, Except, NoteError, NoteConflicts, Finish, FinishTooLong, surroundings
<1>6. ASSUME NEW j \in Jobs, Failure(j) PROVE SurroundingsOK'
  BY <1>1, <1>2, <1>6 DEF Failure, FetchFails, CommitFails, NoteFails, DatabaseFails, Fault
<1>7. ASSUME NEW dead, Crash(dead) PROVE SurroundingsOK'
  BY <1>1, <1>2, <1>7 DEF Crash, Fault
<1>8. ASSUME NEW i \in Refreshes, Refresh(i) PROVE SurroundingsOK'
  <2>1. CASE RefreshCommits(i) \/ RefreshRollsBack(i)
    BY <1>0, <2>1 DEF RefreshCommits, RefreshRollsBack, SurroundingsOK
  <2>2. ASSUME NEW f \in Funds, NEW d \in RefreshDates, NEW part \in {0, 1},
               RefreshAdds(i, f, d, part)
        PROVE  SurroundingsOK'
    <3> DEFINE new == refresh[i] \cup {[fund |-> f, date |-> d, run |-> i, from |-> <<i, part>>]}
    <3>1. refresh' = [refresh EXCEPT ![i] = new] /\ Add(i, new) /\ faults' = faults
      BY <2>2 DEF RefreshAdds
    <3>2. new \in SUBSET Row /\ \A r \in new : r.run = i
      BY <1>0, AddsType
    <3> HIDE DEF new
    <3>3. contended' \subseteq Funds \X Dates
      BY <1>0, <3>1, <3>2, AddType DEF SurroundingsOK
    <3> QED
      BY <1>0, <3>1, <3>2, <3>3 DEF SurroundingsOK
  <2> QED
    BY <1>8, <2>1, <2>2 DEF Refresh
<1>9. CASE UNCHANGED vars
  BY <1>1, <1>2, <1>9 DEF vars
<1> QED
  BY <1>3, <1>4, <1>5, <1>6, <1>7, <1>8, <1>9 DEF Next, Finished

LEMMA TypeOKStep == TypeInv /\ [Next]_vars => TypeOK'
<1> SUFFICES ASSUME TypeInv, [Next]_vars PROVE TypeOK'
  OBVIOUS
<1>0. TypeOK /\ Finite /\ SurroundingsOK'
  BY SurroundingsStep DEF TypeInv
<1> USE DEF Labels, AtFund
<1>1. ASSUME NEW j \in Jobs, ApiRefuse(j) PROVE TypeOK'
  BY <1>0, <1>1 DEF ApiRefuse, TypeOK, database
<1>2. ASSUME NEW j \in Jobs, ApiCall(j) PROVE TypeOK'
  <2>1. PICK r \in Fresh : Begin(j, r)
    BY <1>2 DEF ApiCall
  <2>2. r \in RunIds
    BY DEF Fresh
  <2> QED
    BY <1>0, <2>1, <2>2, BeginType
<1>3. ASSUME NEW j \in Jobs, ScriptCall(j) PROVE TypeOK'
  <2>1. PICK r \in RunIds : Begin(j, r)
    BY <1>3 DEF ScriptCall, Fresh
  <2> QED
    BY <1>0, <2>1, BeginType
<1>4. ASSUME NEW j \in Jobs, LoadRun(j) PROVE TypeOK'
  <2>1. runs' = runs /\ checks' = checks /\ rows' = rows /\ answer' = answer
    BY <1>4 DEF LoadRun, database
  <2>2. CASE job[j].id \in Existing
    <3>1. Loaded(j, runs[job[j].id]) /\ Goto(j, "find") /\ pc[j] # "idle"
      BY <1>4, <2>2 DEF LoadRun
    <3>2. runs[job[j].id] \in Run
      BY <1>0, <2>2 DEF TypeOK, Existing
    <3> QED
      BY <1>0, <2>1, <3>1, <3>2, LoadedType DEF TypeOK
  <2>3. CASE job[j].id \notin Existing
    <3>1. pc' = [pc EXCEPT ![j] = "insert"] /\ job' = job /\ pc[j] # "idle"
      BY <1>4, <2>3 DEF LoadRun, Goto
    <3>2. /\ pc' \in [Jobs -> Labels] /\ job' \in [Jobs -> Job]
          /\ \A k \in Jobs : pc'[k] # "idle" => job'[k].id \in RunIds
          /\ \A k \in Jobs : pc'[k] \in AtFund => job'[k].todo # <<>>
      BY <1>0, <3>1, GotoType
    <3> QED
      BY <1>0, <2>1, <3>2 DEF TypeOK
  <2> QED
    BY <2>2, <2>3
<1>5. ASSUME NEW j \in Jobs, InsertRun(j) PROVE TypeOK'
  <2>1. NewRun \in Run /\ job[j].id \in RunIds /\ pc[j] # "idle"
    BY <1>0, <1>5, EmptyTypes DEF InsertRun, TypeOK
  <2>2. runs' \in [RunIds -> Run]
    BY <1>0, <1>5, <2>1 DEF InsertRun, TypeOK
  <2>3. /\ checks' = checks /\ rows' = rows /\ answer' = answer
        /\ Loaded(j, NewRun) /\ Goto(j, "find")
    BY <1>5 DEF InsertRun
  <2> QED
    BY <1>0, <2>1, <2>2, <2>3, LoadedType DEF TypeOK
<1>6. ASSUME NEW j \in Jobs, NEW how \in {"none", "refused", "raised"} \cup Final,
             Return(j, how), runs' \in [RunIds -> Run], checks' = checks, rows' = rows
      PROVE  TypeOK'
  <2>1. /\ pc' \in [Jobs -> Labels] /\ job' \in [Jobs -> Job]
        /\ \A k \in Jobs : pc'[k] # "idle" => job'[k].id \in RunIds
        /\ \A k \in Jobs : pc'[k] \in AtFund => job'[k].todo # <<>>
        /\ answer' \in [Jobs -> {"none", "refused", "raised"} \cup Final]
    BY <1>0, <1>6, ReturnType
  <2>2. checks' \in [RunIds -> [Funds -> Checkpoint]] /\ rows' \subseteq Row
    BY <1>0, <1>6 DEF TypeOK
  <2> QED
    BY <1>0, <1>6, <2>1, <2>2 DEF TypeOK
<1>7. ASSUME NEW j \in Jobs, Raise(j), UNCHANGED database PROVE TypeOK'
  <2>1. runs' = runs /\ checks' = checks /\ rows' = rows /\ runs \in [RunIds -> Run]
    BY <1>0, <1>7 DEF database, TypeOK
  <2> QED
    BY <1>6, <1>7, <2>1 DEF Raise
<1>8. ASSUME NEW j \in Jobs, InsertRunConflicts(j) PROVE TypeOK'
  BY <1>0, <1>7, <1>8 DEF InsertRunConflicts, TypeOK
<1>9. ASSUME NEW j \in Jobs, FindCheckpoint(j) PROVE TypeOK'
  <2>1. /\ pc[j] = "find" /\ job[j].todo # <<>>
        /\ runs' = runs /\ checks' = checks /\ rows' = rows
        /\ answer' = answer
    BY <1>9 DEF FindCheckpoint, database
  <2>2. job[j] \in Job /\ job[j].id \in RunIds
    BY <1>0, <2>1 DEF TypeOK
  <2>3. CASE Skippable(Check(j))
    <3> DEFINE v == NextFund(j, job[j])
    <3>1. v \in Job /\ v.id = job[j].id
      BY <2>1, <2>2, NextFundType
    <3>2. pc' = pc /\ job' = [job EXCEPT ![j] = NextFund(j, @)]
      BY <1>9, <2>3 DEF FindCheckpoint
    <3>3. job' = [job EXCEPT ![j] = v]
      BY <1>0, <3>2 DEF TypeOK
    <3>4. pc' = [pc EXCEPT ![j] = "find"]
      BY <1>0, <2>1, <3>2 DEF TypeOK
    <3> HIDE DEF v
    <3>5. /\ pc' \in [Jobs -> Labels] /\ job' \in [Jobs -> Job]
          /\ \A k \in Jobs : pc'[k] # "idle" => job'[k].id \in RunIds
          /\ \A k \in Jobs : pc'[k] \in AtFund => job'[k].todo # <<>>
      BY <1>0, <2>2, <3>1, <3>3, <3>4, MoveType
    <3> QED
      BY <1>0, <2>1, <3>5 DEF TypeOK
  <2>4. CASE ~Skippable(Check(j))
    <3> DEFINE v == [job[j] EXCEPT !.found = Check(j)]
    <3>1. v \in Job /\ v.id = job[j].id /\ v.todo = job[j].todo
      BY <1>0, <2>1, FoundJob
    <3>2. job' = [job EXCEPT ![j] = v] /\ pc' = [pc EXCEPT ![j] = "fetch"]
      BY <1>0, <1>9, <2>4 DEF FindCheckpoint, Goto, TypeOK
    <3> HIDE DEF v
    <3>3. /\ pc' \in [Jobs -> Labels] /\ job' \in [Jobs -> Job]
          /\ \A k \in Jobs : pc'[k] # "idle" => job'[k].id \in RunIds
          /\ \A k \in Jobs : pc'[k] \in AtFund => job'[k].todo # <<>>
      BY <1>0, <2>1, <2>2, <3>1, <3>2, MoveType
    <3> QED
      BY <1>0, <2>1, <3>3 DEF TypeOK
  <2> QED
    BY <2>3, <2>4
<1>10. ASSUME NEW j \in Jobs, FetchHistory(j) PROVE TypeOK'
  <2>1. PICK h \in Histories :
          job' = [job EXCEPT ![j] = [@ EXCEPT !.new = NewRows(j, h), !.last = LastDate(j, h)]]
    BY <1>10 DEF FetchHistory
  <2>2. /\ pc[j] = "fetch" /\ pc' = [pc EXCEPT ![j] = "commit"]
        /\ runs' = runs /\ checks' = checks /\ rows' = rows
        /\ answer' = answer
    BY <1>10 DEF FetchHistory, Goto, database
  <2> DEFINE v == [job[j] EXCEPT !.new = NewRows(j, h), !.last = LastDate(j, h)]
  <2>3. v \in Job /\ v.id = job[j].id /\ v.todo = job[j].todo
    BY <1>0, <2>2, FetchedJob
  <2>4. job[j].id \in RunIds /\ job[j].todo # <<>> /\ job' = [job EXCEPT ![j] = v]
    BY <1>0, <2>1, <2>2 DEF TypeOK
  <2> HIDE DEF v
  <2>5. /\ pc' \in [Jobs -> Labels] /\ job' \in [Jobs -> Job]
        /\ \A k \in Jobs : pc'[k] # "idle" => job'[k].id \in RunIds
        /\ \A k \in Jobs : pc'[k] \in AtFund => job'[k].todo # <<>>
    BY <1>0, <2>2, <2>3, <2>4, MoveType
  <2> QED
    BY <1>0, <2>2, <2>5 DEF TypeOK
<1>11. ASSUME NEW j \in Jobs, pc[j] \in {"fetch", "commit"}, Goto(j, "except"),
              UNCHANGED <<database, job, answer>>
       PROVE  TypeOK'
  <2>1. pc' = [pc EXCEPT ![j] = "except"] /\ job' = job /\ pc[j] # "idle"
    BY <1>11 DEF Goto
  <2>2. /\ pc' \in [Jobs -> Labels] /\ job' \in [Jobs -> Job]
        /\ \A k \in Jobs : pc'[k] # "idle" => job'[k].id \in RunIds
        /\ \A k \in Jobs : pc'[k] \in AtFund => job'[k].todo # <<>>
    BY <1>0, <1>11, <2>1, GotoType
  <2> QED
    BY <1>0, <1>11, <2>2 DEF TypeOK, database
<1>12. ASSUME NEW j \in Jobs, FetchFails(j) PROVE TypeOK'
  BY <1>0, <1>11, <1>12 DEF FetchFails, Fault, TypeOK
<1>13. ASSUME NEW j \in Jobs, CommitFund(j) PROVE TypeOK'
  <2>1. /\ pc[j] = "commit" /\ pc' = [pc EXCEPT ![j] = "find"]
        /\ answer' = answer /\ rows' = rows \cup job[j].new
    BY <1>13 DEF CommitFund, Goto
  <2>2. IsFiniteSet(job[j].new) /\ job[j] \in Job /\ job[j].id \in RunIds /\ job[j].todo # <<>>
    BY <1>0, <2>1 DEF Finite, TypeOK
  <2>3. job[j].last \in Nat /\ job[j].new \in SUBSET Row /\ Fund(j) \in Funds
    BY <1>0, <2>1, <2>2, JobFields, FundType
  <2>4. Counted(j) \in Run /\ Counted(j).completed \in Nat /\ Counted(j).written \in Nat
    BY <1>0, <2>2, CountedType
  <2> DEFINE v == [NextFund(j, job[j]) EXCEPT !.mine = Counted(j)]
  <2>5. v \in Job /\ v.id = job[j].id
    BY <1>0, <2>1, <2>2, CommittedJob
  <2>6. job' = [job EXCEPT ![j] = v]
    BY <1>0, <1>13 DEF CommitFund, TypeOK
  <2> HIDE DEF v
  <2>7. /\ pc' \in [Jobs -> Labels] /\ job' \in [Jobs -> Job]
        /\ \A k \in Jobs : pc'[k] # "idle" => job'[k].id \in RunIds
        /\ \A k \in Jobs : pc'[k] \in AtFund => job'[k].todo # <<>>
    BY <1>0, <2>1, <2>2, <2>5, <2>6, MoveType
  <2>8. rows' \subseteq Row
    BY <1>0, <2>1, <2>3 DEF TypeOK
  <2>9. checks' \in [RunIds -> [Funds -> Checkpoint]]
    <3>1. [status |-> "completed", last |-> job[j].last] \in Checkpoint
      BY <2>3 DEF Checkpoint
    <3> QED
      BY <1>0, <1>13, <2>2, <2>3, <3>1 DEF CommitFund, TypeOK
  <2>10. runs' \in [RunIds -> Run]
    <3>1. runs[job[j].id] \in Run
      BY <1>0, <2>2 DEF TypeOK
    <3> DEFINE a == [runs[job[j].id] EXCEPT !.completed = Counted(j).completed]
               b == [a EXCEPT !.written = Counted(j).written]
    <3>2. a \in Run
      BY <2>4, <3>1 DEF Run
    <3>3. b \in Run
      <4> HIDE DEF a
      <4> QED
        BY <2>4, <3>2 DEF Run
    <3>4. runs' = [runs EXCEPT ![job[j].id] = b]
      BY <1>0, <1>13, <2>2 DEF CommitFund, TypeOK
    <3> HIDE DEF b
    <3> QED
      BY <1>0, <2>2, <3>3, <3>4 DEF TypeOK
  <2> QED
    BY <1>0, <2>1, <2>7, <2>8, <2>9, <2>10 DEF TypeOK
<1>14. ASSUME NEW j \in Jobs, CommitConflicts(j) PROVE TypeOK'
  BY <1>0, <1>11, <1>14 DEF CommitConflicts, TypeOK
<1>15. ASSUME NEW j \in Jobs, CommitFails(j) PROVE TypeOK'
  BY <1>0, <1>11, <1>15 DEF CommitFails, Fault, TypeOK
<1>16. ASSUME NEW j \in Jobs, Except(j) PROVE TypeOK'
  <2>1. /\ pc[j] = "except" /\ pc' = [pc EXCEPT ![j] = "note"]
        /\ runs' = runs /\ checks' = checks /\ rows' = rows
        /\ answer' = answer
    BY <1>16 DEF Except, Goto, database
  <2> DEFINE v == [job[j] EXCEPT !.found = Check(j), !.mine = runs[job[j].id], !.new = {},
                                 !.errors = Append(job[j].errors, Fund(j))]
  <2>2. v \in Job /\ v.id = job[j].id /\ v.todo = job[j].todo
    BY <1>0, <2>1, ExceptJob
  <2>3. job[j].id \in RunIds /\ job[j].todo # <<>>
    BY <1>0, <2>1 DEF TypeOK
  <2>5. job' = [job EXCEPT ![j] = v]
    BY <1>16 DEF Except
  <2> HIDE DEF v
  <2>4. /\ pc' \in [Jobs -> Labels] /\ job' \in [Jobs -> Job]
        /\ \A k \in Jobs : pc'[k] # "idle" => job'[k].id \in RunIds
        /\ \A k \in Jobs : pc'[k] \in AtFund => job'[k].todo # <<>>
    BY <1>0, <2>1, <2>2, <2>3, <2>5, MoveType
  <2> QED
    BY <1>0, <2>1, <2>4 DEF TypeOK
<1>17. ASSUME NEW j \in Jobs, NoteError(j) PROVE TypeOK'
  <2>1. /\ pc[j] = "note" /\ pc' = [pc EXCEPT ![j] = "find"]
        /\ rows' = rows /\ answer' = answer
    BY <1>17 DEF NoteError, Goto
  <2>2. job[j] \in Job /\ job[j].id \in RunIds /\ job[j].todo # <<>>
    BY <1>0, <2>1 DEF TypeOK
  <2>3. Fund(j) \in Funds /\ job[j].errors \in Seq(Funds) /\ Check(j) \in Checkpoint
    BY <1>0, <2>1, <2>2, JobFields, FundType
  <2> DEFINE v == [NextFund(j, job[j]) EXCEPT !.mine.errors = job[j].errors]
  <2>4. v \in Job /\ v.id = job[j].id
    BY <1>0, <2>1, NotedJob
  <2>5. job' = [job EXCEPT ![j] = v]
    BY <1>0, <1>17 DEF NoteError, TypeOK
  <2> HIDE DEF v
  <2>6. /\ pc' \in [Jobs -> Labels] /\ job' \in [Jobs -> Job]
        /\ \A k \in Jobs : pc'[k] # "idle" => job'[k].id \in RunIds
        /\ \A k \in Jobs : pc'[k] \in AtFund => job'[k].todo # <<>>
    BY <1>0, <2>1, <2>2, <2>4, <2>5, MoveType
  <2>7. checks' \in [RunIds -> [Funds -> Checkpoint]]
    <3> DEFINE c == [Check(j) EXCEPT !.status = "error"]
    <3>1. c \in Checkpoint
      BY <2>3 DEF Checkpoint
    <3>2. checks' = [checks EXCEPT ![job[j].id] = [checks[job[j].id] EXCEPT ![Fund(j)] = c]]
      BY <1>17 DEF NoteError, Check
    <3> HIDE DEF c
    <3> QED
      BY <1>0, <2>2, <2>3, <3>1, <3>2 DEF TypeOK
  <2>8. runs' \in [RunIds -> Run]
    <3> DEFINE m == [runs[job[j].id] EXCEPT !.errors = job[j].errors]
    <3>1. m \in Run
      BY <1>0, <2>2, <2>3 DEF TypeOK, Run
    <3>2. runs' = [runs EXCEPT ![job[j].id] = m]
      BY <1>17 DEF NoteError
    <3> HIDE DEF m
    <3> QED
      BY <1>0, <3>1, <3>2 DEF TypeOK
  <2> QED
    BY <1>0, <2>1, <2>6, <2>7, <2>8 DEF TypeOK
<1>18. ASSUME NEW j \in Jobs, NoteConflicts(j) PROVE TypeOK'
  BY <1>0, <1>7, <1>18 DEF NoteConflicts, TypeOK
<1>19. ASSUME NEW j \in Jobs, NoteFails(j) PROVE TypeOK'
  BY <1>0, <1>7, <1>19 DEF NoteFails, Fault, TypeOK
<1>20. ASSUME NEW j \in Jobs, Finish(j) PROVE TypeOK'
  <2>1. Outcome(j) \in Final
    BY DEF Outcome, Final
  <2>2. runs' = [runs EXCEPT ![job[j].id] = [runs[job[j].id] EXCEPT !.status = Outcome(j)]]
    BY <1>20 DEF Finish
  <2>3. job[j].id \in RunIds
    BY <1>0, <1>20 DEF Finish, AtEnd, TypeOK
  <2>4. [runs[job[j].id] EXCEPT !.status = Outcome(j)] \in Run
    BY <1>0, <2>1, <2>3 DEF TypeOK, Run
  <2>5. runs' \in [RunIds -> Run]
    BY <1>0, <2>2, <2>4 DEF TypeOK
  <2>6. /\ Return(j, Outcome(j)) /\ checks' = checks /\ rows' = rows
    BY <1>0, <1>20 DEF Finish, TypeOK
  <2> QED
    BY <1>6, <2>1, <2>5, <2>6
<1>21. ASSUME NEW j \in Jobs, FinishTooLong(j) PROVE TypeOK'
  BY <1>0, <1>7, <1>21 DEF FinishTooLong, TypeOK
<1>22. ASSUME NEW j \in Jobs, DatabaseFails(j) PROVE TypeOK'
  BY <1>0, <1>7, <1>22 DEF DatabaseFails, Fault, TypeOK
<1>23. ASSUME NEW dead, Crash(dead) PROVE TypeOK'
  <2>1. NoJob \in Job
    BY EmptyTypes
  <2>2. /\ pc' \in [Jobs -> Labels] /\ job' \in [Jobs -> Job]
        /\ answer' \in [Jobs -> {"none", "refused", "raised"} \cup Final]
    BY <1>0, <1>23, <2>1 DEF Crash, TypeOK
  <2>3. \A k \in Jobs : pc'[k] # "idle" => pc'[k] = pc[k] /\ job'[k] = job[k]
    BY <1>23 DEF Crash
  <2>4. runs' = runs /\ checks' = checks /\ rows' = rows
    BY <1>0, <1>23 DEF Crash, Fault, database, TypeOK
  <2> QED
    BY <1>0, <2>2, <2>3, <2>4 DEF TypeOK
<1>24. ASSUME NEW i \in Refreshes, Refresh(i) PROVE TypeOK'
  <2>1. runs' = runs /\ checks' = checks /\ pc' = pc /\ job' = job /\ answer' = answer
    BY <1>24 DEF Refresh, RefreshAdds, RefreshCommits, RefreshRollsBack, database
  <2>2. rows' \subseteq rows \cup refresh[i]
    BY <1>24 DEF Refresh, RefreshAdds, RefreshCommits, RefreshRollsBack, database
  <2>3. rows' \subseteq Row
    BY <1>0, <2>2 DEF TypeOK, SurroundingsOK
  <2> QED
    BY <1>0, <2>1, <2>3 DEF TypeOK
<1>25. CASE UNCHANGED vars
  BY <1>0, <1>25 DEF vars, database, TypeOK
<1> QED
  BY <1>1, <1>2, <1>3, <1>4, <1>5, <1>8, <1>9, <1>10, <1>12, <1>13, <1>14, <1>15, <1>16,
     <1>17, <1>18, <1>19, <1>20, <1>21, <1>22, <1>23, <1>24, <1>25
     DEF Next, Call, Step, Failure, Finished

(***************************************************************************)
(* The steps, with what they leave in the local variables.                 *)
(***************************************************************************)
\* The refreshes and the other calls are where they were.
Others(j) == refresh' = refresh /\ \A k \in Jobs \ {j} : pc'[k] = pc[k] /\ job'[k] = job[k]

\* A call begins, ends, dies, or goes elsewhere with the variables it has.
QuietAt(k) ==
    \/ pc'[k] = pc[k] /\ job'[k] = job[k]
    \/ pc'[k] = "idle" /\ job'[k] = NoJob
    \/ pc'[k] = "load" /\ job'[k].new = {}
    \/ pc[k] = "load" /\ pc'[k] = "insert" /\ job'[k] = job[k]
    \/ pc[k] \in {"fetch", "commit"} /\ pc'[k] = "except" /\ job'[k] = job[k]
Quiet == UNCHANGED database /\ refresh' = refresh /\ \A k \in Jobs : QuietAt(k)

LoadExisting(j) == LoadRun(j) /\ job[j].id \in Existing
Active(j) ==
    \/ LoadExisting(j) \/ InsertRun(j) \/ FindCheckpoint(j) \/ FetchHistory(j)
    \/ CommitFund(j) \/ Except(j) \/ NoteError(j) \/ Finish(j)

LEMMA ActiveOthers ==
    ASSUME TypeOK, NEW j \in Jobs, Active(j)
    PROVE  Others(j)
<1>1. pc \in [Jobs -> Labels] /\ job \in [Jobs -> Job]
  BY DEF TypeOK, Labels
<1>2. CASE LoadExisting(j)
  BY <1>1, <1>2 DEF LoadExisting, LoadRun, Loaded, Goto, Others, surroundings
<1>3. CASE InsertRun(j)
  BY <1>1, <1>3 DEF InsertRun, Loaded, Goto, Others, surroundings
<1>4. CASE FindCheckpoint(j)
  BY <1>1, <1>4 DEF FindCheckpoint, Goto, Others, surroundings
<1>5. CASE FetchHistory(j)
  BY <1>1, <1>5 DEF FetchHistory, Goto, Others, surroundings
<1>6. CASE CommitFund(j)
  BY <1>1, <1>6 DEF CommitFund, Goto, Others, surroundings
<1>7. CASE Except(j)
  BY <1>1, <1>7 DEF Except, Goto, Others, surroundings
<1>8. CASE NoteError(j)
  BY <1>1, <1>8 DEF NoteError, Goto, Others, surroundings
<1>9. CASE Finish(j)
  BY <1>1, <1>9 DEF Finish, Return, Goto, Others, surroundings
<1> QED
  BY <1>2, <1>3, <1>4, <1>5, <1>6, <1>7, <1>8, <1>9 DEF Active

LEMMA StepCases ==
    ASSUME TypeOK, [Next]_vars
    PROVE  \/ Quiet
           \/ \E j \in Jobs : Active(j) /\ Others(j)
           \/ \E i \in Refreshes : Refresh(i)
<1>1. pc \in [Jobs -> Labels] /\ job \in [Jobs -> Job]
  BY DEF TypeOK, Labels
<1>2. ASSUME NEW j \in Jobs, NEW how, Return(j, how), UNCHANGED database, refresh' = refresh
      PROVE  Quiet
  BY <1>1, <1>2 DEF Return, Goto, Quiet, QuietAt
<1>3. ASSUME NEW j \in Jobs, NEW r \in RunIds, Begin(j, r)
      PROVE  Quiet
  <2>1. [NoJob EXCEPT !.id = r].new = {}
    BY DEF NoJob
  <2>2. pc'[j] = "load" /\ job'[j].new = {}
    BY <1>1, <1>3, <2>1 DEF Begin, Goto
  <2>3. \A k \in Jobs \ {j} : pc'[k] = pc[k] /\ job'[k] = job[k]
    BY <1>1, <1>3 DEF Begin, Goto
  <2>4. UNCHANGED database /\ refresh' = refresh
    BY <1>3 DEF Begin, database, surroundings
  <2> QED
    BY <2>2, <2>3, <2>4 DEF Quiet, QuietAt
<1>4. ASSUME NEW j \in Jobs, Call(j)
      PROVE  Quiet
  <2>1. CASE ApiRefuse(j)
    BY <2>1 DEF ApiRefuse, Quiet, QuietAt, database, surroundings
  <2>2. CASE ApiCall(j)
    BY <1>3, <2>2 DEF ApiCall, Fresh
  <2>3. CASE ScriptCall(j)
    BY <1>3, <2>3 DEF ScriptCall, Fresh
  <2> QED
    BY <1>4, <2>1, <2>2, <2>3 DEF Call
<1>5. ASSUME NEW j \in Jobs, Failure(j)
      PROVE  Quiet
  <2>1. CASE FetchFails(j)
    BY <1>1, <2>1 DEF FetchFails, Goto, Quiet, QuietAt, database, surroundings
  <2>2. CASE CommitFails(j)
    BY <1>1, <2>2 DEF CommitFails, Goto, Quiet, QuietAt, database, surroundings
  <2>3. CASE NoteFails(j)
    BY <1>2, <2>3 DEF NoteFails, Raise, surroundings
  <2>4. CASE DatabaseFails(j)
    BY <1>2, <2>4 DEF DatabaseFails, Raise, surroundings
  <2> QED
    BY <1>5, <2>1, <2>2, <2>3, <2>4 DEF Failure
<1>6. ASSUME NEW j \in Jobs, Step(j)
      PROVE  Quiet \/ Active(j)
  <2>1. CASE LoadRun(j) /\ job[j].id \notin Existing
    BY <1>1, <2>1 DEF LoadRun, Goto, Quiet, QuietAt, database, surroundings
  <2>2. CASE InsertRunConflicts(j)
    BY <1>2, <2>2 DEF InsertRunConflicts, Raise, surroundings
  <2>3. CASE CommitConflicts(j)
    BY <1>1, <2>3 DEF CommitConflicts, Goto, Quiet, QuietAt, database, surroundings
  <2>4. CASE NoteConflicts(j)
    BY <1>2, <2>4 DEF NoteConflicts, Raise, surroundings
  <2>5. CASE FinishTooLong(j)
    BY <1>2, <2>5 DEF FinishTooLong, Raise, surroundings
  <2> QED
    BY <1>6, <2>1, <2>2, <2>3, <2>4, <2>5 DEF Step, Active, LoadExisting
<1>7. ASSUME NEW dead, Crash(dead)
      PROVE  Quiet
  BY <1>7 DEF Crash, Quiet, QuietAt, database
<1>8. CASE UNCHANGED vars
  BY <1>8 DEF vars, database, Quiet, QuietAt
<1> QED
  BY <1>4, <1>5, <1>6, <1>7, <1>8, ActiveOthers DEF Next, Finished

\* A refresh adds rows of its own to the database, if any.
LEMMA RefreshEffect ==
    ASSUME TypeOK, NEW i \in Refreshes, Refresh(i)
    PROVE  /\ runs' = runs /\ checks' = checks /\ pc' = pc /\ job' = job
           /\ answer' = answer
           /\ rows \subseteq rows' /\ \A r \in rows' \ rows : r \in refresh[i] /\ r.run = i
           /\ i \notin RunIds /\ \A k \in Refreshes \ {i} : refresh'[k] = refresh[k]
<1>1. \A r \in refresh[i] : r.run = i
  BY DEF TypeOK, SurroundingsOK
<1>2. refresh \in [Refreshes -> SUBSET Row]
  BY DEF TypeOK, SurroundingsOK
<1>3. i \notin RunIds
  BY BackfillAssumption
<1>4. CASE \E f \in Funds, d \in RefreshDates, part \in {0, 1} : RefreshAdds(i, f, d, part)
  BY <1>2, <1>3, <1>4 DEF RefreshAdds, database
<1>5. CASE RefreshCommits(i)
  BY <1>1, <1>2, <1>3, <1>5 DEF RefreshCommits
<1>6. CASE RefreshRollsBack(i)
  BY <1>2, <1>3, <1>6 DEF RefreshRollsBack, database
<1> QED
  BY <1>4, <1>5, <1>6 DEF Refresh

\* A resumed run is loaded, a new one inserted.
LEMMA LoadEffect ==
    ASSUME TypeOK, NEW j \in Jobs, LoadExisting(j)
    PROVE  /\ pc[j] = "load" /\ pc'[j] = "find" /\ UNCHANGED database
           /\ job[j].id \in Existing
           /\ job'[j].id = job[j].id /\ job'[j].mine = runs[job[j].id]
           /\ job'[j].new = job[j].new /\ job'[j].errors = runs'[job[j].id].errors
           /\ job'[j].funds \in Selections /\ job'[j].todo = job'[j].funds
<1>1. pc[j] = "load" /\ job[j].id \in Existing /\ UNCHANGED database
  BY DEF LoadExisting, LoadRun
<1>2. Loaded(j, runs[job[j].id]) /\ Goto(j, "find") /\ pc[j] # "idle"
  BY <1>1 DEF LoadExisting, LoadRun
<1>3. runs[job[j].id] \in Run
  BY <1>1 DEF TypeOK, Existing
<1>4. pc'[j] = "find" /\ runs' = runs
  BY <1>1, <1>2 DEF Goto, TypeOK, database
<1> QED
  BY <1>1, <1>2, <1>3, <1>4, LoadedType

LEMMA InsertEffect ==
    ASSUME TypeOK, NEW j \in Jobs, InsertRun(j)
    PROVE  /\ pc[j] = "insert" /\ pc'[j] = "find" /\ UNCHANGED <<checks, rows>>
           /\ job[j].id \in RunIds \ Existing
           /\ runs' = [runs EXCEPT ![job[j].id] = NewRun]
           /\ job'[j].id = job[j].id /\ job'[j].mine = NewRun
           /\ job'[j].new = job[j].new /\ job'[j].errors = runs'[job[j].id].errors
           /\ job'[j].funds \in Selections /\ job'[j].todo = job'[j].funds
<1>1. /\ pc[j] = "insert" /\ job[j].id \notin Existing /\ UNCHANGED <<checks, rows>>
      /\ runs' = [runs EXCEPT ![job[j].id] = NewRun]
      /\ Loaded(j, NewRun) /\ Goto(j, "find") /\ pc[j] # "idle"
  BY DEF InsertRun
<1>2. job[j].id \in RunIds /\ NewRun \in Run /\ pc'[j] = "find"
  BY <1>1, EmptyTypes DEF Goto, TypeOK
<1>3. runs'[job[j].id] = NewRun
  BY <1>1, <1>2 DEF TypeOK
<1> QED
  BY <1>1, <1>2, <1>3, LoadedType

\* A completed fund is passed over, the checkpoint of another is looked up.
LEMMA FindEffect ==
    ASSUME TypeOK, NEW j \in Jobs, FindCheckpoint(j)
    PROVE  /\ pc[j] = "find" /\ job[j].todo # <<>> /\ UNCHANGED database
           /\ job'[j].id = job[j].id /\ job'[j].errors = job[j].errors
           /\ job'[j].mine = job[j].mine /\ job'[j].funds = job[j].funds
           /\ \/ /\ Check(j).status = "completed"
                 /\ pc'[j] = "find" /\ job'[j].todo = Tail(job[j].todo)
                 /\ job'[j].new = {}
              \/ /\ Check(j).status # "completed"
                 /\ pc'[j] = "fetch" /\ job'[j].todo = job[j].todo
                 /\ job'[j].new = job[j].new /\ job'[j].found = Check(j)
<1>1. /\ pc[j] = "find" /\ job[j].todo # <<>> /\ UNCHANGED database
      /\ pc \in [Jobs -> Labels] /\ job \in [Jobs -> Job]
  BY DEF FindCheckpoint, TypeOK, Labels
<1>2. CASE Skippable(Check(j))
  <2>1. pc'[j] = "find" /\ job'[j] = NextFund(j, job[j])
    BY <1>1, <1>2 DEF FindCheckpoint
  <2> QED
    BY <1>1, <1>2, <2>1, NextFundType DEF Skippable
<1>3. CASE ~Skippable(Check(j))
  <2>1. pc'[j] = "fetch" /\ job'[j] = [job[j] EXCEPT !.found = Check(j)]
    BY <1>1, <1>3 DEF FindCheckpoint, Goto
  <2> QED
    BY <1>1, <1>3, <2>1, FoundJob DEF Skippable
<1> QED
  BY <1>2, <1>3

LEMMA FetchEffect ==
    ASSUME TypeOK, NEW j \in Jobs, FetchHistory(j)
    PROVE  /\ pc[j] = "fetch" /\ pc'[j] = "commit" /\ UNCHANGED database
           /\ job[j].todo # <<>>
           /\ job'[j].id = job[j].id /\ job'[j].errors = job[j].errors
           /\ job'[j].mine = job[j].mine
           /\ job'[j].funds = job[j].funds /\ job'[j].todo = job[j].todo
           /\ job'[j].found = job[j].found
           /\ \E h \in Histories :
                 job'[j].new = NewRows(j, h) /\ job'[j].last = LastDate(j, h)
<1>1. PICK h \in Histories :
        job' = [job EXCEPT ![j] = [@ EXCEPT !.new = NewRows(j, h), !.last = LastDate(j, h)]]
  BY DEF FetchHistory
<1>2. /\ pc[j] = "fetch" /\ pc' = [pc EXCEPT ![j] = "commit"] /\ UNCHANGED database
      /\ pc \in [Jobs -> Labels] /\ job \in [Jobs -> Job] /\ job[j].todo # <<>>
  BY DEF FetchHistory, Goto, TypeOK, Labels
<1>3. pc'[j] = "commit"
  BY <1>2
<1>4. job'[j] = [job[j] EXCEPT !.new = NewRows(j, h), !.last = LastDate(j, h)]
  BY <1>1, <1>2
<1>5. /\ job'[j].id = job[j].id /\ job'[j].errors = job[j].errors
      /\ job'[j].mine = job[j].mine
      /\ job'[j].funds = job[j].funds /\ job'[j].todo = job[j].todo
      /\ job'[j].found = job[j].found
      /\ job'[j].new = NewRows(j, h) /\ job'[j].last = LastDate(j, h)
  BY <1>2, <1>4, FetchedJob, ZenonT(30)
<1> QED
  BY <1>2, <1>3, <1>5

LEMMA CommitEffect ==
    ASSUME TypeInv, NEW j \in Jobs, CommitFund(j)
    PROVE  /\ pc[j] = "commit" /\ pc'[j] = "find" /\ job[j].todo # <<>>
           /\ rows' = rows \cup job[j].new
           /\ checks' = [checks EXCEPT ![job[j].id] =
                 [@ EXCEPT ![Fund(j)] = [status |-> "completed", last |-> job[j].last]]]
           /\ runs'[job[j].id].status = runs[job[j].id].status
           /\ runs'[job[j].id].errors = runs[job[j].id].errors
           /\ runs'[job[j].id].completed = job[j].mine.completed + 1
           /\ runs'[job[j].id].written = job[j].mine.written + Cardinality(job[j].new)
           /\ \A id \in RunIds \ {job[j].id} : runs'[id] = runs[id]
           /\ job'[j].id = job[j].id /\ job'[j].errors = job[j].errors
           /\ job'[j].funds = job[j].funds
           /\ job'[j].todo = Tail(job[j].todo) /\ job'[j].new = {}
           /\ job'[j].mine.completed = job[j].mine.completed + 1
           /\ job'[j].mine.written = job[j].mine.written + Cardinality(job[j].new)
<1>1. /\ TypeOK /\ IsFiniteSet(job[j].new)
      /\ pc \in [Jobs -> Labels] /\ job \in [Jobs -> Job]
  BY DEF TypeInv, Finite, TypeOK, Labels
<1>2. /\ pc[j] = "commit" /\ pc' = [pc EXCEPT ![j] = "find"]
      /\ rows' = rows \cup job[j].new
      /\ job' = [job EXCEPT ![j] = [NextFund(j, @) EXCEPT !.mine = Counted(j)]]
      /\ checks' = [checks EXCEPT ![job[j].id] =
            [@ EXCEPT ![Fund(j)] = [status |-> "completed", last |-> job[j].last]]]
  BY DEF CommitFund, Goto
<1>3. job[j].id \in RunIds /\ job[j].todo # <<>>
  BY <1>1, <1>2 DEF TypeOK
<1>4. /\ Counted(j).completed = job[j].mine.completed + 1
      /\ Counted(j).written = job[j].mine.written + Cardinality(job[j].new)
  BY <1>1, CountedType
<1>5. runs \in [RunIds -> Run] /\ runs[job[j].id] \in Run
  BY <1>1, <1>3 DEF TypeOK
<1>6. runs' = [runs EXCEPT ![job[j].id] =
                [runs[job[j].id] EXCEPT !.completed = Counted(j).completed,
                                        !.written = Counted(j).written]]
  BY DEF CommitFund
<1>7. /\ runs'[job[j].id].status = runs[job[j].id].status
      /\ runs'[job[j].id].errors = runs[job[j].id].errors
      /\ runs'[job[j].id].completed = Counted(j).completed
      /\ runs'[job[j].id].written = Counted(j).written
  BY <1>3, <1>5, <1>6 DEF Run
<1>8. \A id \in RunIds \ {job[j].id} : runs'[id] = runs[id]
  BY <1>5, <1>6
<1>9. pc'[j] = "find" /\ job'[j] = [NextFund(j, job[j]) EXCEPT !.mine = Counted(j)]
  BY <1>1, <1>2
<1>10. /\ job'[j].id = job[j].id /\ job'[j].errors = job[j].errors
       /\ job'[j].funds = job[j].funds
       /\ job'[j].todo = Tail(job[j].todo) /\ job'[j].new = {}
       /\ job'[j].mine = Counted(j)
  BY <1>1, <1>2, <1>9, CommittedJob
<1> QED
  BY <1>2, <1>3, <1>4, <1>7, <1>8, <1>9, <1>10

LEMMA ExceptEffect ==
    ASSUME TypeOK, NEW j \in Jobs, Except(j)
    PROVE  /\ pc[j] = "except" /\ pc'[j] = "note" /\ UNCHANGED database
           /\ job[j].todo # <<>>
           /\ job'[j].id = job[j].id
           /\ job'[j].funds = job[j].funds /\ job'[j].todo = job[j].todo
           /\ job'[j].errors = Append(job[j].errors, Fund(j))
           /\ job'[j].mine = runs[job[j].id]
           /\ job'[j].new = {} /\ job'[j].found = Check(j)
<1>1. /\ pc[j] = "except" /\ pc' = [pc EXCEPT ![j] = "note"] /\ UNCHANGED database
      /\ pc \in [Jobs -> Labels] /\ job \in [Jobs -> Job] /\ job[j].todo # <<>>
  BY DEF Except, Goto, TypeOK, Labels
<1>2. pc'[j] = "note"
  BY <1>1
<1>3. job'[j] = [job[j] EXCEPT !.found = Check(j), !.mine = runs[job[j].id], !.new = {},
                               !.errors = Append(job[j].errors, Fund(j))]
  BY <1>1 DEF Except
<1> QED
  BY <1>1, <1>2, <1>3, ExceptJob

LEMMA NoteEffect ==
    ASSUME TypeOK, NEW j \in Jobs, NoteError(j)
    PROVE  /\ pc[j] = "note" /\ pc'[j] = "find" /\ rows' = rows
           /\ job[j].todo # <<>>
           /\ checks' = [checks EXCEPT ![job[j].id] =
                 [@ EXCEPT ![Fund(j)] = [Check(j) EXCEPT !.status = "error"]]]
           /\ [Check(j) EXCEPT !.status = "error"].status = "error"
           /\ [Check(j) EXCEPT !.status = "error"].last = Check(j).last
           /\ runs'[job[j].id].status = runs[job[j].id].status
           /\ runs'[job[j].id].errors = job[j].errors
           /\ runs'[job[j].id].completed = runs[job[j].id].completed
           /\ runs'[job[j].id].written = runs[job[j].id].written
           /\ \A id \in RunIds \ {job[j].id} : runs'[id] = runs[id]
           /\ job'[j].id = job[j].id /\ job'[j].errors = job[j].errors
           /\ job'[j].funds = job[j].funds
           /\ job'[j].todo = Tail(job[j].todo) /\ job'[j].new = {}
           /\ job'[j].mine.completed = job[j].mine.completed
           /\ job'[j].mine.written = job[j].mine.written
<1>1. /\ pc[j] = "note" /\ pc' = [pc EXCEPT ![j] = "find"] /\ rows' = rows
      /\ pc \in [Jobs -> Labels] /\ job \in [Jobs -> Job] /\ job[j].todo # <<>>
      /\ job[j].id \in RunIds
  BY DEF NoteError, Goto, TypeOK, Labels
<1>2. Check(j) \in Checkpoint
  BY <1>1, FundType
<1>3. /\ [Check(j) EXCEPT !.status = "error"].status = "error"
      /\ [Check(j) EXCEPT !.status = "error"].last = Check(j).last
  BY <1>2 DEF Checkpoint
<1>4. checks' = [checks EXCEPT ![job[j].id] =
        [@ EXCEPT ![Fund(j)] = [Check(j) EXCEPT !.status = "error"]]]
  BY DEF NoteError, Check
<1>5. runs \in [RunIds -> Run] /\ runs[job[j].id] \in Run
  BY <1>1 DEF TypeOK
<1>6. runs' = [runs EXCEPT ![job[j].id] = [runs[job[j].id] EXCEPT !.errors = job[j].errors]]
  BY DEF NoteError
<1>7. /\ runs'[job[j].id].status = runs[job[j].id].status
      /\ runs'[job[j].id].errors = job[j].errors
      /\ runs'[job[j].id].completed = runs[job[j].id].completed
      /\ runs'[job[j].id].written = runs[job[j].id].written
  BY <1>1, <1>5, <1>6 DEF Run
<1>8. \A id \in RunIds \ {job[j].id} : runs'[id] = runs[id]
  BY <1>5, <1>6
<1>9. /\ pc'[j] = "find"
      /\ job'[j] = [NextFund(j, job[j]) EXCEPT !.mine.errors = job[j].errors]
  BY <1>1 DEF NoteError
<1> QED
  BY <1>1, <1>3, <1>4, <1>7, <1>8, <1>9, NotedJob

LEMMA FinishEffect ==
    ASSUME TypeOK, NEW j \in Jobs, Finish(j)
    PROVE  /\ pc[j] = "find" /\ pc'[j] = "idle" /\ job[j].todo = <<>>
           /\ job'[j] = NoJob /\ UNCHANGED <<checks, rows>>
           /\ answer'[j] = Outcome(j)
           /\ runs'[job[j].id].status = Outcome(j)
           /\ runs'[job[j].id].errors = runs[job[j].id].errors
           /\ runs'[job[j].id].completed = runs[job[j].id].completed
           /\ runs'[job[j].id].written = runs[job[j].id].written
           /\ \A id \in RunIds \ {job[j].id} : runs'[id] = runs[id]
<1>1. /\ pc[j] = "find" /\ job[j].todo = <<>> /\ UNCHANGED <<checks, rows>>
      /\ pc \in [Jobs -> Labels] /\ job \in [Jobs -> Job] /\ job[j].id \in RunIds
  BY DEF Finish, AtEnd, TypeOK, Labels
<1>2. pc'[j] = "idle" /\ job'[j] = NoJob /\ answer'[j] = Outcome(j)
  BY <1>1 DEF Finish, Return, Goto, TypeOK
<1>3. runs \in [RunIds -> Run] /\ runs[job[j].id] \in Run
  BY <1>1 DEF TypeOK
<1>4. runs' = [runs EXCEPT ![job[j].id] = [runs[job[j].id] EXCEPT !.status = Outcome(j)]]
  BY DEF Finish
<1>5. /\ runs'[job[j].id].status = Outcome(j)
      /\ runs'[job[j].id].errors = runs[job[j].id].errors
      /\ runs'[job[j].id].completed = runs[job[j].id].completed
      /\ runs'[job[j].id].written = runs[job[j].id].written
  BY <1>1, <1>3, <1>4 DEF Run
<1>6. \A id \in RunIds \ {job[j].id} : runs'[id] = runs[id]
  BY <1>3, <1>4
<1> QED
  BY <1>1, <1>2, <1>5, <1>6

\* A step that writes the checkpoint of a fund leaves the others.
LEMMA OneCheckpoint ==
    ASSUME TypeOK, NEW j \in Jobs, pc[j] # "idle", job[j].todo # <<>>, NEW c,
           checks' = [checks EXCEPT ![job[j].id] = [@ EXCEPT ![Fund(j)] = c]]
    PROVE  /\ job[j].id \in RunIds /\ Fund(j) \in Funds
           /\ checks'[job[j].id][Fund(j)] = c
           /\ \A id \in RunIds, f \in Funds :
                 ~(id = job[j].id /\ f = Fund(j)) => checks'[id][f] = checks[id][f]
<1>1. job[j].id \in RunIds /\ Fund(j) \in Funds
  BY FundType
<1>2. checks \in [RunIds -> [Funds -> Checkpoint]]
  BY DEF TypeOK
<1> QED
  BY <1>1, <1>2

\* What the two steps that write a checkpoint make of the checkpoints.
LEMMA CommitChecks ==
    ASSUME TypeInv, NEW j \in Jobs, CommitFund(j)
    PROVE  /\ job[j].id \in RunIds /\ Fund(j) \in Funds
           /\ checks'[job[j].id][Fund(j)].status = "completed"
           /\ checks'[job[j].id][Fund(j)].last = job[j].last
           /\ \A id \in RunIds, f \in Funds :
                 ~(id = job[j].id /\ f = Fund(j)) => checks'[id][f] = checks[id][f]
<1>1. TypeOK
  BY DEF TypeInv
<1>2. /\ pc[j] # "idle" /\ job[j].todo # <<>>
      /\ checks' = [checks EXCEPT ![job[j].id] =
            [@ EXCEPT ![Fund(j)] = [status |-> "completed", last |-> job[j].last]]]
  BY CommitEffect
<1> DEFINE c == [status |-> "completed", last |-> job[j].last]
<1>3. c.status = "completed" /\ c.last = job[j].last
  OBVIOUS
<1>4. checks' = [checks EXCEPT ![job[j].id] = [@ EXCEPT ![Fund(j)] = c]]
  BY <1>2
<1>5. pc[j] # "idle" /\ job[j].todo # <<>>
  BY <1>2
<1> HIDE DEF c
<1>6. /\ job[j].id \in RunIds /\ Fund(j) \in Funds
      /\ checks'[job[j].id][Fund(j)] = c
      /\ \A id \in RunIds, f \in Funds :
            ~(id = job[j].id /\ f = Fund(j)) => checks'[id][f] = checks[id][f]
  BY <1>1, <1>4, <1>5, OneCheckpoint
<1> QED
  BY <1>3, <1>6

LEMMA NoteChecks ==
    ASSUME TypeOK, NEW j \in Jobs, NoteError(j)
    PROVE  /\ job[j].id \in RunIds /\ Fund(j) \in Funds
           /\ checks'[job[j].id][Fund(j)].status = "error"
           /\ checks'[job[j].id][Fund(j)].last = Check(j).last
           /\ \A id \in RunIds, f \in Funds :
                 ~(id = job[j].id /\ f = Fund(j)) => checks'[id][f] = checks[id][f]
<1> DEFINE c == [Check(j) EXCEPT !.status = "error"]
<1>1. /\ pc[j] # "idle" /\ job[j].todo # <<>>
      /\ c.status = "error" /\ c.last = Check(j).last
      /\ checks' = [checks EXCEPT ![job[j].id] = [@ EXCEPT ![Fund(j)] = c]]
  BY NoteEffect
<1> HIDE DEF c
<1> QED
  BY <1>1, OneCheckpoint

LEMMA FiniteStep == TypeInv /\ [Next]_vars => Finite'
<1> SUFFICES ASSUME TypeInv, [Next]_vars PROVE Finite'
  OBVIOUS
<1>0. TypeOK /\ Finite
  BY DEF TypeInv
<1>1. CASE Quiet
  <2>1. UNCHANGED database /\ refresh' = refresh /\ \A k \in Jobs : job'[k].new = job[k].new \/ job'[k].new = {}
    BY <1>1, EmptyTypes DEF Quiet, QuietAt
  <2>2. IsFiniteSet({})
    BY FS_EmptySet
  <2> QED
    BY <1>0, <2>1, <2>2 DEF Finite, Done, database
<1>2. ASSUME NEW j \in Jobs, Others(j), IsFiniteSet(rows'), IsFiniteSet(job'[j].new),
             \A id \in RunIds : IsFiniteSet(Done(id)')
      PROVE  Finite'
  <2>1. ASSUME NEW k \in Jobs
        PROVE  IsFiniteSet(job'[k].new)
    BY <1>0, <1>2 DEF Others, Finite
  <2> QED
    BY <1>0, <1>2, <2>1 DEF Finite, Others
<1>3. ASSUME NEW j \in Jobs, Others(j), UNCHANGED <<checks, rows>>, IsFiniteSet(job'[j].new)
      PROVE  Finite'
  <2>1. IsFiniteSet(rows') /\ \A id \in RunIds : IsFiniteSet(Done(id)')
    BY <1>0, <1>3 DEF Finite, Done
  <2> QED
    BY <1>2, <1>3, <2>1
<1>4. IsFiniteSet({}) /\ \A j \in Jobs : IsFiniteSet(job[j].new)
  BY <1>0, FS_EmptySet DEF Finite
<1>5. ASSUME NEW j \in Jobs, Active(j), Others(j)
      PROVE  Finite'
  <2>1. CASE LoadExisting(j)
    BY <1>0, <1>3, <1>4, <1>5, <2>1, LoadEffect DEF database
  <2>2. CASE InsertRun(j)
    BY <1>0, <1>3, <1>4, <1>5, <2>2, InsertEffect
  <2>3. CASE FindCheckpoint(j)
    BY <1>0, <1>3, <1>4, <1>5, <2>3, FindEffect DEF database
  <2>4. CASE FetchHistory(j)
    <3>1. /\ pc[j] = "fetch" /\ UNCHANGED <<checks, rows>>
          /\ \E h \in Histories : job'[j].new = NewRows(j, h)
      BY <1>0, <2>4, FetchEffect DEF database
    <3>2. IsFiniteSet(job'[j].new)
      BY <1>0, <3>1, NewRowsType
    <3> QED
      BY <1>3, <1>5, <3>1, <3>2
  <2>5. CASE CommitFund(j)
    <3>1. rows' = rows \cup job[j].new /\ job'[j].new = {}
      BY <1>0, <2>5, CommitEffect DEF TypeInv
    <3>2. IsFiniteSet(rows')
      BY <1>0, <1>4, <3>1, FS_Union DEF Finite
    <3>3. ASSUME NEW id \in RunIds
          PROVE  IsFiniteSet(Done(id)')
      <4>1. \A f \in Funds : f # Fund(j) => checks'[id][f] = checks[id][f] \/ id = job[j].id
        BY <2>5, CommitChecks
      <4>2. \A f \in Funds : f # Fund(j) => checks'[id][f] = checks[id][f]
        BY <2>5, CommitChecks
      <4>3. Done(id)' \subseteq Done(id) \cup {Fund(j)}
        BY <4>2 DEF Done
      <4>4. IsFiniteSet(Done(id))
        BY <1>0 DEF Finite
      <4>5. IsFiniteSet(Done(id) \cup {Fund(j)})
        BY <4>4, FS_AddElement
      <4> QED
        BY <4>3, <4>5, FS_Subset
    <3> QED
      BY <1>2, <1>4, <1>5, <3>1, <3>2, <3>3
  <2>6. CASE Except(j)
    BY <1>0, <1>3, <1>4, <1>5, <2>6, ExceptEffect DEF database
  <2>7. CASE NoteError(j)
    <3>1. rows' = rows /\ job'[j].new = {}
      BY <1>0, <2>7, NoteEffect
    <3>2. ASSUME NEW id \in RunIds
          PROVE  IsFiniteSet(Done(id)')
      <4>1. ASSUME NEW f \in Funds
            PROVE  \/ checks'[id][f] = checks[id][f]
                   \/ checks'[id][f].status = "error"
        BY <1>0, <2>7, NoteChecks
      <4>2. Done(id)' \subseteq Done(id)
        BY <4>1 DEF Done
      <4>3. IsFiniteSet(Done(id))
        BY <1>0 DEF Finite
      <4> QED
        BY <4>2, <4>3, FS_Subset
    <3>3. IsFiniteSet(rows')
      BY <1>0, <3>1 DEF Finite
    <3> QED
      BY <1>2, <1>4, <1>5, <3>1, <3>2, <3>3
  <2>8. CASE Finish(j)
    BY <1>0, <1>3, <1>4, <1>5, <2>8, FinishEffect, EmptyTypes
  <2> QED
    BY <1>5, <2>1, <2>2, <2>3, <2>4, <2>5, <2>6, <2>7, <2>8 DEF Active
<1>6. ASSUME NEW i \in Refreshes, Refresh(i)
      PROVE  Finite'
  <2>1. job' = job /\ checks' = checks
    BY <1>0, <1>6, RefreshEffect
  <2>2. IsFiniteSet(rows \cup refresh[i]) /\ rows' \subseteq rows \cup refresh[i]
    BY <1>0, <1>6, RefreshEffect, FS_Union DEF Finite
  <2>3. IsFiniteSet(refresh'[i])
    <3>1. refresh \in [Refreshes -> SUBSET Row]
      BY <1>0 DEF TypeOK, SurroundingsOK
    <3>2. CASE refresh'[i] = {}
      BY <1>4, <3>2
    <3>3. ASSUME NEW f, NEW d, NEW part, RefreshAdds(i, f, d, part)
          PROVE  IsFiniteSet(refresh'[i])
      <4> DEFINE r == [fund |-> f, date |-> d, run |-> i, from |-> <<i, part>>]
      <4>1. refresh'[i] = refresh[i] \cup {r}
        BY <3>1, <3>3 DEF RefreshAdds
      <4> QED
        BY <1>0, <4>1, FS_AddElement DEF Finite
    <3> QED
      BY <1>6, <3>1, <3>2, <3>3 DEF Refresh, RefreshCommits, RefreshRollsBack
  <2>4. \A k \in Refreshes : IsFiniteSet(refresh'[k])
    BY <1>0, <1>6, <2>3, RefreshEffect DEF Finite
  <2>5. IsFiniteSet(rows')
    BY <2>2, FS_Subset
  <2> QED
    BY <1>0, <2>1, <2>4, <2>5 DEF Finite, Done
<1> QED
  BY <1>0, <1>1, <1>5, <1>6, StepCases

LEMMA TypeInvariant == Spec => []TypeInv
<1>1. TypeInv /\ [Next]_vars => TypeInv'
  BY TypeOKStep, FiniteStep DEF TypeInv
<1> QED
  BY <1>1, TypeInit, PTL DEF Spec

\* Every variable keeps its type in every behaviour: a working call has a
\* run_id, and one that is at a fund has a fund to be at.
THEOREM TypeCorrect == Spec => []TypeOK
<1>1. TypeInv => TypeOK
  BY DEF TypeInv
<1> QED
  BY <1>1, TypeInvariant, PTL

(***************************************************************************)
(* The day a checkpoint has reached.  A call that is about to commit holds *)
(* the day in a row of the database or in one of its own, and the day of   *)
(* the checkpoint it looked up stays written whatever the others do.       *)
(***************************************************************************)
ReachedAt(j) ==
    /\ pc[j] \in {"fetch", "commit"} /\ job[j].found.last # 0 =>
          \E r \in rows : r.fund = Fund(j) /\ r.date = job[j].found.last
    /\ pc[j] = "commit" /\ job[j].last # 0 =>
          \E r \in rows \cup job[j].new : r.fund = Fund(j) /\ r.date = job[j].last
Reached == \A j \in Jobs : ReachedAt(j)
DayInv == TypeInv /\ LastDayWritten /\ Reached

\* No step deletes a row.
LEMMA RowsStay ==
    ASSUME TypeInv, [Next]_vars
    PROVE  rows \subseteq rows'
<1>0. TypeOK
  BY DEF TypeInv
<1>1. CASE Quiet
  BY <1>1 DEF Quiet, database
<1>2. ASSUME NEW j \in Jobs, Active(j)
      PROVE  rows \subseteq rows'
  BY <1>0, <1>2, LoadEffect, InsertEffect, FindEffect, FetchEffect, CommitEffect, ExceptEffect,
     NoteEffect, FinishEffect DEF Active, database
<1>3. ASSUME NEW i \in Refreshes, Refresh(i)
      PROVE  rows \subseteq rows'
  BY <1>0, <1>3, RefreshEffect
<1> QED
  BY <1>0, <1>1, <1>2, <1>3, StepCases

\* A call that stays where it is with what it has.
LEMMA ReachedFrame ==
    ASSUME NEW k \in Jobs, ReachedAt(k), rows \subseteq rows',
           pc'[k] = pc[k], job'[k] = job[k]
    PROVE  ReachedAt(k)'
<1>1. Fund(k)' = Fund(k)
  BY DEF Fund
<1> QED
  BY <1>1 DEF ReachedAt

LEMMA ReachedStep == DayInv /\ [Next]_vars => Reached'
<1> SUFFICES ASSUME DayInv, [Next]_vars PROVE Reached'
  OBVIOUS
<1>0. TypeInv /\ TypeOK /\ LastDayWritten /\ Reached /\ rows \subseteq rows'
  BY RowsStay DEF DayInv, TypeInv
<1>1. CASE Quiet
  <2> SUFFICES ASSUME NEW k \in Jobs
               PROVE  ReachedAt(k)'
    BY DEF Reached
  <2>1. ReachedAt(k) /\ QuietAt(k)
    BY <1>0, <1>1 DEF Reached, Quiet
  <2>2. CASE pc'[k] = pc[k] /\ job'[k] = job[k]
    BY <1>0, <2>1, <2>2, ReachedFrame
  <2>3. CASE pc'[k] \notin {"fetch", "commit"}
    BY <2>3 DEF ReachedAt
  <2> QED
    BY <2>1, <2>2, <2>3 DEF QuietAt
<1>2. ASSUME NEW j \in Jobs, Active(j), Others(j)
      PROVE  Reached'
  <2>1. ASSUME NEW k \in Jobs \ {j}
        PROVE  ReachedAt(k)'
    BY <1>0, <1>2, ReachedFrame DEF Reached, Others
  <2>2. ReachedAt(j)'
    <3>1. CASE LoadExisting(j) \/ InsertRun(j) \/ CommitFund(j) \/ Except(j) \/ NoteError(j)
                 \/ Finish(j)
      <4>1. pc'[j] \notin {"fetch", "commit"}
        BY <1>0, <3>1, LoadEffect, InsertEffect, CommitEffect, ExceptEffect, NoteEffect,
           FinishEffect
      <4> QED
        BY <4>1 DEF ReachedAt
    <3>2. CASE FindCheckpoint(j)
      <4>1. CASE pc'[j] = "find"
        BY <4>1 DEF ReachedAt
      <4>2. CASE pc'[j] = "fetch"
        <5>1. /\ job'[j].todo = job[j].todo /\ job'[j].found = Check(j) /\ rows' = rows
              /\ pc[j] # "idle" /\ job[j].todo # <<>>
          BY <1>0, <3>2, <4>2, FindEffect DEF database
        <5>2. job[j].id \in RunIds /\ Fund(j) \in Funds /\ Fund(j)' = Fund(j)
          BY <1>0, <5>1, FundType DEF Fund
        <5>3. Check(j).last # 0 => \E r \in rows : r.fund = Fund(j) /\ r.date = Check(j).last
          BY <1>0, <5>2 DEF LastDayWritten, Check
        <5> QED
          BY <4>2, <5>1, <5>2, <5>3 DEF ReachedAt
      <4> QED
        BY <1>0, <3>2, <4>1, <4>2, FindEffect
    <3>3. CASE FetchHistory(j)
      <4>1. PICK h \in Histories : job'[j].new = NewRows(j, h) /\ job'[j].last = LastDate(j, h)
        BY <1>0, <3>3, FetchEffect
      <4>2. /\ pc[j] = "fetch" /\ pc'[j] = "commit" /\ rows' = rows
            /\ job'[j].found = job[j].found /\ Fund(j)' = Fund(j)
        BY <1>0, <3>3, FetchEffect DEF database, Fund
      <4>3. job[j].found.last # 0 =>
              \E r \in rows : r.fund = Fund(j) /\ r.date = job[j].found.last
        BY <1>0, <4>2 DEF Reached, ReachedAt
      <4>4. ASSUME LastDate(j, h) # 0
            PROVE  \E r \in rows \cup NewRows(j, h) : r.fund = Fund(j) /\ r.date = LastDate(j, h)
        <5>1. CASE LastDate(j, h) = job[j].found.last
          BY <4>3, <4>4, <5>1
        <5>2. ASSUME NEW n \in Wanted(j, h), LastDate(j, h) = h[n]
              PROVE  \E r \in rows \cup NewRows(j, h) :
                        r.fund = Fund(j) /\ r.date = LastDate(j, h)
          <6>1. CASE \E r \in rows : r.fund = Fund(j) /\ r.date = h[n]
            BY <5>2, <6>1
          <6>2. CASE ~\E r \in rows : r.fund = Fund(j) /\ r.date = h[n]
            <7> DEFINE r == [fund |-> Fund(j), date |-> h[n], run |-> job[j].id, from |-> <<j, n>>]
            <7>1. r \in NewRows(j, h)
              BY <6>2 DEF NewRows
            <7>2. r.fund = Fund(j) /\ r.date = LastDate(j, h)
              BY <5>2
            <7> QED
              BY <7>1, <7>2
          <6> QED
            BY <6>1, <6>2
        <5> QED
          BY <1>0, <4>2, <5>1, <5>2, LastDateType
      <4> QED
        BY <4>1, <4>2, <4>3, <4>4 DEF ReachedAt
    <3> QED
      BY <1>2, <3>1, <3>2, <3>3 DEF Active
  <2> QED
    BY <2>1, <2>2 DEF Reached
<1>3. ASSUME NEW i \in Refreshes, Refresh(i)
      PROVE  Reached'
  BY <1>0, <1>3, ReachedFrame, RefreshEffect DEF Reached
<1> QED
  BY <1>0, <1>1, <1>2, <1>3, StepCases

LEMMA LastDayStep == DayInv /\ [Next]_vars => LastDayWritten'
<1> SUFFICES ASSUME DayInv, [Next]_vars, NEW id \in RunIds, NEW f \in Funds,
                    checks'[id][f].last # 0
             PROVE  \E r \in rows' : r.fund = f /\ r.date = checks'[id][f].last
  BY DEF LastDayWritten
<1>0. TypeInv /\ TypeOK /\ LastDayWritten /\ Reached /\ rows \subseteq rows'
  BY RowsStay DEF DayInv, TypeInv
<1>1. CASE checks'[id][f].last = checks[id][f].last
  BY <1>0, <1>1 DEF LastDayWritten
<1>2. ASSUME NEW j \in Jobs, CommitFund(j)
      PROVE  \E r \in rows' : r.fund = f /\ r.date = checks'[id][f].last
  <2>1. CASE id = job[j].id /\ f = Fund(j)
    <3>1. checks'[id][f].last = job[j].last
      BY <1>0, <1>2, <2>1, CommitChecks
    <3>2. pc[j] = "commit" /\ rows' = rows \cup job[j].new
      BY <1>0, <1>2, CommitEffect
    <3> QED
      BY <1>0, <2>1, <3>1, <3>2 DEF Reached, ReachedAt
  <2>2. CASE ~(id = job[j].id /\ f = Fund(j))
    BY <1>0, <1>1, <1>2, <2>2, CommitChecks
  <2> QED
    BY <2>1, <2>2
<1>3. ASSUME NEW j \in Jobs, NoteError(j)
      PROVE  checks'[id][f].last = checks[id][f].last
  <2>1. CASE id = job[j].id /\ f = Fund(j)
    BY <1>0, <1>3, <2>1, NoteChecks DEF Check
  <2>2. CASE ~(id = job[j].id /\ f = Fund(j))
    BY <1>0, <1>3, <2>2, NoteChecks
  <2> QED
    BY <2>1, <2>2
<1>4. CASE checks' = checks
  BY <1>1, <1>4
<1>5. ASSUME NEW j \in Jobs, Active(j)
      PROVE  CommitFund(j) \/ NoteError(j) \/ checks' = checks
  BY <1>0, <1>5, LoadEffect, InsertEffect, FindEffect, FetchEffect, ExceptEffect, FinishEffect
     DEF Active, database
<1>6. ASSUME NEW i \in Refreshes, Refresh(i)
      PROVE  checks' = checks
  BY <1>0, <1>6, RefreshEffect
<1>7. Quiet => checks' = checks
  BY DEF Quiet, database
<1> QED
  BY <1>0, <1>1, <1>2, <1>3, <1>4, <1>5, <1>6, <1>7, StepCases

\* The day a checkpoint has reached is in the database, however many calls
\* work on the run, whatever fails and whatever a refresh writes meanwhile: a
\* resumed fetch, which asks for the days after it only, leaves no gap there.
THEOREM NoGap == Spec => []LastDayWritten
<1>1. Init => DayInv
  <2>1. Init => LastDayWritten /\ Reached
    BY DEF Init, LastDayWritten, Reached, ReachedAt, NoCheckpoint
  <2> QED
    BY <2>1, TypeInit DEF DayInv
<1>2. DayInv /\ TypeInv' /\ [Next]_vars => DayInv'
  BY LastDayStep, ReachedStep DEF DayInv
<1>3. DayInv => LastDayWritten
  BY DEF DayInv
<1> QED
  BY <1>1, <1>2, <1>3, TypeInvariant, PTL DEF Spec

(***************************************************************************)
(* One worker per run.  The script does not look whether its run_id is     *)
(* being worked on, so what follows holds while no two calls share a run,  *)
(* which OneWorker says and Unshared derives from who may resume.          *)
(***************************************************************************)
OneWorker ==
    \A j, k \in Jobs :
        pc[j] # "idle" /\ pc[k] # "idle" /\ job[j].id = job[k].id => j = k

\* Calls with a fresh run_id never share one: two calls share a run only if
\* one of them is a script that resumes and there is another call.
THEOREM Unshared ==
    ASSUME \A j \in Resumers, k \in Jobs : j = k
    PROVE  Spec => []OneWorker
<1>1. Init => OneWorker
  BY DEF Init, OneWorker
<1>2. TypeInv /\ OneWorker /\ [Next]_vars => OneWorker'
  <2> SUFFICES ASSUME TypeInv, OneWorker, [Next]_vars PROVE OneWorker'
    OBVIOUS
  <2>0. TypeOK /\ pc \in [Jobs -> Labels] /\ job \in [Jobs -> Job]
    BY DEF TypeInv, TypeOK, Labels
  <2>1. ASSUME \A k \in Jobs : pc'[k] # "idle" => pc[k] # "idle" /\ job'[k].id = job[k].id
        PROVE  OneWorker'
    BY <2>1 DEF OneWorker
  <2>2. ASSUME NEW j \in Jobs, Active(j), Others(j)
        PROVE  OneWorker'
    <3>1. pc'[j] # "idle" => pc[j] # "idle" /\ job'[j].id = job[j].id
      <4>1. CASE LoadExisting(j) \/ InsertRun(j) \/ FindCheckpoint(j) \/ FetchHistory(j)
        BY <2>0, <4>1, LoadEffect, InsertEffect, FindEffect, FetchEffect
      <4>2. CASE CommitFund(j)
        BY <4>2, CommitEffect
      <4>3. CASE Except(j) \/ NoteError(j) \/ Finish(j)
        BY <2>0, <4>3, ExceptEffect, NoteEffect, FinishEffect
      <4> QED
        BY <2>2, <4>1, <4>2, <4>3 DEF Active
    <3> QED
      BY <2>1, <2>2, <3>1 DEF Others
  <2>3. ASSUME NEW j \in Jobs, NEW r \in RunIds, Begin(j, r),
               r \in Fresh \/ j \in Resumers
        PROVE  OneWorker'
    <3>1. job'[j].id = r /\ \A k \in Jobs \ {j} : pc'[k] = pc[k] /\ job'[k] = job[k]
      BY <2>0, <2>3 DEF Begin, Goto, NoJob
    <3>2. \A k \in Jobs : job[k].id = r => k = j
      BY <2>3 DEF Fresh
    <3> QED
      BY <3>1, <3>2 DEF OneWorker
  <2>4. ASSUME NEW j \in Jobs, Call(j)
        PROVE  OneWorker'
    <3>1. CASE ApiRefuse(j)
      BY <2>1, <3>1 DEF ApiRefuse
    <3>2. CASE ApiCall(j)
      BY <2>3, <3>2 DEF ApiCall, Fresh
    <3>3. CASE ScriptCall(j)
      BY <2>3, <3>3 DEF ScriptCall, Fresh
    <3> QED
      BY <2>4, <3>1, <3>2, <3>3 DEF Call
  <2>5. ASSUME NEW j \in Jobs, NEW how, Return(j, how)
        PROVE  OneWorker'
    BY <2>0, <2>1, <2>5 DEF Return, Goto
  <2>6. ASSUME NEW j \in Jobs, NEW l \in Labels, pc[j] # "idle", Goto(j, l), UNCHANGED job
        PROVE  OneWorker'
    BY <2>0, <2>1, <2>6 DEF Goto
  <2>7. ASSUME NEW j \in Jobs, Failure(j)
        PROVE  OneWorker'
    BY <2>5, <2>6, <2>7
       DEF Failure, FetchFails, CommitFails, NoteFails, DatabaseFails, Raise, Labels
  <2>8. ASSUME NEW j \in Jobs, Step(j)
        PROVE  OneWorker'
    <3>1. CASE LoadRun(j) /\ job[j].id \notin Existing
      BY <2>6, <3>1 DEF LoadRun, Labels
    <3>2. CASE CommitConflicts(j)
      BY <2>6, <3>2 DEF CommitConflicts, Labels
    <3>3. CASE InsertRunConflicts(j) \/ NoteConflicts(j) \/ FinishTooLong(j)
      BY <2>5, <3>3 DEF InsertRunConflicts, NoteConflicts, FinishTooLong, Raise
    <3> QED
      BY <2>0, <2>2, <2>8, <3>1, <3>2, <3>3, ActiveOthers DEF Step, Active, LoadExisting
  <2>9. ASSUME NEW dead, Crash(dead)
        PROVE  OneWorker'
    BY <2>1, <2>9 DEF Crash
  <2>10. ASSUME NEW i \in Refreshes, Refresh(i)
         PROVE  OneWorker'
    BY <2>0, <2>1, <2>10, RefreshEffect
  <2>11. CASE UNCHANGED vars
    BY <2>1, <2>11 DEF vars
  <2> QED
    BY <2>4, <2>7, <2>8, <2>9, <2>10, <2>11 DEF Next, Finished
<1> QED
  BY <1>1, <1>2, TypeInvariant, PTL DEF Spec

(***************************************************************************)
(* What a call knows of its run: the counters it holds, the funds it has   *)
(* passed, and that the fund it is at is not completed.                    *)
(***************************************************************************)
InLoop == AtFund \cup {"find"}
Passed(j) == Len(job[j].funds) - Len(job[j].todo)

Pending(j) == pc[j] \in AtFund => Check(j).status # "completed"
InSession(j) ==
    pc[j] \in InLoop =>
        /\ job[j].id \in Existing
        /\ job[j].mine.completed = runs[job[j].id].completed
        /\ job[j].mine.written = runs[job[j].id].written
Logged(j) ==
    pc[j] \in InLoop =>
        job[j].errors = IF pc[j] = "note" THEN Append(runs[job[j].id].errors, Fund(j))
                                          ELSE runs[job[j].id].errors
Position(j) ==
    pc[j] \in InLoop =>
        /\ Len(job[j].todo) <= Len(job[j].funds)
        /\ \A m \in 1..Len(job[j].todo) : job[j].todo[m] = job[j].funds[Passed(j) + m]
Treated(j) ==
    pc[j] \in InLoop =>
        \A n \in 1..Passed(j) : checks[job[j].id][job[j].funds[n]].status # "none"
OwnRows(j) ==
    pc[j] = "commit" =>
        \A r \in job[j].new : r.run = job[j].id /\ r.fund = Fund(j) /\ r.date <= job[j].last
WorkingAt(j) ==
    Pending(j) /\ InSession(j) /\ Logged(j) /\ Position(j) /\ Treated(j) /\ OwnRows(j)
Working == \A j \in Jobs : WorkingAt(j)

\* A run that is not there has no counts and no errors.
Absent ==
    \A id \in RunIds :
        runs[id].status = "none" =>
            runs[id].completed = 0 /\ runs[id].written = 0 /\ runs[id].errors = <<>>

\* A step that leaves a call, its run and its checkpoints alone.
LEMMA WorkFrame ==
    ASSUME NEW k \in Jobs, WorkingAt(k), pc'[k] = pc[k], job'[k] = job[k],
           pc[k] # "idle" => /\ job[k].id \in RunIds
                             /\ runs'[job[k].id] = runs[job[k].id]
                             /\ checks'[job[k].id] = checks[job[k].id]
    PROVE  WorkingAt(k)'
<1>1. Fund(k)' = Fund(k) /\ Passed(k)' = Passed(k)
  BY DEF Fund, Passed
<1>2. pc[k] # "idle" => Check(k)' = Check(k)
  BY <1>1 DEF Check
<1>3. Pending(k)' /\ OwnRows(k)' /\ Position(k)'
  BY <1>1, <1>2 DEF WorkingAt, Pending, OwnRows, Position, AtFund, InLoop
<1>4. InSession(k)'
  BY DEF WorkingAt, InSession, InLoop, AtFund, Existing
<1>5. Treated(k)'
  BY <1>1 DEF WorkingAt, Treated, InLoop, AtFund
<1>6. Logged(k)'
  BY <1>1 DEF WorkingAt, Logged, InLoop, AtFund
<1> QED
  BY <1>3, <1>4, <1>5, <1>6 DEF WorkingAt

\* A step of a call leaves the runs of the others alone.
LEMMA OtherRuns ==
    ASSUME TypeInv, OneWorker, NEW j \in Jobs, Active(j), NEW k \in Jobs \ {j}, pc[k] # "idle"
    PROVE  /\ job[k].id \in RunIds
           /\ runs'[job[k].id] = runs[job[k].id]
           /\ checks'[job[k].id] = checks[job[k].id]
<1>0. TypeOK
  BY DEF TypeInv
<1>1. pc[j] # "idle" /\ job[j].id \in RunIds
  BY <1>0, LoadEffect, InsertEffect, FindEffect, FetchEffect, CommitEffect, ExceptEffect,
     NoteEffect, FinishEffect DEF Active, TypeOK
<1>2. job[k].id # job[j].id /\ job[k].id \in RunIds
  BY <1>0, <1>1 DEF OneWorker, TypeOK
<1>3. runs \in [RunIds -> Run] /\ checks \in [RunIds -> [Funds -> Checkpoint]]
  BY <1>0 DEF TypeOK
<1>4. CASE LoadExisting(j) \/ FindCheckpoint(j) \/ FetchHistory(j) \/ Except(j)
  BY <1>0, <1>2, <1>4, LoadEffect, FindEffect, FetchEffect, ExceptEffect DEF database
<1>5. CASE InsertRun(j)
  BY <1>0, <1>2, <1>3, <1>5, InsertEffect
<1>6. CASE CommitFund(j)
  BY <1>0, <1>2, <1>3, <1>6 DEF CommitFund
<1>7. CASE NoteError(j)
  BY <1>0, <1>2, <1>3, <1>7 DEF NoteError
<1>8. CASE Finish(j)
  BY <1>0, <1>2, <1>3, <1>8 DEF Finish
<1> QED
  BY <1>4, <1>5, <1>6, <1>7, <1>8 DEF Active

\* Where a call is in the selection, and where it is after a fund.
LEMMA Advance ==
    ASSUME TypeOK, NEW j \in Jobs, pc[j] \in InLoop, Position(j), job[j].todo # <<>>
    PROVE  /\ Passed(j) \in Nat /\ Passed(j) + 1 \in DOMAIN job[j].funds
           /\ job[j].funds[Passed(j) + 1] = Fund(j)
           /\ job'[j].todo = Tail(job[j].todo) /\ job'[j].funds = job[j].funds =>
                 Position(j)' /\ Passed(j)' = Passed(j) + 1
<1> DEFINE t == job[j].todo
           all == job[j].funds
<1>1. t \in Seq(Funds) /\ all \in Seq(Funds)
  <2>1. job[j] \in Job
    BY DEF TypeOK
  <2> QED
    BY <2>1, JobFields
<1>2. /\ Len(t) \in Nat /\ Len(all) \in Nat /\ Len(t) # 0
      /\ DOMAIN all = 1..Len(all)
  BY <1>1, EmptySeq, LenProperties
<1>3. /\ Len(t) <= Len(all) /\ Passed(j) = Len(all) - Len(t)
      /\ \A m \in 1..Len(t) : t[m] = all[Passed(j) + m]
  BY DEF Position, Passed
<1>4. Fund(j) = t[1] /\ 1 \in 1..Len(t)
  BY <1>1, <1>2 DEF Fund
<1>5. /\ Passed(j) \in Nat /\ Passed(j) + 1 \in DOMAIN all
      /\ all[Passed(j) + 1] = Fund(j)
  <2> HIDE DEF t, all
  <2> QED
    BY <1>2, <1>3, <1>4
<1>6. ASSUME job'[j].todo = Tail(t), job'[j].funds = all
      PROVE  Position(j)' /\ Passed(j)' = Passed(j) + 1
  <2> DEFINE u == Tail(t)
  <2>1. u \in Seq(Funds) /\ Len(u) = Len(t) - 1 /\ \A i \in 1..Len(u) : u[i] = t[i + 1]
    BY <1>1, HeadTailProperties
  <2>2. Passed(j)' = Len(all) - Len(u)
    BY <1>6 DEF Passed
  <2>3. Passed(j)' = Passed(j) + 1
    <3> HIDE DEF t, all, u
    <3> QED
      BY <1>2, <1>3, <2>1, <2>2
  <2>4. ASSUME NEW m \in 1..Len(u)
        PROVE  u[m] = all[Passed(j)' + m]
    <3> HIDE DEF t, all, u
    <3>0. m \in Nat /\ 1 <= m /\ m <= Len(t) - 1
      BY <1>2, <2>1
    <3>1. m + 1 \in 1..Len(t) /\ u[m] = t[m + 1]
      BY <1>2, <2>1, <3>0
    <3>3. Passed(j) + (m + 1) = Passed(j)' + m
      BY <1>5, <2>3, <3>0
    <3>2. t[m + 1] = all[Passed(j) + (m + 1)]
      BY <1>3, <3>1
    <3> QED
      BY <3>1, <3>2, <3>3
  <2>5. Len(u) <= Len(all)
    <3> HIDE DEF t, all, u
    <3> QED
      BY <1>2, <1>3, <2>1
  <2> QED
    BY <1>6, <2>3, <2>4, <2>5 DEF Position
<1> QED
  BY <1>5, <1>6

\* A call that has just loaded its run is at the first of its funds.
LEMMA AtStart ==
    ASSUME NEW j \in Jobs, pc'[j] = "find", NEW s \in Selections,
           job'[j].funds = s, job'[j].todo = s
    PROVE  Position(j)' /\ Treated(j)' /\ Pending(j)' /\ OwnRows(j)'
<1>1. s \in Seq(Funds)
  BY BackfillAssumption
<1>2. Len(s) \in Nat
  BY <1>1, LenProperties
<1>3. Passed(j)' = 0
  BY <1>2 DEF Passed
<1>4. \A m \in 1..Len(s) : s[m] = s[Passed(j)' + m]
  BY <1>2, <1>3
<1>5. 1..Passed(j)' = {}
  BY <1>3
<1> QED
  BY <1>2, <1>4, <1>5 DEF Position, Treated, Pending, OwnRows, AtFund

\* A call that stays at its fund.
LEMMA SameFund ==
    ASSUME NEW j \in Jobs, pc[j] \in InLoop, Position(j), job'[j].todo = job[j].todo,
           job'[j].funds = job[j].funds
    PROVE  Position(j)' /\ Fund(j)' = Fund(j) /\ Passed(j)' = Passed(j)
BY DEF Position, Fund, Passed

LEMMA LoadWorks ==
    ASSUME TypeOK, NEW j \in Jobs, LoadExisting(j) \/ InsertRun(j)
    PROVE  WorkingAt(j)'
<1>1. /\ pc'[j] = "find" /\ job'[j].id = job[j].id /\ job'[j].errors = runs'[job[j].id].errors
      /\ job'[j].funds \in Selections /\ job'[j].todo = job'[j].funds
  BY LoadEffect, InsertEffect
<1>2. job'[j].id \in Existing' /\ job'[j].mine = runs'[job'[j].id]
  <2>1. CASE LoadExisting(j)
    BY <1>1, <2>1, LoadEffect DEF Existing, database
  <2>2. CASE InsertRun(j)
    <3>1. runs'[job[j].id] = NewRun /\ NewRun.status # "none" /\ job[j].id \in RunIds
      BY <2>2, InsertEffect DEF TypeOK, NewRun, NoRow
    <3> QED
      BY <1>1, <2>2, <3>1, InsertEffect DEF Existing
  <2> QED
    BY <2>1, <2>2
<1> QED
  BY <1>1, <1>2, AtStart DEF WorkingAt, InSession, Logged

LEMMA FindWorks ==
    ASSUME TypeOK, NEW j \in Jobs, FindCheckpoint(j), WorkingAt(j)
    PROVE  WorkingAt(j)'
<1>1. /\ pc[j] = "find" /\ job[j].todo # <<>> /\ UNCHANGED database
      /\ job'[j].id = job[j].id /\ job'[j].errors = job[j].errors
      /\ job'[j].mine = job[j].mine /\ job'[j].funds = job[j].funds
  BY FindEffect
<1>2. pc[j] \in InLoop /\ Position(j) /\ Treated(j) /\ InSession(j) /\ Logged(j)
  BY <1>1 DEF InLoop, WorkingAt
<1>3. runs' = runs /\ checks' = checks /\ rows' = rows
  BY <1>1 DEF database
<1>4. InSession(j)' /\ (pc'[j] # "note" => Logged(j)')
  BY <1>1, <1>2, <1>3 DEF InSession, Existing, Logged
<1>5. CASE pc'[j] = "find"
  <2>1. Check(j).status = "completed" /\ job'[j].todo = Tail(job[j].todo)
    BY <1>5, FindEffect
  <2>2. /\ Passed(j) \in Nat /\ Passed(j)' = Passed(j) + 1 /\ Position(j)'
        /\ job[j].funds[Passed(j) + 1] = Fund(j)
    BY <1>1, <1>2, <2>1, Advance
  <2>3. checks[job[j].id][job[j].funds[Passed(j) + 1]].status # "none"
    BY <2>1, <2>2 DEF Check
  <2>4. \A n \in 1..Passed(j)' : n \in 1..Passed(j) \/ n = Passed(j) + 1
    BY <2>2
  <2>5. Treated(j)'
    BY <1>1, <1>2, <1>3, <1>5, <2>3, <2>4 DEF Treated
  <2> QED
    BY <1>4, <1>5, <2>2, <2>5 DEF WorkingAt, Pending, OwnRows, AtFund
<1>6. CASE pc'[j] = "fetch"
  <2>1. Check(j).status # "completed" /\ job'[j].todo = job[j].todo
    BY <1>6, FindEffect
  <2>2. Position(j)' /\ Fund(j)' = Fund(j) /\ Passed(j)' = Passed(j)
    BY <1>1, <1>2, <2>1, SameFund
  <2>3. Pending(j)'
    BY <1>1, <1>3, <2>1, <2>2 DEF Pending, Check
  <2>4. Treated(j)'
    BY <1>1, <1>2, <1>3, <1>6, <2>2 DEF Treated
  <2> QED
    BY <1>4, <1>6, <2>2, <2>3, <2>4 DEF WorkingAt, OwnRows
<1> QED
  BY <1>5, <1>6, FindEffect

LEMMA FetchWorks ==
    ASSUME TypeOK, NEW j \in Jobs, FetchHistory(j), WorkingAt(j)
    PROVE  WorkingAt(j)'
<1>1. /\ pc[j] = "fetch" /\ pc'[j] = "commit" /\ UNCHANGED database
      /\ job'[j].id = job[j].id /\ job'[j].errors = job[j].errors
      /\ job'[j].mine = job[j].mine
      /\ job'[j].funds = job[j].funds /\ job'[j].todo = job[j].todo
  BY FetchEffect
<1>2. pc[j] \in InLoop /\ Pending(j) /\ Position(j) /\ Treated(j) /\ InSession(j) /\ Logged(j)
  BY <1>1 DEF InLoop, AtFund, WorkingAt
<1>3. runs' = runs /\ checks' = checks
  BY <1>1 DEF database
<1>4. Position(j)' /\ Fund(j)' = Fund(j) /\ Passed(j)' = Passed(j)
  BY <1>1, <1>2, SameFund
<1>5. Pending(j)' /\ InSession(j)' /\ Logged(j)'
  BY <1>1, <1>2, <1>3, <1>4 DEF Pending, Check, AtFund, InSession, Existing, Logged
<1>6. Treated(j)'
  BY <1>1, <1>2, <1>3, <1>4 DEF Treated
<1>7. OwnRows(j)'
  <2>1. PICK h \in Histories : job'[j].new = NewRows(j, h) /\ job'[j].last = LastDate(j, h)
    BY FetchEffect
  <2>2. ASSUME NEW r \in NewRows(j, h)
        PROVE  r.run = job[j].id /\ r.fund = Fund(j) /\ r.date <= LastDate(j, h)
    <3>1. r.run = job[j].id /\ r.fund = Fund(j) /\ \E n \in Wanted(j, h) : r.date = h[n]
      BY <1>1, NewRowsType
    <3>2. \A n \in Wanted(j, h) : h[n] <= LastDate(j, h)
      BY <1>1, LastDateType
    <3> QED
      BY <3>1, <3>2
  <2> QED
    BY <1>1, <1>4, <2>1, <2>2 DEF OwnRows
<1> QED
  BY <1>4, <1>5, <1>6, <1>7 DEF WorkingAt

LEMMA CommitWorks ==
    ASSUME TypeInv, NEW j \in Jobs, CommitFund(j), WorkingAt(j)
    PROVE  WorkingAt(j)'
<1>0. TypeOK
  BY DEF TypeInv
<1>1. /\ pc[j] = "commit" /\ pc'[j] = "find" /\ job[j].todo # <<>>
      /\ job'[j].id = job[j].id /\ job'[j].errors = job[j].errors
      /\ job'[j].funds = job[j].funds /\ job'[j].todo = Tail(job[j].todo)
      /\ runs'[job[j].id].errors = runs[job[j].id].errors
      /\ runs'[job[j].id].status = runs[job[j].id].status
      /\ job'[j].mine.completed = runs'[job[j].id].completed
      /\ job'[j].mine.written = runs'[job[j].id].written
  BY CommitEffect
<1>2. pc[j] \in InLoop /\ Position(j) /\ Treated(j) /\ InSession(j) /\ Logged(j)
  BY <1>1 DEF InLoop, AtFund, WorkingAt
<1>3. InSession(j)' /\ Logged(j)'
  BY <1>1, <1>2 DEF InSession, Existing, Logged
<1>4. /\ Passed(j) \in Nat /\ Passed(j)' = Passed(j) + 1 /\ Position(j)'
      /\ Passed(j) + 1 \in DOMAIN job[j].funds /\ job[j].funds[Passed(j) + 1] = Fund(j)
  BY <1>0, <1>1, <1>2, Advance
<1>5. job[j].funds \in Seq(Funds)
  BY <1>0, JobFields DEF TypeOK
<1>6. ASSUME NEW n \in 1..Passed(j)'
      PROVE  checks'[job[j].id][job[j].funds[n]].status # "none"
  <2>1. CASE job[j].funds[n] = Fund(j)
    BY <2>1, CommitChecks
  <2>2. CASE job[j].funds[n] # Fund(j)
    <3>1. n \in 1..Passed(j) /\ n \in DOMAIN job[j].funds
      BY <1>4, <1>5, <2>2
    <3>2. job[j].funds[n] \in Funds
      BY <1>5, <3>1
    <3>3. checks'[job[j].id][job[j].funds[n]] = checks[job[j].id][job[j].funds[n]]
      BY <2>2, <3>2, CommitChecks
    <3> QED
      BY <1>2, <3>1, <3>3 DEF Treated
  <2> QED
    BY <2>1, <2>2
<1>7. Treated(j)'
  BY <1>1, <1>6 DEF Treated
<1> QED
  BY <1>1, <1>3, <1>4, <1>7 DEF WorkingAt, Pending, OwnRows, AtFund

LEMMA ExceptWorks ==
    ASSUME TypeOK, NEW j \in Jobs, Except(j), WorkingAt(j)
    PROVE  WorkingAt(j)'
<1>1. /\ pc[j] = "except" /\ pc'[j] = "note" /\ UNCHANGED database
      /\ job'[j].id = job[j].id /\ job'[j].errors = Append(job[j].errors, Fund(j))
      /\ job'[j].mine = runs[job[j].id]
      /\ job'[j].funds = job[j].funds /\ job'[j].todo = job[j].todo
  BY ExceptEffect
<1>2. pc[j] \in InLoop /\ Pending(j) /\ Position(j) /\ Treated(j) /\ InSession(j) /\ Logged(j)
  BY <1>1 DEF InLoop, AtFund, WorkingAt
<1>3. runs' = runs /\ checks' = checks
  BY <1>1 DEF database
<1>4. Position(j)' /\ Fund(j)' = Fund(j) /\ Passed(j)' = Passed(j)
  BY <1>1, <1>2, SameFund
<1>5. Pending(j)' /\ InSession(j)' /\ Logged(j)'
  BY <1>1, <1>2, <1>3, <1>4 DEF Pending, Check, AtFund, InSession, Existing, Logged
<1>6. Treated(j)'
  BY <1>1, <1>2, <1>3, <1>4 DEF Treated
<1> QED
  BY <1>1, <1>4, <1>5, <1>6 DEF WorkingAt, OwnRows

LEMMA NoteWorks ==
    ASSUME TypeOK, NEW j \in Jobs, NoteError(j), WorkingAt(j)
    PROVE  WorkingAt(j)'
<1>1. /\ pc[j] = "note" /\ pc'[j] = "find" /\ job[j].todo # <<>>
      /\ job'[j].id = job[j].id /\ job'[j].errors = job[j].errors
      /\ job'[j].funds = job[j].funds /\ job'[j].todo = Tail(job[j].todo)
      /\ runs'[job[j].id].errors = job[j].errors
      /\ runs'[job[j].id].status = runs[job[j].id].status
      /\ runs'[job[j].id].completed = runs[job[j].id].completed
      /\ runs'[job[j].id].written = runs[job[j].id].written
      /\ job'[j].mine.completed = job[j].mine.completed
      /\ job'[j].mine.written = job[j].mine.written
  BY NoteEffect
<1>2. pc[j] \in InLoop /\ Position(j) /\ Treated(j) /\ InSession(j)
  BY <1>1 DEF InLoop, AtFund, WorkingAt, Treated
<1>3. InSession(j)' /\ Logged(j)'
  BY <1>1, <1>2 DEF InSession, Existing, Logged
<1>4. /\ Passed(j) \in Nat /\ Passed(j)' = Passed(j) + 1 /\ Position(j)'
      /\ Passed(j) + 1 \in DOMAIN job[j].funds /\ job[j].funds[Passed(j) + 1] = Fund(j)
  BY <1>1, <1>2, Advance
<1>5. job[j].funds \in Seq(Funds)
  BY JobFields DEF TypeOK
<1>6. ASSUME NEW n \in 1..Passed(j)'
      PROVE  checks'[job[j].id][job[j].funds[n]].status # "none"
  <2>1. CASE job[j].funds[n] = Fund(j)
    BY <2>1, NoteChecks
  <2>2. CASE job[j].funds[n] # Fund(j)
    <3>1. n \in 1..Passed(j) /\ n \in DOMAIN job[j].funds
      BY <1>4, <1>5, <2>2
    <3>2. job[j].funds[n] \in Funds
      BY <1>5, <3>1
    <3>3. checks'[job[j].id][job[j].funds[n]] = checks[job[j].id][job[j].funds[n]]
      BY <2>2, <3>2, NoteChecks
    <3> QED
      BY <1>2, <3>1, <3>3 DEF Treated
  <2> QED
    BY <2>1, <2>2
<1>7. Treated(j)'
  BY <1>1, <1>2, <1>6 DEF Treated
<1> QED
  BY <1>1, <1>3, <1>4, <1>7 DEF WorkingAt, Pending, OwnRows, AtFund

LEMMA WorkStep == TypeInv /\ OneWorker /\ Working /\ [Next]_vars => Working'
<1> SUFFICES ASSUME TypeInv, OneWorker, Working, [Next]_vars, NEW k \in Jobs
             PROVE  WorkingAt(k)'
  BY DEF Working
<1>0. TypeOK /\ WorkingAt(k)
  BY DEF TypeInv, Working
<1>1. CASE Quiet
  <2>1. QuietAt(k) /\ UNCHANGED database
    BY <1>1 DEF Quiet
  <2>2. runs' = runs /\ checks' = checks
    BY <2>1 DEF database
  <2>3. CASE pc'[k] = pc[k] /\ job'[k] = job[k]
    BY <1>0, <2>2, <2>3, WorkFrame DEF TypeOK
  <2>4. CASE pc'[k] \in {"idle", "load", "insert"}
    BY <2>4 DEF WorkingAt, Pending, InSession, Logged, Position, Treated, OwnRows, InLoop, AtFund
  <2>5. CASE pc[k] \in {"fetch", "commit"} /\ pc'[k] = "except" /\ job'[k] = job[k]
    <3>1. /\ pc[k] \in InLoop /\ pc[k] \in AtFund
          /\ Pending(k) /\ Position(k) /\ Treated(k) /\ InSession(k) /\ Logged(k)
      BY <1>0, <2>5 DEF InLoop, AtFund, WorkingAt
    <3>2. Position(k)' /\ Fund(k)' = Fund(k) /\ Passed(k)' = Passed(k)
      BY <2>5, <3>1, SameFund
    <3>3. Pending(k)' /\ InSession(k)' /\ Treated(k)' /\ Logged(k)'
      BY <2>2, <2>5, <3>1, <3>2 DEF Pending, Check, InSession, Existing, Treated, Logged
    <3> QED
      BY <2>5, <3>2, <3>3 DEF WorkingAt, OwnRows
  <2> QED
    BY <2>1, <2>3, <2>4, <2>5 DEF QuietAt
<1>2. ASSUME NEW j \in Jobs, Active(j), Others(j)
      PROVE  WorkingAt(k)'
  <2>1. CASE k # j
    BY <1>0, <1>2, <2>1, OtherRuns, WorkFrame DEF Others
  <2>2. CASE k = j /\ Finish(j)
    <3>1. pc'[k] = "idle"
      BY <1>0, <2>2, FinishEffect
    <3> QED
      BY <3>1 DEF WorkingAt, Pending, InSession, Logged, Position, Treated, OwnRows, InLoop, AtFund
  <2>3. CASE k = j /\ ~Finish(j)
    BY <1>0, <1>2, <2>3, LoadWorks, FindWorks, FetchWorks, CommitWorks, ExceptWorks, NoteWorks
       DEF Active
  <2> QED
    BY <2>1, <2>2, <2>3
<1>3. ASSUME NEW i \in Refreshes, Refresh(i)
      PROVE  WorkingAt(k)'
  BY <1>0, <1>3, WorkFrame, RefreshEffect DEF TypeOK
<1> QED
  BY <1>0, <1>1, <1>2, <1>3, StepCases

(***************************************************************************)
(* A run with one worker.                                                  *)
(***************************************************************************)
\* The steps that change neither a checkpoint, a row nor a run.
Bystander(j) == LoadExisting(j) \/ FindCheckpoint(j) \/ FetchHistory(j) \/ Except(j)

LEMMA BystanderFrame ==
    ASSUME TypeOK, NEW j \in Jobs, Bystander(j)
    PROVE  runs' = runs /\ checks' = checks /\ rows' = rows
BY LoadEffect, FindEffect, FetchEffect, ExceptEffect DEF Bystander, database

\* A step that writes the database is one of five.
LEMMA WriteCases ==
    ASSUME TypeOK, [Next]_vars
    PROVE  \/ runs' = runs /\ checks' = checks /\ rows' = rows
           \/ \E j \in Jobs : InsertRun(j) \/ CommitFund(j) \/ NoteError(j) \/ Finish(j)
           \/ \E i \in Refreshes : Refresh(i)
<1>1. Quiet => runs' = runs /\ checks' = checks /\ rows' = rows
  BY DEF Quiet, database
<1>2. ASSUME NEW j \in Jobs, Active(j)
      PROVE  \/ runs' = runs /\ checks' = checks /\ rows' = rows
             \/ InsertRun(j) \/ CommitFund(j) \/ NoteError(j) \/ Finish(j)
  BY <1>2, BystanderFrame DEF Active, Bystander
<1> QED
  BY <1>1, <1>2, StepCases

\* What a completed checkpoint says, no step of a sole worker changes: it
\* commits and notes at funds that are not completed.
LEMMA StaysStep ==
    ASSUME TypeInv, Working, [Next]_vars, NEW id \in RunIds, NEW f \in Funds,
           checks[id][f].status = "completed"
    PROVE  checks'[id][f] = checks[id][f]
<1>0. TypeOK
  BY DEF TypeInv
<1>1. ASSUME NEW j \in Jobs, CommitFund(j) \/ NoteError(j)
      PROVE  checks'[id][f] = checks[id][f]
  <2>1. pc[j] \in AtFund
    BY <1>0, <1>1, CommitEffect, NoteEffect DEF AtFund
  <2>2. checks[job[j].id][Fund(j)].status # "completed"
    BY <2>1 DEF Working, WorkingAt, Pending, Check
  <2> QED
    BY <1>0, <1>1, <2>2, CommitChecks, NoteChecks
<1>2. ASSUME NEW j \in Jobs, InsertRun(j) \/ Finish(j)
      PROVE  checks' = checks
  BY <1>0, <1>2, InsertEffect, FinishEffect
<1>3. ASSUME NEW i \in Refreshes, Refresh(i)
      PROVE  checks' = checks
  BY <1>0, <1>3, RefreshEffect
<1> QED
  BY <1>0, <1>1, <1>2, <1>3, WriteCases

LEMMA WorkInit == Init => Working
BY DEF Init, Working, WorkingAt, Pending, InSession, Logged, Position, Treated, OwnRows, InLoop, AtFund

\* While no two calls share a run, a fund that is completed stays so, with the
\* day it has reached, through failures, crashes and resumed calls (l.48).
THEOREM CompletedForGood == Spec /\ []OneWorker => CompletedStays
<1>1. TypeInv /\ Working /\ [Next]_vars
        => [\A id \in RunIds, f \in Funds :
              checks[id][f].status = "completed" => checks'[id][f] = checks[id][f]]_vars
  BY StaysStep
<1> QED
  BY <1>1, TypeInvariant, WorkInit, WorkStep, PTL DEF Spec, CompletedStays

\* A step that writes a run leaves the others, and an error leaves the counts.
LEMMA OneRun ==
    ASSUME TypeInv, NEW j \in Jobs, InsertRun(j) \/ CommitFund(j) \/ NoteError(j) \/ Finish(j)
    PROVE  \A id \in RunIds \ {job[j].id} : runs'[id] = runs[id]
<1>0. TypeOK /\ runs \in [RunIds -> Run]
  BY DEF TypeInv, TypeOK
<1>1. CASE InsertRun(j)
  BY <1>0, <1>1, InsertEffect
<1>2. CASE CommitFund(j)
  BY <1>2, CommitEffect
<1>3. CASE NoteError(j)
  BY <1>0, <1>3, NoteEffect
<1>4. CASE Finish(j)
  BY <1>0, <1>4, FinishEffect
<1> QED
  BY <1>1, <1>2, <1>3, <1>4

LEMMA NoteRuns ==
    ASSUME TypeOK, NEW j \in Jobs, NoteError(j)
    PROVE  /\ pc[j] = "note" /\ rows' = rows
           /\ runs'[job[j].id].status = runs[job[j].id].status
           /\ runs'[job[j].id].completed = runs[job[j].id].completed
           /\ runs'[job[j].id].written = runs[job[j].id].written
BY NoteEffect

LEMMA AbsentStep == TypeInv /\ Working /\ Absent /\ [Next]_vars => Absent'
<1> SUFFICES ASSUME TypeInv, Working, Absent, [Next]_vars, NEW id \in RunIds,
                    runs'[id].status = "none"
             PROVE  runs'[id].completed = 0 /\ runs'[id].written = 0 /\ runs'[id].errors = <<>>
  BY DEF Absent
<1>0. TypeOK
  BY DEF TypeInv
<1>1. CASE runs'[id] = runs[id]
  BY <1>1 DEF Absent
<1>2. ASSUME NEW j \in Jobs, InsertRun(j), id = job[j].id
      PROVE  runs'[id].completed = 0 /\ runs'[id].written = 0 /\ runs'[id].errors = <<>>
  BY <1>0, <1>2, InsertEffect, EmptyTypes DEF TypeOK
<1>3. ASSUME NEW j \in Jobs, CommitFund(j), id = job[j].id
      PROVE  FALSE
  <2>1. pc[j] = "commit" /\ runs'[id].status = runs[id].status
    BY <1>3, CommitEffect
  <2>2. id \in Existing
    BY <1>3, <2>1 DEF Working, WorkingAt, InSession, InLoop, AtFund
  <2> QED
    BY <2>1, <2>2 DEF Existing
<1>4. ASSUME NEW j \in Jobs, NoteError(j), id = job[j].id
      PROVE  FALSE
  <2>1. pc[j] = "note" /\ runs'[id].status = runs[id].status
    BY <1>0, <1>4, NoteRuns
  <2>2. id \in Existing
    BY <1>4, <2>1 DEF Working, WorkingAt, InSession, InLoop, AtFund
  <2> QED
    BY <2>1, <2>2 DEF Existing
<1>5. ASSUME NEW j \in Jobs, Finish(j), id = job[j].id
      PROVE  FALSE
  BY <1>0, <1>5, FinishEffect DEF Outcome
<1>6. ASSUME NEW j \in Jobs, InsertRun(j) \/ CommitFund(j) \/ NoteError(j) \/ Finish(j),
             id # job[j].id
      PROVE  runs'[id] = runs[id]
  BY <1>6, OneRun
<1>7. ASSUME NEW i \in Refreshes, Refresh(i)
      PROVE  runs' = runs
  BY <1>0, <1>7, RefreshEffect
<1> QED
  BY <1>0, <1>1, <1>2, <1>3, <1>4, <1>5, <1>6, <1>7, WriteCases

\* The rows of the fund a sole worker commits: none before, its own after.
LEMMA NoRowsYet ==
    ASSUME TypeInv, Working, Checkpointed, NEW j \in Jobs, CommitFund(j), NEW r \in rows
    PROVE  ~(r.run = job[j].id /\ r.fund = Fund(j))
<1>0. TypeOK
  BY DEF TypeInv
<1>1. pc[j] = "commit" /\ job[j].id \in RunIds
  BY <1>0, CommitEffect DEF TypeOK
<1>2. checks[job[j].id][Fund(j)].status # "completed"
  BY <1>1 DEF Working, WorkingAt, Pending, Check, AtFund
<1> QED
  BY <1>1, <1>2 DEF Checkpointed

LEMMA CheckpointedStep ==
    TypeInv /\ Working /\ Checkpointed /\ [Next]_vars => Checkpointed'
<1> SUFFICES ASSUME TypeInv, Working, Checkpointed, [Next]_vars,
                    NEW r \in rows', r.run \in RunIds
             PROVE  /\ checks'[r.run][r.fund].status = "completed"
                    /\ r.date <= checks'[r.run][r.fund].last
  BY DEF Checkpointed
<1>0. TypeOK
  BY DEF TypeInv
<1>1. CASE r \in rows
  <2>1. r \in Row
    BY <1>0, <1>1 DEF TypeOK
  <2>2. r.run \in RunIds /\ r.fund \in Funds
    BY <2>1 DEF Row
  <2>3. checks[r.run][r.fund].status = "completed" /\ r.date <= checks[r.run][r.fund].last
    BY <1>1 DEF Checkpointed
  <2> QED
    BY <2>2, <2>3, StaysStep
<1>2. ASSUME NEW j \in Jobs, CommitFund(j), r \notin rows
      PROVE  /\ checks'[r.run][r.fund].status = "completed"
             /\ r.date <= checks'[r.run][r.fund].last
  <2>1. pc[j] = "commit" /\ r \in job[j].new
    BY <1>2, CommitEffect
  <2>2. r.run = job[j].id /\ r.fund = Fund(j) /\ r.date <= job[j].last
    BY <2>1 DEF Working, WorkingAt, OwnRows
  <2> QED
    BY <1>2, <2>2, CommitChecks
<1>3. ASSUME NEW i \in Refreshes, Refresh(i)
      PROVE  r \in rows
  BY <1>0, <1>3, RefreshEffect
<1>4. ASSUME NEW j \in Jobs, InsertRun(j) \/ NoteError(j) \/ Finish(j)
      PROVE  r \in rows
  BY <1>0, <1>4, InsertEffect, NoteEffect, FinishEffect
<1> QED
  BY <1>0, <1>1, <1>2, <1>3, <1>4, WriteCases

\* The rows a run has written.
Written(id) == {r \in rows : r.run = id}

\* A step that leaves the run, its completed funds and its rows.
LEMMA CountsFrame ==
    ASSUME CountsExact, NEW id \in RunIds, Done(id)' = Done(id), Written(id)' = Written(id),
           runs'[id].completed = runs[id].completed, runs'[id].written = runs[id].written
    PROVE  /\ runs'[id].completed = Cardinality(Done(id)')
           /\ runs'[id].written = Cardinality(Written(id)')
BY DEF CountsExact, Done, Written

\* The commit of a fund counts one fund more and the rows it adds.
LEMMA CountsCommit ==
    ASSUME TypeInv, Working, Checkpointed, CountsExact, NEW j \in Jobs, CommitFund(j),
           NEW id \in RunIds, id = job[j].id
    PROVE  /\ runs'[id].completed = Cardinality(Done(id)')
           /\ runs'[id].written = Cardinality(Written(id)')
<1> DEFINE new == job[j].new
<1>0. TypeOK /\ Finite /\ pc[j] = "commit" /\ Fund(j) \in Funds
  BY CommitEffect, CommitChecks DEF TypeInv
<1>1. /\ rows' = rows \cup new
      /\ runs'[id].completed = job[j].mine.completed + 1
      /\ runs'[id].written = job[j].mine.written + Cardinality(new)
  BY CommitEffect
<1>2. job[j].mine.completed = runs[id].completed /\ job[j].mine.written = runs[id].written
  BY <1>0 DEF Working, WorkingAt, InSession, InLoop, AtFund
<1>3. IsFiniteSet(rows) /\ IsFiniteSet(new) /\ IsFiniteSet(Done(id))
  BY <1>0 DEF Finite
<1>4. \A r \in new : r.run = id /\ r.fund = Fund(j)
  BY <1>0 DEF Working, WorkingAt, OwnRows
<1>5. runs[id].completed = Cardinality(Done(id)) /\ runs[id].written = Cardinality(Written(id))
  BY <1>0 DEF CountsExact, Done, Written
<1>6. Done(id)' = Done(id) \cup {Fund(j)} /\ Fund(j) \notin Done(id)
  <2>1. checks[id][Fund(j)].status # "completed"
    BY <1>0 DEF Working, WorkingAt, Pending, Check, AtFund
  <2>2. /\ checks'[id][Fund(j)].status = "completed"
        /\ \A f \in Funds : f # Fund(j) => checks'[id][f] = checks[id][f]
    BY <1>0, CommitChecks
  <2> QED
    BY <1>0, <2>1, <2>2 DEF Done
<1>7. Cardinality(Done(id)') = Cardinality(Done(id)) + 1
  <2> DEFINE D == Done(id)
             x == Fund(j)
  <2>1. IsFiniteSet(D) /\ x \notin D
    BY <1>3, <1>6
  <2> HIDE DEF D, x
  <2>2. Cardinality(D \cup {x}) = Cardinality(D) + 1
    BY <2>1, FS_AddElement
  <2> QED
    BY <1>6, <2>2 DEF D, x
<1>8. Written(id)' = Written(id) \cup new /\ Written(id) \cap new = {}
  <2>1. Written(id)' = Written(id) \cup new
    BY <1>1, <1>4 DEF Written
  <2>2. \A r \in rows : ~(r.run = id /\ r.fund = Fund(j))
    BY NoRowsYet
  <2> QED
    BY <1>4, <2>1, <2>2 DEF Written
<1>9. Cardinality(Written(id)') = Cardinality(Written(id)) + Cardinality(new)
  <2> DEFINE W == Written(id)
             N == new
  <2>1. W \subseteq rows
    BY DEF Written
  <2>2. IsFiniteSet(W) /\ IsFiniteSet(N) /\ W \cap N = {}
    BY <1>3, <1>8, <2>1, FS_Subset
  <2> HIDE DEF W, N
  <2>3. Cardinality(W \cup N) = Cardinality(W) + Cardinality(N) - Cardinality(W \cap N)
    BY <2>2, FS_Union
  <2>4. Cardinality(W \cap N) = 0
    BY <2>2, FS_EmptySet
  <2>5. Cardinality(W) \in Nat /\ Cardinality(N) \in Nat
    BY <2>2, FS_CardinalityType
  <2>6. Cardinality(W \cup N) = Cardinality(W) + Cardinality(N)
    BY <2>3, <2>4, <2>5
  <2> QED
    BY <1>8, <2>6 DEF W, N
<1> QED
  BY <1>1, <1>2, <1>5, <1>7, <1>9

LEMMA CountsStep ==
    TypeInv /\ Working /\ Absent /\ Checkpointed /\ CountsExact /\ [Next]_vars => CountsExact'
<1> SUFFICES ASSUME TypeInv, Working, Absent, Checkpointed, CountsExact, [Next]_vars,
                    NEW id \in RunIds
             PROVE  /\ runs'[id].completed = Cardinality(Done(id)')
                    /\ runs'[id].written = Cardinality(Written(id)')
  BY DEF CountsExact, Done, Written
<1>0. TypeOK
  BY DEF TypeInv
<1>1. CASE runs' = runs /\ checks' = checks /\ rows' = rows
  BY <1>1, CountsFrame DEF Done, Written
<1>2. ASSUME NEW j \in Jobs, InsertRun(j)
      PROVE  /\ runs'[id].completed = Cardinality(Done(id)')
             /\ runs'[id].written = Cardinality(Written(id)')
  <2>1. Done(id)' = Done(id) /\ Written(id)' = Written(id)
    BY <1>0, <1>2, InsertEffect DEF Done, Written
  <2>2. CASE id = job[j].id
    <3>1. runs[id].status = "none" /\ runs'[id] = NewRun
      BY <1>0, <1>2, <2>2, InsertEffect DEF TypeOK, Existing
    <3>2. /\ runs'[id].completed = runs[id].completed
          /\ runs'[id].written = runs[id].written
      BY <3>1, EmptyTypes DEF Absent
    <3> QED
      BY <2>1, <3>2, CountsFrame
  <2>3. CASE id # job[j].id
    BY <1>2, <2>1, <2>3, OneRun, CountsFrame
  <2> QED
    BY <2>2, <2>3
<1>3. ASSUME NEW j \in Jobs, CommitFund(j)
      PROVE  /\ runs'[id].completed = Cardinality(Done(id)')
             /\ runs'[id].written = Cardinality(Written(id)')
  <2>1. CASE id = job[j].id
    BY <1>3, <2>1, CountsCommit
  <2>2. CASE id # job[j].id
    <3>1. Done(id)' = Done(id)
      <4>1. \A f \in Funds : checks'[id][f] = checks[id][f]
        BY <1>3, <2>2, CommitChecks
      <4> QED
        BY <4>1 DEF Done
    <3>2. Written(id)' = Written(id)
      <4>1. pc[j] = "commit" /\ rows' = rows \cup job[j].new
        BY <1>3, CommitEffect
      <4>2. \A r \in job[j].new : r.run = job[j].id
        BY <4>1 DEF Working, WorkingAt, OwnRows
      <4> QED
        BY <2>2, <4>1, <4>2 DEF Written
    <3>3. runs'[id] = runs[id]
      BY <1>3, <2>2, OneRun
    <3> QED
      BY <3>1, <3>2, <3>3, CountsFrame
  <2> QED
    BY <2>1, <2>2
<1>4. ASSUME NEW j \in Jobs, NoteError(j)
      PROVE  /\ runs'[id].completed = Cardinality(Done(id)')
             /\ runs'[id].written = Cardinality(Written(id)')
  <2>1. pc[j] = "note" /\ rows' = rows
    BY <1>0, <1>4, NoteRuns
  <2>2. checks[job[j].id][Fund(j)].status # "completed"
    BY <2>1 DEF Working, WorkingAt, Pending, Check, AtFund
  <2>3. ASSUME NEW f \in Funds
        PROVE  checks'[id][f].status = "completed" <=> checks[id][f].status = "completed"
    <3>1. CASE id = job[j].id /\ f = Fund(j)
      <4>1. checks'[job[j].id][Fund(j)].status = "error"
        BY <1>0, <1>4, NoteChecks
      <4> QED
        BY <2>2, <3>1, <4>1
    <3>2. CASE ~(id = job[j].id /\ f = Fund(j))
      BY <1>0, <1>4, <3>2, NoteChecks
    <3> QED
      BY <3>1, <3>2
  <2>4. Done(id)' = Done(id) /\ Written(id)' = Written(id)
    BY <2>1, <2>3 DEF Done, Written
  <2>5. runs'[id].completed = runs[id].completed /\ runs'[id].written = runs[id].written
    <3>1. CASE id = job[j].id
      BY <1>0, <1>4, <3>1, NoteRuns
    <3>2. CASE id # job[j].id
      BY <1>4, <3>2, OneRun
    <3> QED
      BY <3>1, <3>2
  <2> QED
    BY <2>4, <2>5, CountsFrame
<1>5. ASSUME NEW j \in Jobs, Finish(j)
      PROVE  /\ runs'[id].completed = Cardinality(Done(id)')
             /\ runs'[id].written = Cardinality(Written(id)')
  <2>1. Done(id)' = Done(id) /\ Written(id)' = Written(id)
    BY <1>0, <1>5, FinishEffect DEF Done, Written
  <2>2. runs'[id].completed = runs[id].completed /\ runs'[id].written = runs[id].written
    <3>1. CASE id = job[j].id
      BY <1>0, <1>5, <3>1, FinishEffect
    <3>2. CASE id # job[j].id
      BY <1>5, <3>2, OneRun
    <3> QED
      BY <3>1, <3>2
  <2> QED
    BY <2>1, <2>2, CountsFrame
<1>6. ASSUME NEW i \in Refreshes, Refresh(i)
      PROVE  /\ runs'[id].completed = Cardinality(Done(id)')
             /\ runs'[id].written = Cardinality(Written(id)')
  <2>1. rows \subseteq rows' /\ \A r \in rows' \ rows : r.run # id
    BY <1>0, <1>6, RefreshEffect
  <2>2. Written(id)' = Written(id)
    BY <2>1 DEF Written
  <2>3. runs' = runs /\ Done(id)' = Done(id)
    BY <1>0, <1>6, RefreshEffect DEF Done
  <2> QED
    BY <2>2, <2>3, CountsFrame
<1> QED
  BY <1>0, <1>1, <1>2, <1>3, <1>4, <1>5, <1>6, WriteCases

\* The errors of a run name the funds whose checkpoint is an error.
Named ==
    \A id \in RunIds, f \in Funds :
        checks[id][f].status = "error" => f \in Range(runs[id].errors)

LEMMA RangeAppend ==
    ASSUME NEW S, NEW s \in Seq(S), NEW e \in S
    PROVE  /\ e \in Range(Append(s, e))
           /\ \A x \in Range(s) : x \in Range(Append(s, e))
<1> DEFINE a == Append(s, e)
<1>1. /\ Len(s) \in Nat /\ DOMAIN s = 1..Len(s) /\ DOMAIN a = 1..(Len(s) + 1)
      /\ \A n \in 1..Len(s) : a[n] = s[n]
      /\ a[Len(s) + 1] = e
  OBVIOUS
<1> HIDE DEF a
<1>2. \A n \in DOMAIN s : n \in DOMAIN a /\ a[n] = s[n]
  BY <1>1
<1>3. Len(s) + 1 \in DOMAIN a
  BY <1>1
<1> QED
  BY <1>1, <1>2, <1>3 DEF Range

LEMMA NamedStep == TypeInv /\ Working /\ Absent /\ Named /\ [Next]_vars => Named'
<1> SUFFICES ASSUME TypeInv, Working, Absent, Named, [Next]_vars,
                    NEW id \in RunIds, NEW f \in Funds, checks'[id][f].status = "error"
             PROVE  f \in Range(runs'[id].errors)
  BY DEF Named
<1>0. TypeOK
  BY DEF TypeInv
<1>1. CASE checks'[id][f] = checks[id][f] /\ runs'[id].errors = runs[id].errors
  BY <1>1 DEF Named
<1>2. ASSUME NEW j \in Jobs, InsertRun(j)
      PROVE  f \in Range(runs'[id].errors)
  <2>1. checks' = checks
    BY <1>0, <1>2, InsertEffect
  <2>2. CASE id = job[j].id
    <3>1. runs[id].status = "none"
      BY <1>0, <1>2, <2>2, InsertEffect DEF Existing
    <3>2. f \in Range(runs[id].errors) /\ runs[id].errors = <<>>
      BY <2>1, <3>1 DEF Named, Absent
    <3> QED
      BY <3>2 DEF Range
  <2>3. CASE id # job[j].id
    BY <1>1, <1>2, <2>1, <2>3, OneRun
  <2> QED
    BY <2>2, <2>3
<1>3. ASSUME NEW j \in Jobs, CommitFund(j)
      PROVE  f \in Range(runs'[id].errors)
  <2>1. runs'[id].errors = runs[id].errors
    BY <1>3, OneRun, CommitEffect
  <2>2. ~(id = job[j].id /\ f = Fund(j))
    BY <1>3, CommitChecks
  <2>3. checks'[id][f] = checks[id][f]
    BY <1>3, <2>2, CommitChecks
  <2> QED
    BY <1>1, <2>1, <2>3
<1>4. ASSUME NEW j \in Jobs, NoteError(j)
      PROVE  f \in Range(runs'[id].errors)
  <2>1. CASE id # job[j].id
    <3>1. checks'[id][f] = checks[id][f]
      BY <1>0, <1>4, <2>1, NoteChecks
    <3> QED
      BY <1>1, <1>4, <2>1, <3>1, OneRun
  <2>2. CASE id = job[j].id
    <3> DEFINE e == runs[id].errors
    <3>1. pc[j] = "note" /\ runs'[id].errors = job[j].errors
      BY <1>0, <1>4, <2>2, NoteEffect
    <3>2. job[j].errors = Append(e, Fund(j))
      BY <2>2, <3>1 DEF Working, WorkingAt, Logged, InLoop, AtFund
    <3>3. e \in Seq(Funds) /\ Fund(j) \in Funds
      BY <1>0, <1>4, NoteChecks DEF TypeOK, Run
    <3>4. f = Fund(j) \/ f \in Range(e)
      BY <1>0, <1>4, <2>2, NoteChecks DEF Named
    <3> HIDE DEF e
    <3>5. Fund(j) \in Range(Append(e, Fund(j))) /\ \A x \in Range(e) : x \in Range(Append(e, Fund(j)))
      BY <3>3, RangeAppend
    <3> QED
      BY <3>1, <3>2, <3>4, <3>5
  <2> QED
    BY <2>1, <2>2
<1>5. ASSUME NEW j \in Jobs, Finish(j)
      PROVE  f \in Range(runs'[id].errors)
  <2>1. checks' = checks /\ runs'[id].errors = runs[id].errors
    BY <1>0, <1>5, OneRun, FinishEffect
  <2> QED
    BY <1>1, <2>1
<1>6. ASSUME NEW i \in Refreshes, Refresh(i)
      PROVE  runs' = runs /\ checks' = checks
  BY <1>0, <1>6, RefreshEffect
<1> QED
  BY <1>0, <1>1, <1>2, <1>3, <1>4, <1>5, <1>6, WriteCases

\* Only the end of the run returns.
LEMMA EndsFinish ==
    ASSUME TypeOK, [Next]_vars, NEW j \in Jobs, Ends(j)
    PROVE  Finish(j)
<1>0. /\ answer \in [Jobs -> {"none", "refused", "raised"} \cup Final]
      /\ answer[j] = "none" /\ answer'[j] \in Final /\ answer'[j] # answer[j]
      /\ answer'[j] \notin {"none", "refused", "raised"}
  BY DEF TypeOK, Ends, Final
<1>1. ASSUME NEW k \in Jobs, Raise(k) PROVE FALSE
  BY <1>0, <1>1 DEF Raise, Return
<1>2. ASSUME NEW k \in Jobs, Call(k) PROVE FALSE
  BY <1>0, <1>2 DEF Call, ApiRefuse, ApiCall, ScriptCall, Begin
<1>3. ASSUME NEW k \in Jobs, Failure(k) PROVE FALSE
  BY <1>0, <1>1, <1>3 DEF Failure, FetchFails, CommitFails, NoteFails, DatabaseFails
<1>4. ASSUME NEW k \in Jobs, Step(k), ~Finish(k) PROVE FALSE
  BY <1>0, <1>1, <1>4
     DEF Step, LoadRun, InsertRun, InsertRunConflicts, FindCheckpoint, FetchHistory, CommitFund,
         CommitConflicts, Except, NoteError, NoteConflicts, FinishTooLong
<1>5. ASSUME NEW k \in Jobs, Finish(k) PROVE k = j
  BY <1>0, <1>5 DEF Finish, Return
<1>6. ASSUME NEW dead, Crash(dead) PROVE FALSE
  BY <1>0, <1>6 DEF Crash
<1>7. ASSUME NEW i \in Refreshes, Refresh(i) PROVE FALSE
  BY <1>0, <1>7, RefreshEffect
<1>8. ~UNCHANGED vars
  BY <1>0 DEF vars
<1> QED
  BY <1>2, <1>3, <1>4, <1>5, <1>6, <1>7, <1>8 DEF Next, Finished

LEMMA ReportedStep ==
    ASSUME TypeInv, Working, Named, [Next]_vars, NEW j \in Jobs, Ends(j)
    PROVE  LET id == job[j].id
           IN  /\ \A f \in Range(job[j].funds) : checks[id][f].status # "none"
               /\ \A f \in Funds : checks[id][f].status = "error" =>
                     f \in Range(runs'[id].errors) /\ answer'[j] # "completed"
<1> DEFINE id == job[j].id
<1>0. TypeOK /\ Finish(j)
  BY EndsFinish DEF TypeInv
<1>1. /\ pc[j] = "find" /\ job[j].todo = <<>> /\ answer'[j] = Outcome(j)
      /\ runs'[id].errors = runs[id].errors
  BY <1>0, FinishEffect
<1>2. id \in RunIds /\ job[j].funds \in Seq(Funds) /\ pc[j] \in InLoop
  BY <1>0, <1>1, JobFields DEF TypeOK, InLoop
<1>3. Treated(j) /\ Logged(j)
  BY DEF Working, WorkingAt
<1>4. ASSUME NEW f \in Range(job[j].funds)
      PROVE  checks[id][f].status # "none"
  <2>1. PICK n \in DOMAIN job[j].funds : f = job[j].funds[n]
    BY DEF Range
  <2>2. Len(job[j].funds) \in Nat /\ DOMAIN job[j].funds = 1..Len(job[j].funds)
    BY <1>2, LenProperties
  <2>3. Passed(j) = Len(job[j].funds)
    BY <1>1, <2>2, EmptySeq DEF Passed
  <2> QED
    BY <1>2, <1>3, <2>1, <2>2, <2>3 DEF Treated
<1>5. ASSUME NEW f \in Funds, checks[id][f].status = "error"
      PROVE  f \in Range(runs'[id].errors) /\ answer'[j] # "completed"
  <2>1. f \in Range(runs[id].errors)
    BY <1>2, <1>5 DEF Named
  <2>2. job[j].errors = runs[id].errors
    BY <1>1, <1>2, <1>3 DEF Logged
  <2>3. runs[id].errors # <<>>
    BY <2>1 DEF Range
  <2> QED
    BY <1>1, <2>1, <2>2, <2>3 DEF Outcome
<1> QED
  BY <1>4, <1>5

(***************************************************************************)
(* The theorems about a run with one worker.                               *)
(***************************************************************************)
RunInv == TypeInv /\ Working /\ Absent /\ Checkpointed /\ CountsExact /\ Named

LEMMA RunInit == Init => RunInv
<1> SUFFICES ASSUME Init PROVE RunInv
  OBVIOUS
<1>1. TypeInv /\ Working
  BY TypeInit, WorkInit
<1>2. Absent /\ Checkpointed
  BY EmptyTypes DEF Init, Absent, Checkpointed
<1>3. Named
  BY DEF Init, Named, NoCheckpoint
<1>4. ASSUME NEW id \in RunIds
      PROVE  /\ runs[id].completed = Cardinality(Done(id))
             /\ runs[id].written = Cardinality(Written(id))
  <2>1. Done(id) = {} /\ Written(id) = {}
    BY DEF Init, Done, Written, NoCheckpoint
  <2>2. runs[id].completed = 0 /\ runs[id].written = 0
    BY EmptyTypes DEF Init
  <2> QED
    BY <2>1, <2>2, FS_EmptySet
<1>5. CountsExact
  BY <1>4 DEF CountsExact, Done, Written
<1> QED
  BY <1>1, <1>2, <1>3, <1>5 DEF RunInv

LEMMA RunStep == RunInv /\ TypeInv' /\ OneWorker /\ [Next]_vars => RunInv'
BY WorkStep, AbsentStep, CheckpointedStep, CountsStep, NamedStep DEF RunInv

LEMMA RunInvariant == Spec /\ []OneWorker => []RunInv
BY RunInit, RunStep, TypeInvariant, PTL DEF Spec

\* While no two calls share a run, every row of a run is that of a fund whose
\* checkpoint is completed and reaches to its day: rows and checkpoint are
\* committed together or not at all.
THEOREM Atomicity == Spec /\ []OneWorker => []Checkpointed
<1>1. RunInv => Checkpointed
  BY DEF RunInv
<1> QED
  BY <1>1, RunInvariant, PTL

\* While no two calls share a run, its counters are the number of its completed
\* funds and of its rows, through failures, crashes and resumed calls.
THEOREM Counters == Spec /\ []OneWorker => []CountsExact
<1>1. RunInv => CountsExact
  BY DEF RunInv
<1> QED
  BY <1>1, RunInvariant, PTL

\* While no two calls share a run, a call that returns leaves a checkpoint for every
\* fund it had selected, the run's errors name every fund of the run whose checkpoint
\* is an error, whatever earlier calls had selected, and it says completed only if
\* there is none.
THEOREM NoneForgotten == Spec /\ []OneWorker => Reported
<1>1. RunInv /\ [Next]_vars
        => [\A j \in Jobs : Ends(j) =>
              LET id == job[j].id
              IN  /\ \A f \in Range(job[j].funds) : checks[id][f].status # "none"
                  /\ \A f \in Funds : checks[id][f].status = "error" =>
                        f \in Range(runs'[id].errors) /\ answer'[j] # "completed"]_vars
  BY ReportedStep DEF RunInv
<1> QED
  BY <1>1, RunInvariant, PTL DEF Spec, Reported

\* A script that resumes and is the only call, or calls of which none resumes:
\* all four hold, for nobody shares a run.
THEOREM Resumable ==
    ASSUME \A j \in Resumers, k \in Jobs : j = k
    PROVE  Spec => [](Checkpointed /\ CountsExact) /\ CompletedStays /\ Reported
<1>1. Spec => []OneWorker
  BY Unshared
<1> QED
  BY <1>1, Atomicity, Counters, NoneForgotten, CompletedForGood, PTL

(***************************************************************************)
(* A day is written once, or was in hand twice.  A fetch and a refresh     *)
(* leave out the days that are in the database, so two rows of a day come  *)
(* from two sessions that have both looked before either commits, or from  *)
(* a session that has the day twice.                                       *)
(***************************************************************************)
\* Two sessions that hold a day, one that holds it twice, and one that holds a day
\* that is written meanwhile: the day is contended.
InHands ==
    \A x, y \in Sessions : \A r \in Added(x), s \in Added(y) :
        Day(r) = Day(s) /\ (x # y \/ r # s) => Day(r) \in contended
InHandAndWritten ==
    \A x \in Sessions : \A r \in Added(x), s \in rows : Day(r) = Day(s) => Day(r) \in contended
HandsInv == InHands /\ InHandAndWritten /\ DuplicatesHaveCause

\* The other sessions hold what they held.
OthersHold(x) == \A y \in Sessions \ {x} : Added(y)' = Added(y)

\* A session takes days in hand that are not written, or that are contended.
LEMMA Takes ==
    ASSUME HandsInv, NEW x \in Sessions, OthersHold(x), rows' = rows, NEW N, Added(x)' = N,
           Add(x, N), \A r \in N, s \in rows : Day(r) = Day(s) => Day(r) \in contended
    PROVE  HandsInv'
<1>1. /\ contended \subseteq contended'
      /\ \A r \in N : Meets(x, N, r) => Day(r) \in contended'
  BY DEF Add
<1>2. \A r, s : Day(r)' = Day(r) /\ Day(s)' = Day(s)
  BY DEF Day
<1>3. ASSUME NEW r \in N, NEW y \in Sessions \ {x}, NEW s \in Added(y), Day(r) = Day(s)
      PROVE  Day(r) \in contended'
  BY <1>1, <1>3 DEF Meets
<1>4. ASSUME NEW r \in N, NEW s \in N, r # s, Day(r) = Day(s)
      PROVE  Day(r) \in contended'
  BY <1>1, <1>4 DEF Meets
<1>5. InHands'
  <2> SUFFICES ASSUME NEW y \in Sessions, NEW z \in Sessions, NEW r \in Added(y)',
                      NEW s \in Added(z)', Day(r) = Day(s), y # z \/ r # s
               PROVE  Day(r) \in contended'
    BY <1>2 DEF InHands
  <2>1. CASE y = x /\ z = x
    BY <1>4, <2>1
  <2>2. CASE y = x /\ z # x
    BY <1>3, <2>2 DEF OthersHold
  <2>3. CASE y # x /\ z = x
    BY <1>3, <2>3 DEF OthersHold
  <2>4. CASE y # x /\ z # x
    BY <1>1, <2>4 DEF OthersHold, HandsInv, InHands
  <2> QED
    BY <2>1, <2>2, <2>3, <2>4
<1>6. InHandAndWritten'
  <2> SUFFICES ASSUME NEW y \in Sessions, NEW r \in Added(y)', NEW s \in rows, Day(r) = Day(s)
               PROVE  Day(r) \in contended'
    BY <1>2 DEF InHandAndWritten
  <2>1. CASE y = x
    BY <1>1, <2>1
  <2>2. CASE y # x
    BY <1>1, <2>2 DEF OthersHold, HandsInv, InHandAndWritten
  <2> QED
    BY <2>1, <2>2
<1>7. DuplicatesHaveCause'
  BY <1>1, <1>2 DEF HandsInv, DuplicatesHaveCause
<1> QED
  BY <1>5, <1>6, <1>7 DEF HandsInv

\* A session writes what it holds.
LEMMA Writes ==
    ASSUME HandsInv, NEW x \in Sessions, OthersHold(x), contended' = contended,
           rows' = rows \cup Added(x), Added(x)' = {}
    PROVE  HandsInv'
<1>1. \A r, s : Day(r)' = Day(r) /\ Day(s)' = Day(s)
  BY DEF Day
<1>2. \A y \in Sessions : Added(y)' = {} \/ (y # x /\ Added(y)' = Added(y))
  BY DEF OthersHold
<1>3. InHands'
  BY <1>1, <1>2 DEF HandsInv, InHands
<1>4. InHandAndWritten'
  <2> SUFFICES ASSUME NEW y \in Sessions, y # x, NEW r \in Added(y),
                      NEW s \in rows \cup Added(x), Day(r) = Day(s)
               PROVE  Day(r) \in contended
    BY <1>1, <1>2 DEF InHandAndWritten
  <2> QED
    BY DEF HandsInv, InHands, InHandAndWritten
<1>5. DuplicatesHaveCause'
  <2> SUFFICES ASSUME NEW r \in rows \cup Added(x), NEW s \in rows \cup Added(x),
                      r # s, Day(r) = Day(s)
               PROVE  Day(r) \in contended
    BY <1>1 DEF DuplicatesHaveCause
  <2> QED
    BY DEF HandsInv, InHands, InHandAndWritten, DuplicatesHaveCause
<1> QED
  BY <1>3, <1>4, <1>5 DEF HandsInv

\* Sessions keep what they hold or drop some of it.
LEMMA Drops ==
    ASSUME HandsInv, contended' = contended, rows' = rows,
           \A y \in Sessions : Added(y)' \subseteq Added(y)
    PROVE  HandsInv'
<1>1. \A r, s : Day(r)' = Day(r) /\ Day(s)' = Day(s)
  BY DEF Day
<1>2. InHands'
  BY <1>1 DEF HandsInv, InHands
<1>3. InHandAndWritten'
  BY <1>1 DEF HandsInv, InHandAndWritten
<1>4. DuplicatesHaveCause'
  BY <1>1 DEF HandsInv, DuplicatesHaveCause
<1> QED
  BY <1>2, <1>3, <1>4 DEF HandsInv

\* What the sessions of calls and of refreshes hold.
LEMMA Held ==
    /\ \A j \in Jobs : j \in Sessions /\ Added(j) = job[j].new /\ Added(j)' = job'[j].new
    /\ \A i \in Refreshes : i \in Sessions /\ Added(i) = refresh[i] /\ Added(i)' = refresh'[i]
    /\ Sessions = Jobs \cup Refreshes
<1>1. \A i \in Refreshes : i \notin Jobs
  BY BackfillAssumption
<1> QED
  BY <1>1 DEF Added, Sessions

\* Only a fetch and a refresh that adds a day may contend for it.
LEMMA ContendedStep ==
    ASSUME [Next]_vars
    PROVE  \/ contended' = contended
           \/ \E j \in Jobs : FetchHistory(j)
           \/ \E i \in Refreshes, f \in Funds, d \in RefreshDates, part \in {0, 1} :
                 RefreshAdds(i, f, d, part)
<1>1. ASSUME NEW j \in Jobs, Call(j) PROVE contended' = contended
  BY <1>1 DEF Call, ApiRefuse, ApiCall, ScriptCall, Begin, surroundings
<1>2. ASSUME NEW j \in Jobs, Step(j), ~FetchHistory(j) PROVE contended' = contended
  BY <1>2
     DEF Step, LoadRun, InsertRun, InsertRunConflicts, FindCheckpoint, CommitFund,
         CommitConflicts, Except, NoteError, NoteConflicts, Finish, FinishTooLong, surroundings
<1>3. ASSUME NEW j \in Jobs, Failure(j) PROVE contended' = contended
  BY <1>3 DEF Failure, FetchFails, CommitFails, NoteFails, DatabaseFails
<1>4. ASSUME NEW dead, Crash(dead) PROVE contended' = contended
  BY <1>4 DEF Crash
<1>5. ASSUME NEW i \in Refreshes, RefreshCommits(i) \/ RefreshRollsBack(i)
      PROVE  contended' = contended
  BY <1>5 DEF RefreshCommits, RefreshRollsBack
<1>6. CASE UNCHANGED vars
  BY <1>6 DEF vars
<1> QED
  BY <1>1, <1>2, <1>3, <1>4, <1>5, <1>6 DEF Next, Refresh, Finished

LEMMA FetchHands ==
    ASSUME TypeOK, HandsInv, NEW j \in Jobs, FetchHistory(j)
    PROVE  HandsInv'
<1>1. PICK h \in Histories :
        /\ job' = [job EXCEPT ![j] = [@ EXCEPT !.new = NewRows(j, h), !.last = LastDate(j, h)]]
        /\ Add(j, NewRows(j, h))
  BY DEF FetchHistory
<1>2. pc[j] = "fetch" /\ rows' = rows /\ refresh' = refresh /\ job \in [Jobs -> Job]
  BY DEF FetchHistory, database, TypeOK
<1>3. /\ job'[j] = [job[j] EXCEPT !.new = NewRows(j, h), !.last = LastDate(j, h)]
      /\ \A k \in Jobs \ {j} : job'[k] = job[k]
  BY <1>1, <1>2
<1>4. job'[j].new = NewRows(j, h)
  BY <1>2, <1>3, FetchedJob, ZenonT(30)
<1>5. OthersHold(j) /\ Added(j)' = NewRows(j, h) /\ j \in Sessions
  BY <1>2, <1>3, <1>4, Held DEF OthersHold
<1>6. \A r \in NewRows(j, h), s \in rows : Day(r) # Day(s)
  BY <1>2, NewRowsType DEF Day
<1> QED
  BY <1>1, <1>2, <1>5, <1>6, Takes

LEMMA RefreshHands ==
    ASSUME TypeOK, HandsInv, NEW i \in Refreshes, Refresh(i)
    PROVE  HandsInv'
<1>1. refresh \in [Refreshes -> SUBSET Row] /\ job' = job
  BY RefreshEffect DEF TypeOK, SurroundingsOK
<1>2. OthersHold(i) /\ i \in Sessions
  BY <1>1, RefreshEffect, Held DEF OthersHold
<1>3. ASSUME NEW f \in Funds, NEW d \in RefreshDates, NEW part \in {0, 1},
             RefreshAdds(i, f, d, part)
      PROVE  HandsInv'
  <2> DEFINE row == [fund |-> f, date |-> d, run |-> i, from |-> <<i, part>>]
             N == refresh[i] \cup {row}
  <2>1. refresh' = [refresh EXCEPT ![i] = N] /\ Add(i, N) /\ rows' = rows
    BY <1>3 DEF RefreshAdds, database
  <2>2. Day(row) = <<f, d>> /\ \A s \in rows : Day(s) # <<f, d>>
    BY <1>3 DEF RefreshAdds, Day
  <2> HIDE DEF row
  <2>3. \A r \in N, s \in rows : Day(r) = Day(s) => Day(r) \in contended
    BY <2>2, Held DEF HandsInv, InHandAndWritten
  <2>4. Added(i)' = N
    BY <1>1, <2>1, Held
  <2> HIDE DEF N
  <2> QED
    BY <1>2, <2>1, <2>3, <2>4, Takes
<1>4. CASE RefreshCommits(i)
  <2>1. Added(i)' = {} /\ rows' = rows \cup Added(i) /\ contended' = contended
    BY <1>1, <1>4, Held DEF RefreshCommits
  <2> QED
    BY <1>2, <2>1, Writes
<1>5. CASE RefreshRollsBack(i)
  <2>1. Added(i)' = {} /\ rows' = rows /\ contended' = contended
    BY <1>1, <1>5, Held DEF RefreshRollsBack, database
  <2>2. \A y \in Sessions : Added(y)' \subseteq Added(y)
    BY <1>2, <2>1 DEF OthersHold
  <2> QED
    BY <2>1, <2>2, Drops
<1> QED
  BY <1>3, <1>4, <1>5 DEF Refresh

\* No other step of a call adds to what its session holds.
LEMMA ActiveHands ==
    ASSUME TypeInv, HandsInv, NEW j \in Jobs, Active(j), Others(j), ~FetchHistory(j),
           contended' = contended
    PROVE  HandsInv'
<1>0. TypeOK
  BY DEF TypeInv
<1>1. OthersHold(j) /\ j \in Sessions
  BY Held DEF Others, OthersHold
<1>2. CASE CommitFund(j)
  <2>1. rows' = rows \cup Added(j) /\ Added(j)' = {}
    BY <1>2, CommitEffect, Held
  <2> QED
    BY <1>1, <2>1, Writes
<1>3. CASE ~CommitFund(j)
  <2>1. rows' = rows
    BY <1>0, <1>3, BystanderFrame, InsertEffect, NoteRuns, FinishEffect DEF Active, Bystander
  <2>2. job'[j].new = job[j].new \/ job'[j].new = {}
    BY <1>0, <1>3, EmptyTypes, LoadEffect, InsertEffect, FindEffect, ExceptEffect, NoteEffect,
       FinishEffect DEF Active
  <2>3. \A y \in Sessions : Added(y)' \subseteq Added(y)
    BY <1>1, <2>2, Held DEF OthersHold
  <2> QED
    BY <2>1, <2>3, Drops
<1> QED
  BY <1>2, <1>3

LEMMA HandsStep == TypeInv /\ HandsInv /\ [Next]_vars => HandsInv'
<1> SUFFICES ASSUME TypeInv, HandsInv, [Next]_vars PROVE HandsInv'
  OBVIOUS
<1>0. TypeOK
  BY DEF TypeInv
<1>1. ASSUME NEW j \in Jobs, FetchHistory(j) PROVE HandsInv'
  BY <1>0, <1>1, FetchHands
<1>2. ASSUME NEW i \in Refreshes, Refresh(i) PROVE HandsInv'
  BY <1>0, <1>2, RefreshHands
<1>3. CASE contended' = contended
  <2>1. ASSUME NEW j \in Jobs, Active(j), Others(j) PROVE HandsInv'
    BY <1>1, <1>3, <2>1, ActiveHands
  <2>2. CASE Quiet
    <3>1. rows' = rows /\ refresh' = refresh
      BY <2>2 DEF Quiet, database
    <3>2. \A k \in Jobs : job'[k].new \subseteq job[k].new
      BY <2>2, EmptyTypes DEF Quiet, QuietAt
    <3>3. \A y \in Sessions : Added(y)' \subseteq Added(y)
      BY <3>1, <3>2, Held
    <3> QED
      BY <1>3, <3>1, <3>3, Drops
  <2> QED
    BY <1>0, <1>2, <2>1, <2>2, StepCases
<1> QED
  BY <1>1, <1>2, <1>3, ContendedStep DEF Refresh

LEMMA HandsInit == Init => HandsInv
BY EmptyTypes, Held DEF Init, HandsInv, InHands, InHandAndWritten, DuplicatesHaveCause

LEMMA HandsInvariant == Spec => []HandsInv
BY HandsInit, HandsStep, TypeInvariant, PTL DEF Spec

\* However many calls and refreshes there are, and however often a run is resumed, a
\* day of a fund gets a second row only if two sessions had it in hand at once, or
\* one had it twice: the looking up of days (l.63-69) is all that keeps them apart.
THEOREM DaysOnce == Spec => []DuplicatesHaveCause
<1>1. HandsInv => DuplicatesHaveCause
  BY DEF HandsInv
<1> QED
  BY <1>1, HandsInvariant, PTL

(***************************************************************************)
(* What a run writes itself: whatever else writes meanwhile, other runs    *)
(* and refreshes included, it has no day of a fund twice.                  *)
(***************************************************************************)
\* A history has a day once.  fetch_nav_history keeps an instant once
\* (fipiran.py l.319-324); that a day has one instant is upstream's doing.
DistinctDays == \A h \in Histories : \A m, n \in DOMAIN h : h[m] = h[n] => m = n

OwnDates ==
    \A r, s \in rows :
        r.run \in RunIds /\ r.run = s.run /\ r.fund = s.fund /\ r.date = s.date => r = s

OwnApartAt(j) ==
    pc[j] = "commit" =>
        \A r \in job[j].new :
            /\ r.fund = Fund(j) /\ r.run = job[j].id
            /\ \A s \in rows \cup job[j].new :
                  s.run = r.run /\ s.fund = r.fund /\ s.date = r.date => s = r
OwnInv == OwnDates /\ \A j \in Jobs : OwnApartAt(j)

LEMMA OwnFrame ==
    ASSUME NEW k \in Jobs, OwnApartAt(k), pc'[k] = pc[k], job'[k] = job[k], rows' = rows
    PROVE  OwnApartAt(k)'
<1>1. Fund(k)' = Fund(k)
  BY DEF Fund
<1> QED
  BY <1>1 DEF OwnApartAt

\* The rows of a history with distinct days.
LEMMA RowsApart ==
    ASSUME DistinctDays, NEW j \in Jobs, NEW h \in Histories,
           NEW r \in NewRows(j, h), NEW s \in NewRows(j, h), s.date = r.date
    PROVE  s = r
<1> DEFINE row(n) == [fund |-> Fund(j), date |-> h[n], run |-> job[j].id, from |-> <<j, n>>]
<1>1. PICK m \in Wanted(j, h) : r = row(m)
  BY DEF NewRows
<1>2. PICK n \in Wanted(j, h) : s = row(n)
  BY DEF NewRows
<1>3. h[m] = h[n] /\ m \in DOMAIN h /\ n \in DOMAIN h
  BY <1>1, <1>2 DEF Wanted
<1>4. m = n
  BY <1>3 DEF DistinctDays
<1> QED
  BY <1>1, <1>2, <1>4

\* The days of a fetched history that are not in the database.
LEMMA FetchOwnApart ==
    ASSUME TypeOK, DistinctDays, NEW j \in Jobs, FetchHistory(j)
    PROVE  OwnApartAt(j)'
<1>1. PICK h \in Histories : job'[j].new = NewRows(j, h)
  BY FetchEffect
<1>2. pc[j] = "fetch" /\ rows' = rows /\ Fund(j)' = Fund(j) /\ job'[j].id = job[j].id
  BY FetchEffect DEF database, Fund
<1>3. ASSUME NEW r \in NewRows(j, h)
      PROVE  /\ r.fund = Fund(j) /\ r.run = job[j].id
             /\ \A s \in rows : s.fund = r.fund => s.date # r.date
  BY <1>2, NewRowsType
<1> QED
  BY <1>1, <1>2, <1>3, RowsApart DEF OwnApartAt

LEMMA OwnStep ==
    ASSUME DistinctDays, TypeInv, OneWorker, OwnInv, [Next]_vars
    PROVE  OwnInv'
<1>0. TypeOK /\ OwnDates /\ \A j \in Jobs : OwnApartAt(j)
  BY DEF TypeInv, OwnInv
<1>1. CASE Quiet
  <2>1. rows' = rows
    BY <1>1 DEF Quiet, database
  <2>2. ASSUME NEW k \in Jobs
        PROVE  OwnApartAt(k)'
    <3>1. CASE pc'[k] = pc[k] /\ job'[k] = job[k]
      BY <1>0, <2>1, <3>1, OwnFrame
    <3>2. CASE pc'[k] # "commit"
      BY <3>2 DEF OwnApartAt
    <3> QED
      BY <1>1, <3>1, <3>2 DEF Quiet, QuietAt
  <2> QED
    BY <1>0, <2>1, <2>2 DEF OwnInv, OwnDates
<1>2. ASSUME NEW j \in Jobs, Active(j), Others(j), rows' = rows
      PROVE  OwnInv'
  <2>1. ASSUME NEW k \in Jobs \ {j}
        PROVE  OwnApartAt(k)'
    BY <1>0, <1>2, OwnFrame DEF Others
  <2>2. CASE pc'[j] = "commit"
    <3>1. FetchHistory(j)
      BY <1>0, <1>2, <2>2, LoadEffect, InsertEffect, FindEffect, CommitEffect, ExceptEffect,
         NoteEffect, FinishEffect DEF Active
    <3> QED
      BY <1>0, <1>2, <2>1, <3>1, FetchOwnApart DEF OwnInv, OwnDates
  <2>3. CASE pc'[j] # "commit"
    BY <1>0, <1>2, <2>1, <2>3 DEF OwnInv, OwnDates, OwnApartAt
  <2> QED
    BY <2>2, <2>3
<1>3. ASSUME NEW j \in Jobs, CommitFund(j), Others(j)
      PROVE  OwnInv'
  <2>1. pc[j] = "commit" /\ pc'[j] = "find" /\ rows' = rows \cup job[j].new
    BY <1>3, CommitEffect
  <2>2. \A r \in job[j].new :
          /\ r.fund = Fund(j) /\ r.run = job[j].id
          /\ \A s \in rows \cup job[j].new :
                s.run = r.run /\ s.fund = r.fund /\ s.date = r.date => s = r
    BY <1>0, <2>1 DEF OwnApartAt
  <2>3. OwnDates'
    BY <1>0, <2>1, <2>2 DEF OwnDates
  <2>4. ASSUME NEW k \in Jobs
        PROVE  OwnApartAt(k)'
    <3>1. CASE k = j \/ pc[k] # "commit"
      BY <1>3, <2>1, <3>1 DEF OwnApartAt, Others
    <3>2. CASE k # j /\ pc[k] = "commit"
      <4>1. job[k].id # job[j].id
        BY <2>1, <3>2 DEF OneWorker
      <4>2. pc'[k] = pc[k] /\ job'[k] = job[k] /\ Fund(k)' = Fund(k)
        BY <1>3, <3>2 DEF Others, Fund
      <4>3. \A r \in job[k].new :
              /\ r.fund = Fund(k) /\ r.run = job[k].id
              /\ \A s \in rows \cup job[k].new :
                    s.run = r.run /\ s.fund = r.fund /\ s.date = r.date => s = r
        BY <1>0, <3>2 DEF OwnApartAt
      <4> QED
        BY <2>1, <2>2, <4>1, <4>2, <4>3 DEF OwnApartAt
    <3> QED
      BY <3>1, <3>2
  <2> QED
    BY <2>3, <2>4 DEF OwnInv
<1>4. ASSUME NEW i \in Refreshes, Refresh(i)
      PROVE  OwnInv'
  <2>1. /\ pc' = pc /\ job' = job /\ rows \subseteq rows'
        /\ \A r \in rows' \ rows : r.run \notin RunIds
    BY <1>0, <1>4, RefreshEffect
  <2>2. OwnDates'
    BY <1>0, <2>1 DEF OwnDates
  <2>3. ASSUME NEW k \in Jobs
        PROVE  OwnApartAt(k)'
    <3>1. CASE pc[k] # "commit"
      BY <2>1, <3>1 DEF OwnApartAt
    <3>2. CASE pc[k] = "commit"
      <4>1. job[k].id \in RunIds
        BY <1>0, <3>2 DEF TypeOK
      <4>2. OwnApartAt(k) /\ Fund(k)' = Fund(k)
        BY <1>0, <2>1 DEF Fund
      <4> QED
        BY <2>1, <4>1, <4>2 DEF OwnApartAt
    <3> QED
      BY <3>1, <3>2
  <2> QED
    BY <2>2, <2>3 DEF OwnInv
<1>5. ASSUME NEW j \in Jobs, Active(j)
      PROVE  CommitFund(j) \/ rows' = rows
  BY <1>0, <1>5, BystanderFrame, InsertEffect, NoteRuns, FinishEffect DEF Active, Bystander
<1> QED
  BY <1>0, <1>1, <1>2, <1>3, <1>4, <1>5, StepCases

\* A run that one call at a time works on has a day of a fund once, whatever else
\* writes meanwhile: a day that is there twice was written by two runs, or by a run
\* and a refresh.
THEOREM OwnDaysOnce == ASSUME DistinctDays
                       PROVE  Spec /\ []OneWorker => []OwnDates
<1>1. Init => OwnInv
  BY DEF Init, OwnInv, OwnDates, OwnApartAt
<1>2. TypeInv /\ OneWorker /\ OwnInv /\ [Next]_vars => OwnInv'
  BY OwnStep
<1>3. OwnInv => OwnDates
  BY DEF OwnInv
<1> QED
  BY <1>1, <1>2, <1>3, TypeInvariant, PTL DEF Spec

(***************************************************************************)
(* To readers, the history grows as NavHistory says.                       *)
(***************************************************************************)
Navs == {NavRow(r) : r \in rows}
Batches == RunIds \X Funds
OfRefreshes == {s \in rows : s.run \in Refreshes}

\* No day has been in hand twice.
Uncontended == contended = {}

\* A refresh commits all it has added at once.
Unwritten == \A i \in Refreshes : refresh[i] # {} => \A r \in rows : r.run # i

LEMMA BatchKinds ==
    /\ \A r : r.run \in Refreshes => Batch(r) = <<r.run>> /\ Batch(r)[1] = r.run
    /\ \A r : r.run \in RunIds => Batch(r) = <<r.run, r.fund>>
    /\ \A b \in Batches : b[1] \in RunIds
    /\ RunIds \cap Refreshes = {}
BY BackfillAssumption DEF Batch, Batches

LEMMA PublishedAre ==
    Published = {b \in Batches : checks[b[1]][b[2]].status = "completed"}
                   \cup {Batch(r) : r \in OfRefreshes}
BY DEF Published, Batches, OfRefreshes

LEMMA BatchesKept ==
    ASSUME rows' = rows,
           \A id \in RunIds, f \in Funds :
               checks'[id][f].status = "completed" <=> checks[id][f].status = "completed"
    PROVE  UNCHANGED <<Navs, Published>>
<1>1. ASSUME NEW b \in RunIds \X Funds
      PROVE  checks'[b[1]][b[2]].status = "completed" <=> checks[b[1]][b[2]].status = "completed"
  OBVIOUS
<1> QED
  BY <1>1 DEF Navs, Published, NavRow, Batch

\* What is added and shares no day with a row that is there is published.
LEMMA PublishRows ==
    ASSUME NEW new, rows' = rows \cup new, \A r \in new, s \in rows : Day(r) # Day(s),
           NEW n, n \notin Published, Published' = Published \cup {n},
           \A r \in new : Batch(r) = n
    PROVE  Abstract!Next
<1>1. Navs \subseteq Navs'
  BY DEF Navs, NavRow, Batch
<1>2. ASSUME NEW p \in Navs' \ Navs
      PROVE  p.run = n /\ \A q \in Navs : ~Abstract!Same(p, q)
  <2>1. PICK r \in rows' : p = NavRow(r)
    BY <1>2 DEF Navs, NavRow, Batch
  <2>2. r \in new
    BY <1>2, <2>1 DEF Navs
  <2>3. p.run = n /\ p.fund = r.fund /\ p.date = r.date
    BY <2>1, <2>2 DEF NavRow
  <2>4. ASSUME NEW q \in Navs, Abstract!Same(p, q)
        PROVE  FALSE
    <3>1. PICK s \in rows : q = NavRow(s)
      BY DEF Navs
    <3>2. q.fund = s.fund /\ q.date = s.date
      BY <3>1 DEF NavRow
    <3>3. Day(r) = Day(s)
      BY <2>3, <2>4, <3>2 DEF Day, Abstract!Same
    <3> QED
      BY <2>2, <3>3
  <2> QED
    BY <2>3, <2>4
<1>3. Abstract!Publish(n)
  BY <1>1, <1>2 DEF Abstract!Publish, Navs
<1> QED
  BY <1>3 DEF Abstract!Next

LEMMA CommitPublishes ==
    ASSUME TypeInv, Working, HandsInv, Uncontended, NEW j \in Jobs, CommitFund(j)
    PROVE  Abstract!Next
<1> DEFINE n == <<job[j].id, Fund(j)>>
<1>0. TypeOK /\ pc[j] = "commit" /\ rows' = rows \cup job[j].new
  BY CommitEffect DEF TypeInv
<1>1. job[j].id \in RunIds /\ Fund(j) \in Funds
  BY CommitChecks
<1>2. /\ \A r \in job[j].new : r.run \in RunIds /\ r.run = job[j].id /\ r.fund = Fund(j)
      /\ checks[job[j].id][Fund(j)].status # "completed"
  BY <1>0, <1>1 DEF Working, WorkingAt, OwnRows, Pending, AtFund, Check
<1>3. /\ checks'[job[j].id][Fund(j)].status = "completed"
      /\ \A id \in RunIds, f \in Funds :
            ~(id = job[j].id /\ f = Fund(j)) => checks'[id][f] = checks[id][f]
  BY <1>0, <1>1, CommitChecks
<1>4. n \in Batches /\ n[1] \in RunIds /\ n[1] = job[j].id /\ n[2] = Fund(j)
  BY <1>1 DEF Batches
<1>5. n \notin Published
  <2>1. \A r \in OfRefreshes : Batch(r)[1] \in Refreshes
    BY BatchKinds DEF OfRefreshes
  <2>2. \A r \in OfRefreshes : Batch(r) # n
    BY <1>4, <2>1, BatchKinds
  <2> HIDE DEF n
  <2> QED
    BY <1>2, <1>4, <2>2, PublishedAre
<1>6. OfRefreshes' = OfRefreshes
  BY <1>0, <1>2, BatchKinds DEF OfRefreshes
<1>7. ASSUME NEW b \in Batches
      PROVE  checks'[b[1]][b[2]].status = "completed"
             <=> checks[b[1]][b[2]].status = "completed" \/ b = n
  BY <1>1, <1>3 DEF Batches
<1>8. Published' = Published \cup {n}
  <2>1. Published' = {b \in Batches : checks'[b[1]][b[2]].status = "completed"}
                        \cup {Batch(r) : r \in OfRefreshes}
    BY <1>6, PublishedAre DEF Published, Batches, OfRefreshes, Batch
  <2> HIDE DEF n
  <2> QED
    BY <1>4, <1>7, <2>1, PublishedAre
<1>9. \A r \in job[j].new : Batch(r) = n
  BY <1>2, BatchKinds
<1>10. \A r \in job[j].new, s \in rows : Day(r) # Day(s)
  BY Held DEF HandsInv, InHandAndWritten, Uncontended
<1> DEFINE new == job[j].new
<1>11. rows' = rows \cup new /\ (\A r \in new : Batch(r) = n)
       /\ \A r \in new, s \in rows : Day(r) # Day(s)
  BY <1>0, <1>9, <1>10
<1> HIDE DEF n, new
<1> QED
  BY <1>5, <1>8, <1>11, PublishRows

LEMMA RefreshPublishes ==
    ASSUME TypeOK, HandsInv, Unwritten, Uncontended, NEW i \in Refreshes, RefreshCommits(i)
    PROVE  Abstract!Next
<1> DEFINE n == <<i>>
           new == refresh[i]
<1>1. /\ rows' = rows \cup new /\ checks' = checks /\ new # {}
      /\ \A r \in new : r.run = i /\ Batch(r) = n
      /\ n[1] = i /\ i \notin RunIds
  BY BatchKinds DEF RefreshCommits, TypeOK, SurroundingsOK
<1>2. n \notin Published
  <2>1. \A b \in Batches : b # n
    BY <1>1, BatchKinds
  <2>2. \A r \in OfRefreshes : Batch(r)[1] # i
    BY <1>1, BatchKinds DEF OfRefreshes, Unwritten
  <2>3. \A r \in OfRefreshes : Batch(r) # n
    BY <1>1, <2>2
  <2> HIDE DEF n
  <2> QED
    BY <2>1, <2>3, PublishedAre
<1> HIDE DEF n
<1>3. OfRefreshes' = OfRefreshes \cup new
  BY <1>1 DEF OfRefreshes
<1>4. Published' = Published \cup {n}
  <2> HIDE DEF new
  <2>1. Published' = {b \in Batches : checks[b[1]][b[2]].status = "completed"}
                        \cup {Batch(r) : r \in OfRefreshes'}
    BY <1>1 DEF Published, Batches, OfRefreshes, Batch
  <2>2. {Batch(r) : r \in OfRefreshes'} = {Batch(r) : r \in OfRefreshes} \cup {n}
    BY <1>1, <1>3
  <2> QED
    BY <2>1, <2>2, PublishedAre
<1>5. \A r \in new, s \in rows : Day(r) # Day(s)
  BY Held DEF HandsInv, InHandAndWritten, Uncontended
<1> HIDE DEF new
<1> QED
  BY <1>1, <1>2, <1>4, <1>5, PublishRows

LEMMA UnwrittenStep == TypeInv /\ Working /\ Unwritten /\ [Next]_vars => Unwritten'
<1> SUFFICES ASSUME TypeInv, Working, Unwritten, [Next]_vars PROVE Unwritten'
  OBVIOUS
<1>0. TypeOK
  BY DEF TypeInv
<1>1. ASSUME refresh' = refresh, rows' = rows PROVE Unwritten'
  BY <1>1 DEF Unwritten
<1>2. ASSUME NEW j \in Jobs, Active(j), Others(j) PROVE Unwritten'
  <2>1. refresh' = refresh
    BY <1>2 DEF Others
  <2>2. CASE CommitFund(j)
    <3>1. pc[j] = "commit" /\ rows' = rows \cup job[j].new /\ job[j].id \in RunIds
      BY <2>2, CommitEffect, CommitChecks
    <3>2. \A r \in job[j].new : r.run \in RunIds
      BY <3>1 DEF Working, WorkingAt, OwnRows
    <3> QED
      BY <2>1, <3>1, <3>2, BatchKinds DEF Unwritten
  <2>3. CASE ~CommitFund(j)
    BY <1>0, <1>1, <1>2, <2>1, <2>3, BystanderFrame, InsertEffect, NoteRuns, FinishEffect
       DEF Active, Bystander
  <2> QED
    BY <2>2, <2>3
<1>3. ASSUME NEW i \in Refreshes, Refresh(i) PROVE Unwritten'
  <2>1. refresh \in [Refreshes -> SUBSET Row]
    BY <1>0 DEF TypeOK, SurroundingsOK
  <2>2. ASSUME NEW f \in Funds, NEW d \in RefreshDates, NEW part \in {0, 1},
               RefreshAdds(i, f, d, part)
        PROVE  Unwritten'
    <3>1. rows' = rows /\ \A r \in rows : r.run # i
      BY <2>2 DEF RefreshAdds, database
    <3>2. \A k \in Refreshes \ {i} : refresh'[k] = refresh[k]
      BY <1>0, <1>3, RefreshEffect
    <3> QED
      BY <3>1, <3>2 DEF Unwritten
  <2>3. CASE RefreshCommits(i) \/ RefreshRollsBack(i)
    <3>1. refresh'[i] = {}
      BY <2>1, <2>3 DEF RefreshCommits, RefreshRollsBack
    <3>2. \A k \in Refreshes \ {i} : refresh'[k] = refresh[k] /\ \A r \in rows' \ rows : r.run # k
      BY <1>0, <1>3, RefreshEffect
    <3> QED
      BY <3>1, <3>2 DEF Unwritten
  <2> QED
    BY <1>3, <2>2, <2>3 DEF Refresh
<1>4. CASE Quiet
  BY <1>1, <1>4 DEF Quiet, database
<1> QED
  BY <1>0, <1>2, <1>3, <1>4, StepCases

LEMMA PublishStep ==
    ASSUME TypeInv, Working, HandsInv, Unwritten, Uncontended, [Next]_vars
    PROVE  [Abstract!Next]_<<Navs, Published>>
<1>0. TypeOK
  BY DEF TypeInv
<1>1. ASSUME rows' = rows, checks' = checks
      PROVE  UNCHANGED <<Navs, Published>>
  BY <1>1, BatchesKept
<1>2. ASSUME NEW j \in Jobs, InsertRun(j) \/ Finish(j)
      PROVE  UNCHANGED <<Navs, Published>>
  BY <1>0, <1>1, <1>2, InsertEffect, FinishEffect
<1>3. ASSUME NEW j \in Jobs, NoteError(j)
      PROVE  UNCHANGED <<Navs, Published>>
  <2>1. pc[j] = "note" /\ rows' = rows /\ job[j].id \in RunIds /\ Fund(j) \in Funds
    BY <1>0, <1>3, NoteEffect, NoteChecks
  <2>2. checks[job[j].id][Fund(j)].status # "completed"
    BY <2>1 DEF Working, WorkingAt, Pending, AtFund, Check
  <2>3. /\ checks'[job[j].id][Fund(j)].status = "error"
        /\ \A id \in RunIds, f \in Funds :
              ~(id = job[j].id /\ f = Fund(j)) => checks'[id][f] = checks[id][f]
    BY <1>0, <1>3, <2>1, NoteChecks
  <2>4. \A id \in RunIds, f \in Funds :
            checks'[id][f].status = "completed" <=> checks[id][f].status = "completed"
    BY <2>1, <2>2, <2>3
  <2> QED
    BY <2>1, <2>4, BatchesKept
<1>4. ASSUME NEW j \in Jobs, CommitFund(j)
      PROVE  Abstract!Next
  BY <1>4, CommitPublishes
<1>5. ASSUME NEW i \in Refreshes, Refresh(i)
      PROVE  Abstract!Next \/ UNCHANGED <<Navs, Published>>
  <2>1. CASE RefreshCommits(i)
    BY <1>0, <2>1, RefreshPublishes
  <2>2. CASE ~RefreshCommits(i)
    <3>1. rows' = rows /\ checks' = checks
      BY <1>5, <2>2 DEF Refresh, RefreshAdds, RefreshRollsBack, database
    <3> QED
      BY <1>1, <3>1
  <2> QED
    BY <2>1, <2>2
<1> QED
  BY <1>0, <1>1, <1>2, <1>3, <1>4, <1>5, WriteCases

\* As long as no two calls share a run and no day has been in hand twice, every
\* behaviour of backfills and refreshes, whenever a refresh looks days up and commits,
\* is one of NavHistory: a fund of a run, and a refresh, is published at once, at most
\* once, and fills gaps only.
THEOREM Implementation == Spec /\ []OneWorker /\ []Uncontended => Publishes
<1>1. Init => Abstract!Init
  BY DEF Init, Abstract!Init, Published, NoCheckpoint
<1>2. Init => Unwritten
  BY DEF Init, Unwritten
<1>3. TypeInv /\ Working /\ HandsInv /\ Unwritten /\ Uncontended /\ [Next]_vars
        => [Abstract!Next]_<<Navs, Published>>
  BY PublishStep
<1>4. Navs = {NavRow(r) : r \in rows}
  BY DEF Navs
<1> QED
  BY <1>1, <1>2, <1>3, <1>4, HandsInvariant, UnwrittenStep, TypeInvariant, WorkInit, WorkStep, PTL
     DEF Spec, Publishes, Abstract!Spec, Navs

\* A script that is the only call, with no refresh beside it, has no day in hand twice
\* if no history has.
LEMMA NoContention ==
    ASSUME DistinctDays, \A j, k \in Jobs : j = k, Refreshes = {}
    PROVE  TypeOK /\ Uncontended /\ [Next]_vars => Uncontended'
<1> SUFFICES ASSUME TypeOK, Uncontended, NEW j \in Jobs, FetchHistory(j)
             PROVE  Uncontended'
  BY ContendedStep DEF Uncontended
<1>1. PICK h \in Histories : Add(j, NewRows(j, h))
  BY DEF FetchHistory
<1>2. pc[j] = "fetch" /\ Sessions \ {j} = {}
  BY DEF FetchHistory, Sessions
<1>3. \A r \in NewRows(j, h), s \in NewRows(j, h) : Day(r) = Day(s) => s.date = r.date
  BY DEF Day
<1>4. \A r \in NewRows(j, h) : ~Meets(j, NewRows(j, h), r)
  BY <1>2, <1>3, RowsApart DEF Meets
<1> QED
  BY <1>1, <1>4 DEF Add, Uncontended

\* So it implements NavHistory, resumed as often as one likes.
THEOREM AloneImplements ==
    ASSUME DistinctDays, \A j, k \in Jobs : j = k, Refreshes = {}
    PROVE  Spec => Publishes
<1>1. OneWorker
  BY DEF OneWorker
<1>2. TypeInv => TypeOK
  BY DEF TypeInv
<1>3. Init => Uncontended
  BY DEF Init, Uncontended
<1>4. TypeInv /\ Uncontended /\ [Next]_vars => Uncontended'
  BY <1>2, NoContention
<1> QED
  BY <1>1, <1>3, <1>4, TypeInvariant, Implementation, PTL DEF Spec
=============================================================================
