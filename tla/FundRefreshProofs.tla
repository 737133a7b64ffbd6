-------------------------- MODULE FundRefreshProofs --------------------------
(***************************************************************************)
(* Theorems about FundRefresh for any number of jobs, processes, funds,    *)
(* dates, catalogues and histories, any failures and any bounds.           *)
(***************************************************************************)
EXTENDS FundRefresh, SequenceTheorems, Induction

(***************************************************************************)
(* Types, with the indexes into the catalogue they rest on.                *)
(***************************************************************************)
InCatalogue == {"source", "insert", "find", "upsert"}
Indexed ==
    \A j \in Jobs :
        /\ pc[j] \in InCatalogue => next[j] \in DOMAIN records[j]
        /\ pc[j] \notin {"find", "upsert", "plan", "history", "commit", "rollback"}
              => next[j] = 1
        /\ plan[j].todo \subseteq DOMAIN records[j]
        /\ pc[j] \in {"plan", "history"} => HasHistory /\ HistoryLimit # 0
        /\ pc[j] = "history" => plan[j].budget >= 1
        /\ pc[j] \notin {"history", "commit", "rollback"} => plan[j].todo = {}
TypeInv == TypeOK /\ Indexed

\* What Commit, Rollback and Crash leave of a session has the right type.
LEMMA EmptyTypes == NoTxn \in Txn /\ NoPlan \in Plan /\ <<>> \in Seq(CatalogueRecord)
BY DEF NoTxn, NoPlan, Txn, Plan, NoMetrics

\* The rows a catalogue record adds are rows.
LEMMA CatalogueRowsType ==
    ASSUME NEW j \in Jobs, NEW rec \in CatalogueRecord, NEW seen, run[j] \in Nat
    PROVE  CatalogueRows(j, rec, seen) \in SUBSET Row
BY DEF CatalogueRows, CatalogueRecord, Row

\* The rows a fetched history adds are rows.
LEMMA HistoryRowsType ==
    ASSUME NEW j \in Jobs, NEW f \in Funds, NEW h \in Histories, run[j] \in Nat
    PROVE  HistoryRows(j, f, h) \in SUBSET Row
<1>1. h \in Seq(Dates)
  BY DataAssumption
<1>2. \A i \in DOMAIN h : h[i] \in Dates /\ i \in Nat
  BY <1>1
<1> QED
  BY <1>2 DEF HistoryRows, Row

\* The session after a record, and after a fund's history, has the right type.
LEMMA AfterRecordType ==
    ASSUME NEW j \in Jobs, NEW rec \in CatalogueRecord,
           txn[j] \in Txn, run[j] \in Nat
    PROVE  AfterRecord(j, rec) \in Txn
<1>1. CatalogueRows(j, rec, rows \cup Mine(j)) \in SUBSET Row
  BY CatalogueRowsType
<1>2. Mine(j) \in SUBSET Row /\ txn[j].funds \cup {rec.fund} \in SUBSET Funds
  BY DEF Mine, Txn, CatalogueRecord
<1>3. txn[j].count + 1 \in Nat
  BY DEF Txn
<1> QED
  BY <1>1, <1>2, <1>3 DEF AfterRecord, Txn

LEMMA AfterFundType ==
    ASSUME NEW j \in Jobs, NEW f \in Funds, NEW new \in SUBSET Row,
           txn[j] \in Txn, rows \in SUBSET Row
    PROVE  AfterFund(j, f, new) \in Txn
<1>1. Observations(j, f, new) \in SUBSET Row /\ Mine(j) \cup new \in SUBSET Row
  BY DEF Observations, NavOf, Mine, Txn
<1>2. RefreshedMetrics(j, f, new) \in SUBSET Row
  BY <1>1 DEF Txn, RefreshedMetrics
<1>3. [txn[j].metrics EXCEPT ![f] = RefreshedMetrics(j, f, new)] \in [Funds -> SUBSET Row]
  BY <1>2 DEF Txn
<1> QED
  BY <1>1, <1>3 DEF AfterFund, Txn

\* A record of the history phase names a fund.
LEMMA FundOfTodo ==
    ASSUME TypeInv, NEW j \in Jobs, NEW i \in plan[j].todo
    PROVE  records[j][i].fund \in Funds
<1>1. i \in DOMAIN records[j] /\ records[j] \in Seq(CatalogueRecord)
  BY DEF TypeInv, TypeOK, Indexed
<1>2. records[j][i] \in CatalogueRecord
  BY <1>1
<1> QED
  BY <1>2 DEF CatalogueRecord

\* FinishFund keeps the types and the indexes.
LEMMA FinishFundType ==
    ASSUME TypeInv, NEW j \in Jobs, NEW i \in plan[j].todo, NEW new \in SUBSET Row,
           pc[j] = "history", FinishFund(j, i, new),
           UNCHANGED <<lock, holder, database, run, records, next, answer, failures, lost>>
    PROVE  TypeInv'
<1> DEFINE f == records[j][i].fund
           rest == [todo |-> plan[j].todo \ {i}, budget |-> plan[j].budget - 1,
                    counted |-> plan[j].counted]
<1>1. /\ txn[j] \in Txn /\ plan[j] \in Plan /\ records[j] \in Seq(CatalogueRecord)
      /\ rows \in SUBSET Row /\ txn \in [Jobs -> Txn] /\ plan \in [Jobs -> Plan]
      /\ plan[j].budget >= 1 /\ plan[j].todo \subseteq DOMAIN records[j]
  BY DEF TypeInv, TypeOK, Indexed
<1>2. f \in Funds
  BY FundOfTodo
<1>3. /\ txn' = [txn EXCEPT ![j] = AfterFund(j, f, new)]
      /\ plan' = [plan EXCEPT ![j] = rest]
      /\ pc' = [pc EXCEPT ![j] = IF plan[j].todo = {i} \/ plan[j].budget = 1
                                 THEN "commit" ELSE "history"]
      /\ attempt' = [attempt EXCEPT ![j] = 0]
  <2>1. plan' = [plan EXCEPT ![j] = rest]
    BY Zenon DEF FinishFund
  <2> QED
    BY <2>1 DEF FinishFund, Goto
<1>4. txn' \in [Jobs -> Txn]
  BY <1>1, <1>2, <1>3, AfterFundType
<1>5. plan' \in [Jobs -> Plan]
  <2>1. rest \in Plan
    BY <1>1 DEF Plan
  <2> QED
    BY <1>1, <1>3, <2>1
<1>6. TypeOK'
  <2>1. pc' \in [Jobs -> Located] /\ attempt' \in [Jobs -> Nat]
    BY <1>3 DEF TypeInv, TypeOK, Located, InTry
  <2> QED
    BY <1>4, <1>5, <2>1 DEF TypeInv, TypeOK, database
<1>7. Indexed'
  <2>1. plan'[j].todo \subseteq DOMAIN records[j]
    BY <1>1, <1>3 DEF Plan
  <2>2. pc'[j] = "history" => plan'[j].budget >= 1
    BY <1>1, <1>3 DEF Plan, TypeInv, TypeOK
  <2> QED
    BY <1>3, <2>1, <2>2 DEF TypeInv, TypeOK, Indexed, InCatalogue
<1> QED
  BY <1>6, <1>7 DEF TypeInv

\* Updating a run that is not there changes nothing.
LEMMA RunsOutside ==
    ASSUME runs \in Seq(IngestionRun), NEW n, n \notin DOMAIN runs, NEW row
    PROVE  [runs EXCEPT ![n] = row] = runs
<1>1. runs = [i \in DOMAIN runs |-> runs[i]]
  OBVIOUS
<1> QED
  BY <1>1

\* Updating one run row keeps the table's type.
LEMMA RunsType ==
    ASSUME runs \in Seq(IngestionRun), NEW n, NEW row \in IngestionRun
    PROVE  [runs EXCEPT ![n] = row] \in Seq(IngestionRun)
<1>1. CASE n \in DOMAIN runs
  BY <1>1, ExceptSeq
<1>2. CASE n \notin DOMAIN runs
  BY <1>2, RunsOutside
<1> QED
  BY <1>1, <1>2

\* The end of a transaction leaves an empty session.
LEMMA EndTransactionType ==
    ASSUME TypeInv, NEW j \in Jobs, EndTransaction(j)
    PROVE  /\ txn' \in [Jobs -> Txn] /\ plan' \in [Jobs -> Plan]
           /\ records' \in [Jobs -> Seq(CatalogueRecord)]
           /\ next' \in [Jobs -> Nat] /\ attempt' \in [Jobs -> Nat]
           /\ holder' \in Jobs \cup {NoJob}
BY EmptyTypes DEF EndTransaction, TypeInv, TypeOK

LEMMA EndTransactionIndexed ==
    ASSUME TypeInv, NEW j \in Jobs, EndTransaction(j),
           NEW l \in {"report", "release"}, Goto(j, l)
    PROVE  Indexed'
<1>1. /\ plan'[j] = NoPlan /\ next'[j] = 1 /\ pc'[j] = l
      /\ \A k \in Jobs \ {j} : /\ plan'[k] = plan[k] /\ next'[k] = next[k]
                               /\ records'[k] = records[k] /\ pc'[k] = pc[k]
  BY DEF EndTransaction, Goto, TypeInv, TypeOK
<1> QED
  BY <1>1 DEF TypeInv, Indexed, InCatalogue, NoPlan

LEMMA TypeInit == Init => TypeInv
BY EmptyTypes DEF Init, TypeInv, TypeOK, Indexed, Located, InCatalogue, NoMetrics, NoPlan

LEMMA TypeStep == TypeInv /\ [Next]_vars => TypeInv'
<1> SUFFICES ASSUME TypeInv, [Next]_vars PROVE TypeInv'
  OBVIOUS
<1> USE DEF InCatalogue, InTry, Located
<1>1. ASSUME NEW j \in Jobs, Acquire(j) PROVE TypeInv'
  BY <1>1 DEF Acquire, Goto, TypeInv, TypeOK, Indexed, database
<1>2. ASSUME NEW j \in Jobs, RefuseOverlap(j) PROVE TypeInv'
  BY <1>2 DEF RefuseOverlap, Goto, TypeInv, TypeOK, Indexed, database
<1>3. ASSUME NEW j \in Jobs, StartRun(j) PROVE TypeInv'
  <2>1. [status |-> "running", written |-> 0] \in IngestionRun
    BY DEF IngestionRun
  <2>2. runs' \in Seq(IngestionRun) /\ run' \in [Jobs -> Nat]
    BY <1>3, <2>1 DEF StartRun, TypeInv, TypeOK
  <2> QED
    BY <1>3, <2>2 DEF StartRun, Goto, TypeInv, TypeOK, Indexed
<1>4. ASSUME NEW j \in Jobs, StartRunFails(j) PROVE TypeInv'
  <2>1. TypeOK'
    BY <1>4, SMTT(20) DEF StartRunFails, Goto, Fail, TypeInv, TypeOK, database
  <2>2. Indexed'
    BY <1>4 DEF StartRunFails, Goto, TypeInv, TypeOK, Indexed
  <2> QED
    BY <2>1, <2>2 DEF TypeInv
<1>5. ASSUME NEW j \in Jobs, FetchOk(j) PROVE TypeInv'
  <2>1. PICK c \in Catalogues :
          /\ records' = [records EXCEPT ![j] = c]
          /\ Goto(j, IF c = <<>> THEN AfterCatalogue ELSE "source")
    BY <1>5 DEF FetchOk
  <2>2. c \in Seq(CatalogueRecord) /\ (c # <<>> => 1 \in DOMAIN c)
    BY DataAssumption
  <2>3. TypeOK'
    BY <1>5, <2>1, <2>2 DEF FetchOk, Goto, AfterCatalogue, TypeInv, TypeOK, database
  <2>4. plan[j].todo = {}
    BY <1>5 DEF FetchOk, TypeInv, Indexed
  <2>5. Indexed'
    BY <1>5, <2>1, <2>2, <2>4
       DEF FetchOk, Goto, AfterCatalogue, TypeInv, TypeOK, Indexed
  <2> QED
    BY <2>3, <2>5 DEF TypeInv
<1>6. ASSUME NEW j \in Jobs, FetchRetry(j) PROVE TypeInv'
  <2>1. TypeOK'
    BY <1>6, SMTT(20) DEF FetchRetry, TypeInv, TypeOK, database
  <2>2. Indexed'
    BY <1>6 DEF FetchRetry, TypeInv, Indexed
  <2> QED
    BY <2>1, <2>2 DEF TypeInv
<1>7. ASSUME NEW j \in Jobs, FetchGivesUp(j) PROVE TypeInv'
  BY <1>7 DEF FetchGivesUp, Goto, TypeInv, TypeOK, Indexed, database
<1>8. ASSUME NEW j \in Jobs, LoadSource(j) PROVE TypeInv'
  <2>1. txn' = [txn EXCEPT ![j] = [@ EXCEPT !.count = source.count]]
    BY <1>8 DEF LoadSource
  <2>2. [txn[j] EXCEPT !.count = source.count] \in Txn
    <3>1. txn[j] \in Txn /\ source.count \in Nat
      BY DEF TypeInv, TypeOK
    <3> QED
      BY <3>1 DEF Txn
  <2>3. txn' \in [Jobs -> Txn]
    BY <2>1, <2>2 DEF TypeInv, TypeOK
  <2> QED
    BY <1>8, <2>3 DEF LoadSource, Goto, TypeInv, TypeOK, Indexed, database
<1>9. ASSUME NEW j \in Jobs, InsertSource(j) PROVE TypeInv'
  BY <1>9 DEF InsertSource, Goto, TypeInv, TypeOK, Indexed, database
<1>10. ASSUME NEW j \in Jobs, InsertConflicts(j) PROVE TypeInv'
  BY <1>10 DEF InsertConflicts, Goto, TypeInv, TypeOK, Indexed, database
<1>11. ASSUME NEW j \in Jobs, FindFund(j) PROVE TypeInv'
  <2> DEFINE there == {records[j][next[j]].fund} \cap (known \cup txn[j].funds)
  <2>1. txn' = [txn EXCEPT ![j] = [@ EXCEPT !.found = there]]
    BY <1>11 DEF FindFund
  <2>2. [txn[j] EXCEPT !.found = there] \in Txn
    <3>1. txn[j] \in Txn /\ there \in SUBSET Funds
      BY DEF TypeInv, TypeOK, Txn
    <3> HIDE DEF there
    <3> QED
      BY <3>1 DEF Txn
  <2>3. txn' \in [Jobs -> Txn]
    BY <2>1, <2>2 DEF TypeInv, TypeOK
  <2> QED
    BY <1>11, <2>3 DEF FindFund, Goto, TypeInv, TypeOK, Indexed, database
<1>12. ASSUME NEW j \in Jobs, UpsertRecord(j) PROVE TypeInv'
  <2>1. records[j] \in Seq(CatalogueRecord) /\ next[j] \in DOMAIN records[j]
    BY <1>12 DEF UpsertRecord, MayWriteSource, TypeInv, TypeOK, Indexed
  <2>2. records[j][next[j]] \in CatalogueRecord
    BY <2>1
  <2>3. txn' \in [Jobs -> Txn]
    BY <1>12, <2>2, AfterRecordType DEF UpsertRecord, TypeInv, TypeOK
  <2>4. TypeOK'
    BY <1>12, <2>3
       DEF UpsertRecord, MayWriteSource, Goto, AfterCatalogue, TypeInv, TypeOK, database
  <2>5. Indexed'
    BY <1>12, <2>1
       DEF UpsertRecord, MayWriteSource, Goto, AfterCatalogue, TypeInv, TypeOK, Indexed
  <2> QED
    BY <2>4, <2>5 DEF TypeInv
<1>13. ASSUME NEW j \in Jobs, UpsertConflicts(j) PROVE TypeInv'
  BY <1>13 DEF UpsertConflicts, MayWriteSource, Goto, TypeInv, TypeOK, Indexed, database
<1>14. ASSUME NEW j \in Jobs, PlanHistory(j) PROVE TypeInv'
  <2> DEFINE active == {i \in DOMAIN records[j] : records[j][i].active}
             limit == IF HistoryLimit = NoLimit THEN Len(records[j]) ELSE HistoryLimit
             chosen == [todo |-> active, budget |-> limit, counted |-> Visible(j)]
  <2>1. /\ pc[j] = "plan" /\ records[j] \in Seq(CatalogueRecord) /\ txn[j] \in Txn
        /\ HistoryLimit # 0 /\ rows \in SUBSET Row
    BY <1>14 DEF PlanHistory, TypeInv, TypeOK, Indexed
  <2>2. active \in SUBSET Nat /\ limit \in Nat /\ (active # {} => limit >= 1)
    BY <2>1, DataAssumption
  <2>3. Visible(j) \in SUBSET Row
    BY <2>1 DEF Visible, Txn
  <2>4. chosen \in Plan
    BY <2>2, <2>3 DEF Plan
  <2>5. /\ plan' = [plan EXCEPT ![j] = chosen]
        /\ pc' = [pc EXCEPT ![j] = IF active = {} THEN "commit" ELSE "history"]
    BY <1>14 DEF PlanHistory, Goto
  <2>6. TypeOK'
    BY <1>14, <2>4, <2>5, SMTT(20) DEF PlanHistory, TypeInv, TypeOK, database
  <2>7. Indexed'
    BY <1>14, <2>2, <2>5, SMTT(20) DEF PlanHistory, TypeInv, TypeOK, Indexed
  <2> QED
    BY <2>6, <2>7 DEF TypeInv
<1>15. ASSUME NEW j \in Jobs, HistoryOk(j) PROVE TypeInv'
  <2>1. PICK i \in plan[j].todo, h \in Histories :
          IsNext(j, i) /\ FinishFund(j, i, HistoryRows(j, records[j][i].fund, h))
    BY <1>15 DEF HistoryOk
  <2>2. records[j][i].fund \in Funds
    BY <2>1, FundOfTodo
  <2>3. HistoryRows(j, records[j][i].fund, h) \in SUBSET Row
    BY <2>2, HistoryRowsType DEF TypeInv, TypeOK
  <2> QED
    BY <1>15, <2>1, <2>3, FinishFundType DEF HistoryOk, IsNext
<1>16. ASSUME NEW j \in Jobs, HistoryRetry(j) PROVE TypeInv'
  <2>1. TypeOK'
    BY <1>16, SMTT(20) DEF HistoryRetry, TypeInv, TypeOK, database
  <2>2. Indexed'
    BY <1>16 DEF HistoryRetry, TypeInv, Indexed
  <2> QED
    BY <2>1, <2>2 DEF TypeInv
<1>17. ASSUME NEW j \in Jobs, HistoryGivesUp(j) PROVE TypeInv'
  <2>1. PICK i \in plan[j].todo : IsNext(j, i) /\ FinishFund(j, i, {})
    BY <1>17 DEF HistoryGivesUp
  <2> QED
    BY <1>17, <2>1, FinishFundType DEF HistoryGivesUp, IsNext
<1>18. ASSUME NEW j \in Jobs, Commit(j) PROVE TypeInv'
  <2>1. EndTransaction(j)
    BY <1>18 DEF Commit
  <2>2. txn[j] \in Txn /\ records[j] \in Seq(CatalogueRecord)
    BY DEF TypeInv, TypeOK
  <2>3. [status |-> "success", written |-> Len(records[j])] \in IngestionRun
    BY <2>2 DEF IngestionRun
  <2>4. runs' \in Seq(IngestionRun)
    BY <1>18, <2>3, RunsType DEF Commit, TypeInv, TypeOK
  <2>5. /\ rows' \subseteq Row /\ known' \subseteq Funds
        /\ metrics' \in [Funds -> SUBSET Row]
    BY <1>18, <2>2 DEF Commit, CommittedRows, Mine, Txn, TypeInv, TypeOK
  <2>6. source' \in [exists: BOOLEAN, count: Nat]
    BY <1>18, <2>2 DEF Commit, CommittedSource, Txn, TypeInv, TypeOK
  <2>7. TypeOK'
    BY <1>18, <2>1, <2>4, <2>5, <2>6, EndTransactionType
       DEF Commit, Goto, TypeInv, TypeOK
  <2>8. Indexed'
    BY <1>18, <2>1, EndTransactionIndexed DEF Commit
  <2> QED
    BY <2>7, <2>8 DEF TypeInv
<1>19. ASSUME NEW j \in Jobs, StepRaises(j) PROVE TypeInv'
  BY <1>19, SMTT(20) DEF StepRaises, Goto, Fail, TypeInv, TypeOK, Indexed, database
<1>20. ASSUME NEW j \in Jobs, Rollback(j) PROVE TypeInv'
  <2>1. EndTransaction(j)
    BY <1>20 DEF Rollback
  <2>2. Indexed'
    BY <1>20, <2>1, EndTransactionIndexed DEF Rollback
  <2> QED
    BY <1>20, <2>1, <2>2, EndTransactionType
       DEF Rollback, Goto, TypeInv, TypeOK, database
<1>21. ASSUME NEW j \in Jobs, ReportError(j) PROVE TypeInv'
  <2>1. runs' = [runs EXCEPT ![run[j]] = [@ EXCEPT !.status = "error"]]
    BY <1>21 DEF ReportError
  <2>2. runs' \in Seq(IngestionRun)
    <3>1. CASE run[j] \in DOMAIN runs
      <4>1. runs[run[j]] \in IngestionRun
        BY <3>1 DEF TypeInv, TypeOK
      <4>2. [runs[run[j]] EXCEPT !.status = "error"] \in IngestionRun
        BY <4>1 DEF IngestionRun
      <4> QED
        BY <2>1, <4>2, RunsType DEF TypeInv, TypeOK
    <3>2. CASE run[j] \notin DOMAIN runs
      <4>1. \A row : [runs EXCEPT ![run[j]] = row] = runs
        BY <3>2, RunsOutside DEF TypeInv, TypeOK
      <4> QED
        BY <2>1, <4>1 DEF TypeInv, TypeOK
    <3> QED
      BY <3>1, <3>2
  <2> QED
    BY <1>21, <2>2 DEF ReportError, Goto, TypeInv, TypeOK, Indexed
<1>22. ASSUME NEW j \in Jobs, ReportFails(j) PROVE TypeInv'
  <2>1. lost' \subseteq Nat
    BY <1>22 DEF ReportFails, TypeInv, TypeOK
  <2>2. /\ pc' = [pc EXCEPT ![j] = "release"] /\ answer' = [answer EXCEPT ![j] = "error"]
        /\ failures' = failures + 1 /\ pc[j] = "report"
        /\ UNCHANGED <<lock, holder, runs, rows, known, metrics, source, run, attempt, records,
                       next, txn, plan>>
    BY <1>22 DEF ReportFails, Goto, Fail, database
  <2> QED
    BY <2>1, <2>2 DEF TypeInv, TypeOK, Indexed
<1>23. ASSUME NEW j \in Jobs, Release(j) PROVE TypeInv'
  BY <1>23 DEF Release, Goto, TypeInv, TypeOK, Indexed, database
<1>24. ASSUME NEW p \in Processes, Crash(p) PROVE TypeInv'
  <2>1. TypeOK'
    <3>1. lost' \subseteq Nat
      BY <1>24 DEF Crash, TypeInv, TypeOK
    <3>2. failures' \in Nat /\ holder' \in Jobs \cup {NoJob} /\ lock' \in [Processes -> BOOLEAN]
      BY <1>24 DEF Crash, Fail, TypeInv, TypeOK
    <3>3. /\ pc' \in [Jobs -> Located] /\ run' \in [Jobs -> Nat] /\ attempt' \in [Jobs -> Nat]
          /\ next' \in [Jobs -> Nat]
          /\ answer' \in [Jobs -> {"none", "refused", "success", "error"}]
      BY <1>24 DEF Crash, TypeInv, TypeOK, Located
    <3>4. /\ records' \in [Jobs -> Seq(CatalogueRecord)]
          /\ txn' \in [Jobs -> Txn] /\ plan' \in [Jobs -> Plan]
      BY <1>24, EmptyTypes DEF Crash, TypeInv, TypeOK
    <3>5. UNCHANGED <<runs, rows, known, metrics, source>>
      BY <1>24 DEF Crash, database
    <3> QED
      BY <3>1, <3>2, <3>3, <3>4, <3>5 DEF TypeInv, TypeOK
  <2>2. ASSUME NEW k \in Jobs
        PROVE  \/ /\ pc'[k] = "idle" /\ plan'[k] = NoPlan /\ next'[k] = 1
               \/ /\ pc'[k] = pc[k] /\ plan'[k] = plan[k] /\ next'[k] = next[k]
                  /\ records'[k] = records[k]
    BY <1>24 DEF Crash
  <2>3. Indexed'
    BY <2>2 DEF TypeInv, Indexed, NoPlan
  <2> QED
    BY <2>1, <2>3 DEF TypeInv
<1>25. CASE UNCHANGED vars
  BY <1>25 DEF vars, database, TypeInv, TypeOK, Indexed
<1> QED
  BY <1>1, <1>2, <1>3, <1>4, <1>5, <1>6, <1>7, <1>8, <1>9, <1>10, <1>11, <1>12, <1>13, <1>14, <1>15, <1>16, <1>17, <1>18, <1>19, <1>20, <1>21, <1>22, <1>23, <1>24, <1>25
     DEF Next, Call, Step, Fault, Catalogue, History, End, Finished

\* Every variable keeps its type in every behaviour.
THEOREM TypeCorrect == Spec => []TypeOK
<1>1. TypeInv => TypeOK
  BY DEF TypeInv
<1> QED
  BY <1>1, TypeInit, TypeStep, PTL DEF Spec

LEMMA TypeInvariant == Spec => []TypeInv
BY TypeInit, TypeStep, PTL DEF Spec

(***************************************************************************)
(* Frames: what the steps inside the try block leave alone.                *)
(***************************************************************************)
Inside(j) == Catalogue(j) \/ History(j) \/ StepRaises(j)

LEMMA InsideFrame ==
    ASSUME TypeInv, NEW j \in Jobs, Inside(j)
    PROVE  /\ pc[j] \in InTry /\ pc'[j] \in InTry \cup {"rollback"}
           /\ \A k \in Jobs \ {j} : pc'[k] = pc[k]
           /\ UNCHANGED <<lock, database, run, answer, lost>>
<1> USE DEF TypeInv, TypeOK, InTry, Goto
<1>1. CASE Catalogue(j)
  BY <1>1 DEF Catalogue, FetchOk, FetchRetry, FetchGivesUp, LoadSource, InsertSource,
              InsertConflicts, FindFund, UpsertRecord, UpsertConflicts,
              MayWriteSource, AfterCatalogue
<1>2. CASE History(j)
  BY <1>2 DEF History, PlanHistory, HistoryOk, HistoryRetry, HistoryGivesUp, IsNext,
              FinishFund
<1>3. CASE StepRaises(j)
  BY <1>3 DEF StepRaises
<1> QED
  BY <1>1, <1>2, <1>3 DEF Inside

(***************************************************************************)
(* The lock of a process.                                                  *)
(***************************************************************************)
LEMMA ExclusiveStep == TypeInv /\ Exclusive /\ [Next]_vars => Exclusive'
<1> SUFFICES ASSUME TypeInv, Exclusive, [Next]_vars PROVE Exclusive'
  OBVIOUS
<1> USE JobsAssumption DEF TypeInv, TypeOK, Exclusive, Goto
<1>1. ASSUME NEW j \in Jobs, Call(j) PROVE Exclusive'
  <2>1. CASE Acquire(j)
    <3>1. \A k \in Jobs : ProcessOf[k] = ProcessOf[j] => pc[k] = "idle"
      BY <2>1 DEF Acquire, Available
    <3> QED
      BY <2>1, <3>1 DEF Acquire
  <2>2. CASE RefuseOverlap(j)
    BY <2>2 DEF RefuseOverlap
  <2> QED
    BY <1>1, <2>1, <2>2 DEF Call
<1>2. ASSUME NEW j \in Jobs, StartRun(j) \/ StartRunFails(j) PROVE Exclusive'
  BY <1>2, SMTT(20) DEF StartRun, StartRunFails
<1>3. ASSUME NEW j \in Jobs, Inside(j) PROVE Exclusive'
  <2>1. /\ pc[j] # "idle" /\ \A k \in Jobs \ {j} : pc'[k] = pc[k]
        /\ UNCHANGED lock
    BY <1>3, InsideFrame DEF InTry
  <2> QED
    BY <2>1, SMTT(20)
<1>4. ASSUME NEW j \in Jobs, Commit(j) \/ Rollback(j) PROVE Exclusive'
  BY <1>4, SMTT(20) DEF Commit, Rollback
<1>5. ASSUME NEW j \in Jobs, ReportError(j) \/ ReportFails(j) PROVE Exclusive'
  BY <1>5, SMTT(20) DEF ReportError, ReportFails
<1>6. ASSUME NEW j \in Jobs, Release(j) PROVE Exclusive'
  BY <1>6 DEF Release
<1>7. ASSUME NEW p \in Processes, Crash(p) PROVE Exclusive'
  BY <1>7 DEF Crash
<1>8. CASE UNCHANGED vars
  BY <1>8 DEF vars
<1> QED
  BY <1>1, <1>2, <1>3, <1>4, <1>5, <1>6, <1>7, <1>8
     DEF Next, Step, Fault, End, Inside, Finished

\* Whatever fails, the threads of a process never refresh at the same time.
THEOREM LockExcludes == Spec => []Exclusive
<1>1. Init => Exclusive
  BY DEF Init, Exclusive
<1> QED
  BY <1>1, TypeInvariant, ExclusiveStep, PTL DEF Spec

\* A step that keeps its job inside and the lock as it is.
LEMMA StaysInside ==
    ASSUME LockReturned, UNCHANGED lock, NEW j \in Jobs, pc'[j] # "idle",
           \A k \in Jobs \ {j} : pc'[k] = pc[k]
    PROVE  LockReturned'
<1> SUFFICES ASSUME NEW p \in Processes, lock[p], "start" \notin Failures
             PROVE  \E k \in Jobs : ProcessOf[k] = p /\ pc'[k] # "idle"
  BY DEF LockReturned
<1>1. PICK k \in Jobs : ProcessOf[k] = p /\ pc[k] # "idle"
  BY DEF LockReturned
<1>2. pc'[k] # "idle"
  BY <1>1
<1> QED
  BY <1>1, <1>2

LEMMA LockReturnedStep == TypeInv /\ LockReturned /\ [Next]_vars => LockReturned'
<1> SUFFICES ASSUME TypeInv, LockReturned, [Next]_vars PROVE LockReturned'
  OBVIOUS
<1> USE JobsAssumption DEF TypeInv, TypeOK, LockReturned, Goto
<1>1. ASSUME NEW j \in Jobs, Call(j) PROVE LockReturned'
  BY <1>1 DEF Call, Acquire, RefuseOverlap
<1>2. ASSUME NEW j \in Jobs, StartRun(j) \/ StartRunFails(j) PROVE LockReturned'
  <2>1. CASE StartRun(j)
    BY <2>1 DEF StartRun
  <2>2. CASE StartRunFails(j)
    BY <2>2 DEF StartRunFails, Fail
  <2> QED
    BY <1>2, <2>1, <2>2
<1>3. ASSUME NEW j \in Jobs, Inside(j) PROVE LockReturned'
  BY <1>3, InsideFrame, StaysInside DEF InTry
<1>4. ASSUME NEW j \in Jobs, Commit(j) \/ Rollback(j) PROVE LockReturned'
  <2>1. pc'[j] # "idle" /\ (\A k \in Jobs \ {j} : pc'[k] = pc[k]) /\ UNCHANGED lock
    BY <1>4 DEF Commit, Rollback
  <2> QED
    BY <2>1, StaysInside
<1>5. ASSUME NEW j \in Jobs, ReportError(j) \/ ReportFails(j) PROVE LockReturned'
  BY <1>5 DEF ReportError, ReportFails
<1>6. ASSUME NEW j \in Jobs, Release(j) PROVE LockReturned'
  BY <1>6 DEF Release
<1>7. ASSUME NEW p \in Processes, Crash(p) PROVE LockReturned'
  BY <1>7 DEF Crash
<1>8. CASE UNCHANGED vars
  BY <1>8 DEF vars
<1> QED
  BY <1>1, <1>2, <1>3, <1>4, <1>5, <1>6, <1>7, <1>8
     DEF Next, Step, Fault, End, Inside, Finished

\* No way out of a refresh keeps the lock, apart from the failing insert of its
\* run row.
THEOREM LockGivenBack == Spec => []LockReturned
<1>1. Init => LockReturned
  BY DEF Init, LockReturned
<1> QED
  BY <1>1, TypeInvariant, LockReturnedStep, PTL DEF Spec

(***************************************************************************)
(* Runs, sessions and the source row.                                      *)
(***************************************************************************)
Working == InTry \cup {"rollback", "report"}

\* A job at work has a run of its own, and the run is open.
Owned ==
    /\ \A j \in Jobs : pc[j] \in Working =>
          run[j] \in DOMAIN runs /\ runs[run[j]].status = "running"
    /\ \A j, k \in Jobs :
          pc[j] \in Working /\ pc[k] \in Working /\ run[j] = run[k] => j = k

\* Where the holder of the source row may be, and who must hold it.
Held ==
    \A j \in Jobs :
        /\ holder = j => pc[j] \in {"find", "upsert", "plan", "history", "commit", "rollback"}
        /\ pc[j] \in {"plan", "history", "commit"} /\ records[j] # <<>> => holder = j

\* A session adds rows of its run only.
OwnRows == \A j \in Jobs : \A r \in Mine(j) : r.run = run[j]

SafeInv == TypeInv /\ Owned /\ Held /\ OneWriter /\ OwnRows /\ AllOrNothing

LEMMA OwnedStep == TypeInv /\ Owned /\ [Next]_vars => Owned'
<1> SUFFICES ASSUME TypeInv, Owned, [Next]_vars PROVE Owned'
  OBVIOUS
<1> USE DEF TypeInv, TypeOK, Owned, Goto
<1>1. ASSUME NEW j \in Jobs, Call(j) PROVE Owned'
  <2>1. /\ pc'[j] \notin Working /\ \A k \in Jobs \ {j} : pc'[k] = pc[k]
        /\ UNCHANGED <<runs, run>>
    BY <1>1 DEF Call, Acquire, RefuseOverlap, Working, InTry, database
  <2> QED
    BY <2>1
<1>2. ASSUME NEW j \in Jobs, StartRun(j) PROVE Owned'
  <2>1. /\ Len(runs') = Len(runs) + 1 /\ Len(runs) \in Nat
        /\ runs'[Len(runs) + 1].status = "running"
        /\ \A n \in DOMAIN runs : n \in DOMAIN runs' /\ runs'[n] = runs[n]
        /\ Len(runs) + 1 \notin DOMAIN runs /\ Len(runs) + 1 \in DOMAIN runs'
    BY <1>2 DEF StartRun
  <2>2. run'[j] = Len(runs) + 1 /\ \A k \in Jobs \ {j} : run'[k] = run[k] /\ pc'[k] = pc[k]
    BY <1>2 DEF StartRun
  <2>3. ASSUME NEW k \in Jobs, pc'[k] \in Working
        PROVE  run'[k] \in DOMAIN runs' /\ runs'[run'[k]].status = "running"
    <3>1. CASE k = j
      BY <2>1, <2>2, <3>1
    <3>2. CASE k # j
      BY <2>1, <2>2, <2>3, <3>2, SMTT(20)
    <3> QED
      BY <3>1, <3>2
  <2>4. ASSUME NEW k \in Jobs, NEW l \in Jobs,
               pc'[k] \in Working, pc'[l] \in Working, run'[k] = run'[l]
        PROVE  k = l
    <3>1. ASSUME NEW m \in Jobs \ {j}, pc'[m] \in Working
          PROVE  run'[m] = run[m] /\ run'[m] # run'[j]
      <4>1. run'[m] = run[m] /\ run[m] \in DOMAIN runs
        BY <2>2, <3>1
      <4> QED
        BY <2>1, <2>2, <4>1
    <3>2. CASE k = j \/ l = j
      BY <2>4, <3>1, <3>2
    <3>3. CASE k # j /\ l # j
      BY <2>2, <2>4, <3>1, <3>3
    <3> QED
      BY <3>2, <3>3
  <2> QED
    BY <2>3, <2>4
<1>3. ASSUME NEW j \in Jobs, StartRunFails(j) PROVE Owned'
  BY <1>3 DEF StartRunFails, Working, InTry, database
<1>4. ASSUME NEW j \in Jobs, Inside(j) PROVE Owned'
  <2>1. /\ pc[j] \in Working /\ \A k \in Jobs \ {j} : pc'[k] = pc[k]
        /\ UNCHANGED <<runs, run>>
    BY <1>4, InsideFrame DEF Working, database
  <2> QED
    BY <2>1
<1>5. ASSUME NEW j \in Jobs, Commit(j) \/ ReportError(j) PROVE Owned'
  <2>1. /\ pc[j] \in Working /\ pc'[j] \notin Working /\ UNCHANGED run
        /\ \A k \in Jobs \ {j} : pc'[k] = pc[k]
        /\ DOMAIN runs' = DOMAIN runs
        /\ \A n \in DOMAIN runs \ {run[j]} : runs'[n] = runs[n]
    BY <1>5 DEF Commit, ReportError, Working, InTry
  <2> QED
    BY <2>1
<1>6. ASSUME NEW j \in Jobs, Rollback(j) \/ ReportFails(j) PROVE Owned'
  <2>1. /\ pc[j] \in Working /\ UNCHANGED <<runs, run>>
        /\ \A k \in Jobs \ {j} : pc'[k] = pc[k]
    BY <1>6 DEF Rollback, ReportFails, Working, InTry, database
  <2> QED
    BY <2>1
<1>7. ASSUME NEW j \in Jobs, Release(j) PROVE Owned'
  BY <1>7 DEF Release, Working, InTry, database
<1>8. ASSUME NEW p \in Processes, Crash(p) PROVE Owned'
  BY <1>8 DEF Crash, Working, InTry, database
<1>9. CASE UNCHANGED vars
  BY <1>9 DEF vars, database
<1> QED
  BY <1>1, <1>2, <1>3, <1>4, <1>5, <1>6, <1>7, <1>8, <1>9
     DEF Next, Step, Fault, End, Inside, Finished

(***************************************************************************)
(* What a step adds to a session.                                          *)
(***************************************************************************)
\* The production session adds no second row when it fetches no histories; one
\* with autoflush never does.
Careful == Autoflush \/ ~HasHistory
Adds(j, new) ==
    /\ Mine(j)' = Mine(j) \cup new
    /\ \A r \in new : r.run = run[j] /\ \A s \in rows : ~SameObservation(r, s)
    /\ Careful => \A r \in new, s \in rows \cup Mine(j) \cup new :
                     SameObservation(r, s) => r = s

LEMMA CatalogueRowsAdded ==
    ASSUME NEW j \in Jobs, NEW rec \in CatalogueRecord, NEW seen,
           NEW r \in CatalogueRows(j, rec, seen)
    PROVE  /\ r.run = run[j]
           /\ \A s \in seen : ~SameObservation(r, s)
           /\ \A s \in seen \cup CatalogueRows(j, rec, seen) :
                 SameObservation(r, s) => r = s
BY DEF CatalogueRows, Recorded, SameObservation

\* Also without autoflush a query sees what is committed.
LEMMA HistoryRowsNew ==
    ASSUME NEW j \in Jobs, NEW f \in Funds, NEW h \in Histories,
           NEW r \in HistoryRows(j, f, h)
    PROVE  r.run = run[j] /\ \A s \in rows : ~SameObservation(r, s)
BY DEF HistoryRows, Visible, Recorded, SameObservation

LEMMA HistoryRowsAdded ==
    ASSUME NEW j \in Jobs, NEW f \in Funds, NEW h \in Histories, Autoflush,
           NEW r \in HistoryRows(j, f, h)
    PROVE  \A s \in rows \cup Mine(j) \cup HistoryRows(j, f, h) :
              SameObservation(r, s) => r = s
<1>1. Visible(j) = rows \cup Mine(j)
  BY DEF Visible, Mine
<1>2. h \in Seq(Dates)
  BY DataAssumption
<1>3. PICK i \in DOMAIN h :
        /\ r = [table |-> "nav", fund |-> f, date |-> h[i], run |-> run[j], from |-> i]
        /\ ~Recorded(rows \cup Mine(j), "nav", f, h[i])
        /\ \A m \in 1..(i - 1) : h[m] # h[i]
  BY <1>1 DEF HistoryRows
<1>4. ASSUME NEW s \in rows \cup Mine(j), SameObservation(r, s) PROVE FALSE
  BY <1>3, <1>4 DEF SameObservation, Recorded
<1>5. ASSUME NEW s \in HistoryRows(j, f, h), SameObservation(r, s) PROVE r = s
  <2>1. PICK k \in DOMAIN h :
          /\ s = [table |-> "nav", fund |-> f, date |-> h[k], run |-> run[j], from |-> k]
          /\ \A m \in 1..(k - 1) : h[m] # h[k]
    BY <1>1 DEF HistoryRows
  <2>2. h[i] = h[k]
    BY <1>3, <1>5, <2>1 DEF SameObservation
  <2>3. i \in Nat /\ k \in Nat /\ i >= 1 /\ k >= 1
    BY <1>2
  <2>4. i = k
    BY <1>3, <2>1, <2>2, <2>3
  <2> QED
    BY <1>3, <2>1, <2>4
<1> QED
  BY <1>4, <1>5

LEMMA InsideAdds ==
    ASSUME TypeInv, NEW j \in Jobs, Inside(j)
    PROVE  \E new : Adds(j, new)
<1> USE DEF TypeInv, TypeOK
<1>1. CASE UpsertRecord(j)
  <2> DEFINE rec == records[j][next[j]]
             new == CatalogueRows(j, rec, rows \cup Mine(j))
  <2>1. records[j] \in Seq(CatalogueRecord) /\ next[j] \in DOMAIN records[j]
    BY <1>1 DEF UpsertRecord, MayWriteSource, Indexed, InCatalogue
  <2>2. rec \in CatalogueRecord
    BY <2>1
  <2>3. txn'[j].flushed = Mine(j) /\ txn'[j].pending = new
    BY <1>1 DEF UpsertRecord, AfterRecord, Txn
  <2>4. Mine(j)' = Mine(j) \cup new
    BY <2>3 DEF Mine
  <2>5. \A r \in new : /\ r.run = run[j]
                       /\ \A s \in rows : ~SameObservation(r, s)
                       /\ \A s \in rows \cup Mine(j) \cup new : SameObservation(r, s) => r = s
    BY <2>2, CatalogueRowsAdded
  <2>6. Adds(j, new)
    BY <2>4, <2>5 DEF Adds
  <2> QED
    BY <2>6
<1>2. CASE HistoryOk(j)
  <2>1. PICK i \in plan[j].todo, h \in Histories :
          IsNext(j, i) /\ FinishFund(j, i, HistoryRows(j, records[j][i].fund, h))
    BY <1>2 DEF HistoryOk
  <2> DEFINE f == records[j][i].fund
             new == HistoryRows(j, f, h)
  <2>2. f \in Funds
    BY FundOfTodo
  <2>3. txn'[j].flushed = Mine(j) \cup new /\ txn'[j].pending = {}
    BY <2>1 DEF FinishFund, AfterFund, Txn
  <2>4. Careful => Autoflush
    BY <2>1 DEF IsNext, Indexed, Careful
  <2>5. \A r \in new : r.run = run[j] /\ \A s \in rows : ~SameObservation(r, s)
    BY <2>2, HistoryRowsNew
  <2>6. Mine(j)' = Mine(j) \cup new
    BY <2>3 DEF Mine
  <2>7. Careful => \A r \in new, s \in rows \cup Mine(j) \cup new :
                      SameObservation(r, s) => r = s
    BY <2>2, <2>4, HistoryRowsAdded
  <2> HIDE DEF f, new
  <2>8. Adds(j, new)
    BY <2>5, <2>6, <2>7 DEF Adds
  <2> QED
    BY <2>8
<1>3. CASE HistoryGivesUp(j)
  <2>1. PICK i \in plan[j].todo : FinishFund(j, i, {})
    BY <1>3 DEF HistoryGivesUp
  <2>2. txn'[j].flushed = Mine(j) /\ txn'[j].pending = {}
    BY <2>1 DEF FinishFund, AfterFund, Txn
  <2>3. Adds(j, {})
    BY <2>2 DEF Adds, Mine
  <2> QED
    BY <2>3
<1>4. CASE LoadSource(j) \/ FindFund(j)
  <2>1. txn'[j].flushed = txn[j].flushed /\ txn'[j].pending = txn[j].pending
    <3>1. txn[j] \in Txn /\ txn \in [Jobs -> Txn]
      OBVIOUS
    <3> QED
      BY <1>4, <3>1 DEF LoadSource, FindFund, Txn
  <2>2. Adds(j, {})
    BY <2>1 DEF Adds, Mine
  <2> QED
    BY <2>2
<1>5. CASE UNCHANGED txn
  <2>1. Adds(j, {})
    BY <1>5 DEF Adds, Mine
  <2> QED
    BY <2>1
<1> QED
  BY <1>1, <1>2, <1>3, <1>4, <1>5
     DEF Inside, Catalogue, History, FetchOk, FetchRetry, FetchGivesUp, InsertSource,
         InsertConflicts, UpsertConflicts, PlanHistory, HistoryRetry, StepRaises

(***************************************************************************)
(* The source row serialises the writers.                                  *)
(***************************************************************************)
\* Inside the try block a job may take the source row when it is free, and
\* nobody else's session is touched.
LEMMA InsideHolder ==
    ASSUME TypeInv, NEW j \in Jobs, Inside(j)
    PROVE  /\ holder' = holder \/ (holder = NoJob /\ holder' = j)
           /\ holder' # holder => pc'[j] \in {"find", "upsert", "plan", "commit", "rollback"}
           /\ \A k \in Jobs \ {j} : txn'[k] = txn[k] /\ records'[k] = records[k]
<1> USE DEF TypeInv, TypeOK, Goto
<1>1. CASE Catalogue(j)
  BY <1>1 DEF Catalogue, FetchOk, FetchRetry, FetchGivesUp, LoadSource, InsertSource,
              InsertConflicts, FindFund, UpsertRecord, UpsertConflicts,
              MayWriteSource, AfterCatalogue
<1>2. CASE History(j)
  BY <1>2 DEF History, PlanHistory, HistoryOk, HistoryRetry, HistoryGivesUp, IsNext,
              FinishFund
<1>3. CASE StepRaises(j)
  BY <1>3 DEF StepRaises
<1> QED
  BY <1>1, <1>2, <1>3 DEF Inside

LEMMA InsideHeld ==
    ASSUME TypeInv, Held, NEW j \in Jobs, Inside(j)
    PROVE  /\ holder' = j => pc'[j] \in {"find", "upsert", "plan", "history", "commit", "rollback"}
           /\ pc'[j] \in {"plan", "history", "commit"} /\ records'[j] # <<>> => holder' = j
<1> USE DEF TypeInv, TypeOK, Held, Goto
<1>1. CASE FetchOk(j)
  <2>1. pc[j] = "fetch" /\ holder # j /\ holder' = holder
    BY <1>1 DEF FetchOk
  <2>2. pc'[j] \in {"plan", "commit"} => records'[j] = <<>>
    BY <1>1 DEF FetchOk, AfterCatalogue
  <2>3. pc'[j] # "history"
    BY <1>1 DEF FetchOk, AfterCatalogue
  <2> QED
    BY <2>1, <2>2, <2>3
<1>2. CASE FetchRetry(j) \/ FetchGivesUp(j) \/ LoadSource(j) \/ FindFund(j) \/ StepRaises(j)
  BY <1>2 DEF FetchRetry, FetchGivesUp, LoadSource, FindFund, StepRaises
<1>3. CASE InsertSource(j) \/ InsertConflicts(j)
  BY <1>3 DEF InsertSource, InsertConflicts
<1>4. CASE UpsertRecord(j) \/ UpsertConflicts(j)
  BY <1>4 DEF UpsertRecord, UpsertConflicts, AfterCatalogue
<1>5. CASE History(j)
  BY <1>5 DEF History, PlanHistory, HistoryOk, HistoryRetry, HistoryGivesUp, IsNext,
              FinishFund
<1> QED
  BY <1>1, <1>2, <1>3, <1>4, <1>5 DEF Inside, Catalogue

LEMMA HeldStep == TypeInv /\ Held /\ [Next]_vars => Held'
<1> SUFFICES ASSUME TypeInv, Held, [Next]_vars PROVE Held'
  OBVIOUS
<1> USE JobsAssumption DEF TypeInv, TypeOK, Held, Goto
<1>1. ASSUME NEW j \in Jobs, Call(j) \/ StartRun(j) \/ StartRunFails(j) PROVE Held'
  BY <1>1 DEF Call, Acquire, RefuseOverlap, StartRun, StartRunFails
<1>2. ASSUME NEW j \in Jobs, Inside(j) PROVE Held'
  <2>1. holder' = holder \/ (holder = NoJob /\ holder' = j)
    BY <1>2, InsideHolder
  <2>2. \A k \in Jobs \ {j} : pc'[k] = pc[k] /\ records'[k] = records[k]
    BY <1>2, InsideHolder, InsideFrame
  <2>3. \A k \in Jobs \ {j} : holder' = k <=> holder = k
    BY <2>1
  <2>4. /\ holder' = j => pc'[j] \in {"find", "upsert", "plan", "history", "commit", "rollback"}
        /\ pc'[j] \in {"plan", "history", "commit"} /\ records'[j] # <<>> => holder' = j
    BY <1>2, InsideHeld
  <2> QED
    BY <2>2, <2>3, <2>4, SMTT(20)
<1>3. ASSUME NEW j \in Jobs, Commit(j) \/ Rollback(j) PROVE Held'
  <2>1. /\ pc'[j] \in {"report", "release"} /\ holder' # j
        /\ \A k \in Jobs \ {j} : pc'[k] = pc[k] /\ records'[k] = records[k]
        /\ \A k \in Jobs \ {j} : holder' = k <=> holder = k
    BY <1>3 DEF Commit, Rollback, EndTransaction
  <2> QED
    BY <2>1
<1>4. ASSUME NEW j \in Jobs, ReportError(j) \/ ReportFails(j) \/ Release(j) PROVE Held'
  BY <1>4 DEF ReportError, ReportFails, Release
<1>5. ASSUME NEW p \in Processes, Crash(p) PROVE Held'
  BY <1>5 DEF Crash
<1>6. CASE UNCHANGED vars
  BY <1>6 DEF vars
<1> QED
  BY <1>1, <1>2, <1>3, <1>4, <1>5, <1>6
     DEF Next, Step, Fault, End, Inside, Finished

\* Commit and Rollback empty the session of their job and touch no other.
LEMMA EndTransactionFrame ==
    ASSUME TypeInv, NEW j \in Jobs, EndTransaction(j)
    PROVE  /\ Mine(j)' = {} /\ txn'[j] = NoTxn
           /\ \A k \in Jobs \ {j} : txn'[k] = txn[k] /\ Mine(k)' = Mine(k)
           /\ \A k \in Jobs \ {j} : holder' = k <=> holder = k
BY JobsAssumption DEF EndTransaction, TypeInv, TypeOK, Mine, NoTxn

\* A crash empties the sessions of its process and touches no other.
LEMMA CrashFrame ==
    ASSUME TypeInv, NEW p \in Processes, Crash(p), NEW j \in Jobs
    PROVE  \/ txn'[j] = NoTxn /\ Mine(j)' = {} /\ pc'[j] = "idle"
           \/ /\ txn'[j] = txn[j] /\ Mine(j)' = Mine(j) /\ run'[j] = run[j]
              /\ pc'[j] = pc[j] /\ (holder = j => holder' = j)
BY DEF Crash, Mine, NoTxn

\* A step inside the try block of j leaves the sessions of the others.
LEMMA InsideOthers ==
    ASSUME TypeInv, NEW j \in Jobs, Inside(j), NEW k \in Jobs \ {j}
    PROVE  /\ txn'[k] = txn[k] /\ Mine(k)' = Mine(k) /\ run'[k] = run[k]
           /\ pc'[k] = pc[k] /\ (holder' = k <=> holder = k)
<1>1. txn'[k] = txn[k] /\ (holder' = holder \/ (holder = NoJob /\ holder' = j))
  BY InsideHolder
<1>2. pc'[k] = pc[k] /\ run' = run
  BY InsideFrame
<1> QED
  BY <1>1, <1>2, JobsAssumption DEF Mine

\* Whoever writes holds the source row afterwards.
LEMMA InsideWriter ==
    ASSUME TypeInv, Held, OneWriter, NEW j \in Jobs, Inside(j)
    PROVE  Mine(j)' # {} \/ txn'[j].funds # {} => holder' = j
<1>1. CASE UpsertRecord(j)
  BY <1>1 DEF UpsertRecord
<1>2. CASE HistoryOk(j) \/ HistoryGivesUp(j)
  <2>1. pc[j] = "history" /\ plan[j].todo # {} /\ UNCHANGED holder
    BY <1>2 DEF HistoryOk, HistoryGivesUp, IsNext
  <2>2. records[j] # <<>>
    BY <2>1 DEF TypeInv, Indexed
  <2> QED
    BY <2>1, <2>2 DEF Held
<1>3. CASE LoadSource(j) \/ FindFund(j)
  <2>1. txn[j] \in Txn /\ txn \in [Jobs -> Txn] /\ UNCHANGED holder
    BY <1>3 DEF LoadSource, FindFund, TypeInv, TypeOK
  <2>2. /\ txn'[j].flushed = txn[j].flushed /\ txn'[j].pending = txn[j].pending
        /\ txn'[j].funds = txn[j].funds
    BY <1>3, <2>1 DEF LoadSource, FindFund, Txn
  <2> QED
    BY <2>1, <2>2 DEF OneWriter, Mine
<1>4. CASE UNCHANGED txn
  BY <1>4, InsideHolder, JobsAssumption DEF OneWriter, Mine
<1> QED
  BY <1>1, <1>2, <1>3, <1>4
     DEF Inside, Catalogue, History, FetchOk, FetchRetry, FetchGivesUp, InsertSource,
         InsertConflicts, UpsertConflicts, PlanHistory, HistoryRetry, StepRaises

LEMMA OneWriterStep == TypeInv /\ Held /\ OneWriter /\ [Next]_vars => OneWriter'
<1> SUFFICES ASSUME TypeInv, Held, OneWriter, [Next]_vars PROVE OneWriter'
  OBVIOUS
<1> USE DEF OneWriter
<1>1. CASE UNCHANGED <<txn, holder>>
  BY <1>1 DEF Mine
<1>2. ASSUME NEW j \in Jobs, Inside(j) PROVE OneWriter'
  BY <1>2, InsideOthers, InsideWriter
<1>3. ASSUME NEW j \in Jobs, Commit(j) \/ Rollback(j) PROVE OneWriter'
  <2>1. EndTransaction(j)
    BY <1>3 DEF Commit, Rollback
  <2> QED
    BY <2>1, EndTransactionFrame DEF NoTxn
<1>4. ASSUME NEW p \in Processes, Crash(p) PROVE OneWriter'
  BY <1>4, CrashFrame DEF NoTxn
<1> QED
  BY <1>1, <1>2, <1>3, <1>4
     DEF Next, Call, Acquire, RefuseOverlap, Step, StartRun, Fault, StartRunFails,
         End, ReportError, ReportFails, Release, Inside, Finished, vars, database

LEMMA OwnRowsStep ==
    TypeInv /\ Held /\ OneWriter /\ OwnRows /\ [Next]_vars => OwnRows'
<1> SUFFICES ASSUME TypeInv, Held, OneWriter, OwnRows, [Next]_vars PROVE OwnRows'
  OBVIOUS
<1> USE DEF OwnRows
<1>1. CASE UNCHANGED <<txn, run>>
  BY <1>1 DEF Mine
<1>2. ASSUME NEW j \in Jobs, StartRun(j) \/ Release(j) PROVE OwnRows'
  <2>1. holder # j /\ UNCHANGED txn /\ \A k \in Jobs \ {j} : run'[k] = run[k]
    BY <1>2 DEF StartRun, Release, Held, TypeInv, TypeOK
  <2>2. Mine(j)' = {}
    BY <2>1 DEF OneWriter, Mine
  <2> QED
    BY <2>1, <2>2 DEF Mine
<1>3. ASSUME NEW j \in Jobs, Inside(j) PROVE OwnRows'
  <2>1. PICK new : Adds(j, new)
    BY <1>3, InsideAdds
  <2>2. run' = run
    BY <1>3, InsideFrame
  <2> QED
    BY <1>3, <2>1, <2>2, InsideOthers DEF Adds
<1>4. ASSUME NEW j \in Jobs, Commit(j) \/ Rollback(j) PROVE OwnRows'
  <2>1. EndTransaction(j) /\ run' = run
    BY <1>4 DEF Commit, Rollback
  <2> QED
    BY <2>1, EndTransactionFrame
<1>5. ASSUME NEW p \in Processes, Crash(p) PROVE OwnRows'
  BY <1>5, CrashFrame
<1> QED
  BY <1>1, <1>2, <1>3, <1>4, <1>5
     DEF Next, Call, Acquire, RefuseOverlap, Step, Fault, StartRunFails,
         End, ReportError, ReportFails, Inside, Finished, vars, database

LEMMA AllOrNothingStep ==
    TypeInv /\ Owned /\ OwnRows /\ AllOrNothing /\ [Next]_vars => AllOrNothing'
<1> SUFFICES ASSUME TypeInv, Owned, OwnRows, AllOrNothing, [Next]_vars
             PROVE  AllOrNothing'
  OBVIOUS
<1> USE DEF AllOrNothing
<1>1. CASE UNCHANGED <<rows, runs>>
  BY <1>1
<1>2. ASSUME NEW j \in Jobs, StartRun(j) PROVE AllOrNothing'
  <2>1. \A n \in DOMAIN runs : n \in DOMAIN runs' /\ runs'[n] = runs[n]
    BY <1>2 DEF StartRun, TypeInv, TypeOK
  <2> QED
    BY <1>2, <2>1 DEF StartRun
<1>3. ASSUME NEW j \in Jobs, Inside(j) PROVE AllOrNothing'
  BY <1>3, InsideFrame DEF database
<1>4. ASSUME NEW j \in Jobs, Commit(j) PROVE AllOrNothing'
  <2>1. run[j] \in DOMAIN runs
    BY <1>4 DEF Commit, Owned, Working, InTry
  <2>2. /\ DOMAIN runs' = DOMAIN runs /\ runs'[run[j]].status = "success"
        /\ \A n \in DOMAIN runs \ {run[j]} : runs'[n] = runs[n]
        /\ rows' = rows \cup Mine(j)
    BY <1>4, <2>1 DEF Commit, CommittedRows, TypeInv, TypeOK
  <2> QED
    BY <2>1, <2>2 DEF OwnRows
<1>5. ASSUME NEW j \in Jobs, ReportError(j) PROVE AllOrNothing'
  <2>1. runs[run[j]].status = "running"
    BY <1>5 DEF ReportError, Owned, Working
  <2>2. /\ DOMAIN runs' = DOMAIN runs /\ rows' = rows
        /\ \A n \in DOMAIN runs \ {run[j]} : runs'[n] = runs[n]
    BY <1>5 DEF ReportError, TypeInv, TypeOK
  <2> QED
    BY <2>1, <2>2
<1> QED
  BY <1>1, <1>2, <1>3, <1>4, <1>5
     DEF Next, Call, Acquire, RefuseOverlap, Step, Fault, StartRunFails,
         End, Rollback, ReportFails, Release, Inside, Finished, Crash, vars, database

LEMMA SafeInit == Init => SafeInv
<1> SUFFICES ASSUME Init PROVE SafeInv
  OBVIOUS
<1>1. \A j \in Jobs : Mine(j) = {} /\ txn[j].funds = {}
  BY DEF Init, Mine, NoTxn
<1>2. Owned /\ Held
  BY JobsAssumption DEF Init, Owned, Held, Working, InTry
<1> QED
  BY <1>1, <1>2, TypeInit DEF Init, SafeInv, OneWriter, OwnRows, AllOrNothing

LEMMA SafeInvariant == Spec => []SafeInv
<1>1. SafeInv /\ [Next]_vars => SafeInv'
  BY TypeStep, OwnedStep, HeldStep, OneWriterStep, OwnRowsStep, AllOrNothingStep
     DEF SafeInv
<1> QED
  BY <1>1, SafeInit, PTL DEF Spec

\* Across processes the source row serialises the writers: uncommitted rows and
\* funds belong to its holder alone.
THEOREM Serialised == Spec => []OneWriter
<1>1. SafeInv => OneWriter
  BY DEF SafeInv
<1> QED
  BY <1>1, SafeInvariant, PTL

\* A committed row belongs to a run that succeeded, whatever failed or crashed.
THEOREM Atomicity == Spec => []AllOrNothing
<1>1. SafeInv => AllOrNothing
  BY DEF SafeInv
<1> QED
  BY <1>1, SafeInvariant, PTL

(***************************************************************************)
(* One row per observation.                                                *)
(***************************************************************************)
Unique(seen) == \A r, s \in seen : SameObservation(r, s) => r = s

\* A session never adds an observation that it or the database already has.
UniqueInv == Careful => Unique(rows) /\ \A j \in Jobs : Unique(rows \cup Mine(j))

LEMMA UniqueUnion ==
    ASSUME NEW old, NEW new, Unique(old),
           \A r \in new, s \in old \cup new : SameObservation(r, s) => r = s
    PROVE  Unique(old \cup new)
BY DEF Unique, SameObservation

LEMMA UniqueStep == SafeInv /\ UniqueInv /\ [Next]_vars => UniqueInv'
<1> SUFFICES ASSUME SafeInv, UniqueInv, [Next]_vars, Careful
             PROVE  Unique(rows)' /\ \A j \in Jobs : Unique(rows \cup Mine(j))'
  BY DEF UniqueInv, Careful
<1>0. Unique(rows) /\ \A j \in Jobs : Unique(rows \cup Mine(j))
  BY DEF UniqueInv
<1>1. CASE UNCHANGED <<rows, txn>>
  BY <1>0, <1>1 DEF Mine, Unique
<1>2. ASSUME NEW j \in Jobs, Inside(j)
      PROVE  Unique(rows)' /\ \A k \in Jobs : Unique(rows \cup Mine(k))'
  <2>1. rows' = rows
    BY <1>2, InsideFrame DEF SafeInv, database
  <2>2. PICK new : Adds(j, new)
    BY <1>2, InsideAdds DEF SafeInv
  <2>3. Unique((rows \cup Mine(j)) \cup new)
    BY <1>0, <2>2, UniqueUnion DEF Adds
  <2>4. (rows \cup Mine(j))' = (rows \cup Mine(j)) \cup new
    BY <2>1, <2>2 DEF Adds
  <2>5. \A k \in Jobs \ {j} : Mine(k)' = Mine(k)
    BY <1>2, InsideOthers DEF SafeInv
  <2> QED
    BY <1>0, <2>1, <2>3, <2>4, <2>5 DEF Unique
<1>3. ASSUME NEW j \in Jobs, Commit(j)
      PROVE  Unique(rows)' /\ \A k \in Jobs : Unique(rows \cup Mine(k))'
  <2>1. EndTransaction(j) /\ rows' = rows \cup Mine(j)
    BY <1>3 DEF Commit, CommittedRows
  <2>2. /\ Mine(j)' = {}
        /\ \A k \in Jobs \ {j} : Mine(k)' = Mine(k)
    BY <2>1, EndTransactionFrame DEF SafeInv
  <2>3. ASSUME NEW k \in Jobs \ {j} PROVE Mine(j) = {} \/ Mine(k) = {}
    BY DEF SafeInv, OneWriter
  <2>4. ASSUME NEW k \in Jobs PROVE Unique(rows \cup Mine(k))'
    <3>1. CASE k = j \/ Mine(k) = {}
      BY <1>0, <2>1, <2>2, <3>1 DEF Unique
    <3>2. CASE k # j /\ Mine(j) = {}
      BY <1>0, <2>1, <2>2, <3>2 DEF Unique
    <3> QED
      BY <2>3, <3>1, <3>2
  <2> QED
    BY <1>0, <2>1, <2>4 DEF Unique
<1>4. ASSUME NEW j \in Jobs, Rollback(j)
      PROVE  Unique(rows)' /\ \A k \in Jobs : Unique(rows \cup Mine(k))'
  <2>1. EndTransaction(j) /\ rows' = rows
    BY <1>4 DEF Rollback, database
  <2> QED
    BY <1>0, <2>1, EndTransactionFrame DEF SafeInv, Unique
<1>5. ASSUME NEW p \in Processes, Crash(p)
      PROVE  Unique(rows)' /\ \A k \in Jobs : Unique(rows \cup Mine(k))'
  <2>1. rows' = rows
    BY <1>5 DEF Crash, database
  <2>2. \A k \in Jobs : Mine(k)' = {} \/ Mine(k)' = Mine(k)
    BY <1>5, CrashFrame DEF SafeInv
  <2> QED
    BY <1>0, <2>1, <2>2 DEF Unique
<1> QED
  BY <1>1, <1>2, <1>3, <1>4, <1>5
     DEF Next, Call, Acquire, RefuseOverlap, Step, StartRun, Fault, StartRunFails,
         End, ReportError, ReportFails, Release, Inside, Finished, vars, database

LEMMA UniqueInvariant == Spec => []UniqueInv
<1>1. Init => UniqueInv
  BY DEF Init, UniqueInv, Unique, Mine, NoTxn
<1> QED
  BY <1>1, SafeInvariant, UniqueStep, PTL DEF Spec

\* When the session flushes before its queries, or the provider has no
\* histories, no observation ever has two rows, however often and by however
\* many processes the refresh is repeated.
THEOREM Idempotence ==
    ASSUME Autoflush \/ ~HasHistory
    PROVE  Spec => []NoDuplicates
<1>1. UniqueInv => NoDuplicates
  BY DEF UniqueInv, Careful, Unique, NoDuplicates
<1> QED
  BY <1>1, UniqueInvariant, PTL

(***************************************************************************)
(* The refreshes implement the published history of NavHistory.            *)
(***************************************************************************)
\* A session never adds an observation that is committed already: queries see what
\* is committed, and only the holder of the source row has rows to commit.
NewInv == \A j \in Jobs : \A r \in Mine(j), s \in rows : ~SameObservation(r, s)

LEMMA NewStep == SafeInv /\ NewInv /\ [Next]_vars => NewInv'
<1> SUFFICES ASSUME SafeInv, NewInv, [Next]_vars PROVE NewInv'
  OBVIOUS
<1>1. CASE UNCHANGED <<rows, txn>>
  BY <1>1 DEF NewInv, Mine
<1>2. ASSUME NEW j \in Jobs, Inside(j) PROVE NewInv'
  <2>1. rows' = rows
    BY <1>2, InsideFrame DEF SafeInv, database
  <2>2. PICK new : Adds(j, new)
    BY <1>2, InsideAdds DEF SafeInv
  <2>3. \A k \in Jobs \ {j} : Mine(k)' = Mine(k)
    BY <1>2, InsideOthers DEF SafeInv
  <2> QED
    BY <2>1, <2>2, <2>3 DEF NewInv, Adds, SameObservation
<1>3. ASSUME NEW j \in Jobs, Commit(j) PROVE NewInv'
  <2>1. EndTransaction(j) /\ rows' = rows \cup Mine(j)
    BY <1>3 DEF Commit, CommittedRows
  <2>2. /\ Mine(j)' = {}
        /\ \A k \in Jobs \ {j} : Mine(k)' = Mine(k)
    BY <2>1, EndTransactionFrame DEF SafeInv
  <2>3. ASSUME NEW k \in Jobs \ {j} PROVE Mine(j) = {} \/ Mine(k) = {}
    BY DEF SafeInv, OneWriter
  <2>4. ASSUME NEW k \in Jobs PROVE \A r \in Mine(k)', s \in rows' : ~SameObservation(r, s)
    BY <2>1, <2>2, <2>3 DEF NewInv
  <2> QED
    BY <2>4 DEF NewInv, SameObservation
<1>4. ASSUME NEW j \in Jobs, Rollback(j) PROVE NewInv'
  <2>1. EndTransaction(j) /\ rows' = rows
    BY <1>4 DEF Rollback, database
  <2> QED
    BY <2>1, EndTransactionFrame DEF SafeInv, NewInv, SameObservation
<1>5. ASSUME NEW p \in Processes, Crash(p) PROVE NewInv'
  <2>1. rows' = rows
    BY <1>5 DEF Crash, database
  <2>2. \A k \in Jobs : Mine(k)' = {} \/ Mine(k)' = Mine(k)
    BY <1>5, CrashFrame DEF SafeInv
  <2> QED
    BY <2>1, <2>2 DEF NewInv, SameObservation
<1> QED
  BY <1>1, <1>2, <1>3, <1>4, <1>5
     DEF Next, Call, Acquire, RefuseOverlap, Step, StartRun, Fault, StartRunFails,
         End, ReportError, ReportFails, Release, Inside, Finished, vars, database

LEMMA NewInvariant == Spec => []NewInv
<1>1. Init => NewInv
  BY DEF Init, NewInv, Mine, NoTxn
<1> QED
  BY <1>1, SafeInvariant, NewStep, PTL DEF Spec

LEMMA PublishStep ==
    ASSUME SafeInv, NewInv, [Next]_vars
    PROVE  [Abstract!Next]_<<rows, Published>>
<1>1. CASE UNCHANGED <<rows, runs>>
  BY <1>1 DEF Published
<1>2. ASSUME NEW j \in Jobs, StartRun(j) PROVE UNCHANGED <<rows, Published>>
  BY <1>2 DEF StartRun, Published, SafeInv, TypeInv, TypeOK
<1>3. ASSUME NEW j \in Jobs, ReportError(j) PROVE UNCHANGED <<rows, Published>>
  <2>1. run[j] \in DOMAIN runs /\ runs[run[j]].status = "running"
    BY <1>3 DEF ReportError, SafeInv, Owned, Working
  <2>2. /\ DOMAIN runs' = DOMAIN runs /\ rows' = rows
        /\ runs'[run[j]].status = "error"
        /\ \A n \in DOMAIN runs \ {run[j]} : runs'[n] = runs[n]
    <3>1. runs[run[j]] \in IngestionRun /\ runs \in Seq(IngestionRun)
      BY <2>1 DEF SafeInv, TypeInv, TypeOK
    <3>2. runs' = [runs EXCEPT ![run[j]] = [runs[run[j]] EXCEPT !.status = "error"]]
      BY <1>3 DEF ReportError
    <3>3. [runs[run[j]] EXCEPT !.status = "error"].status = "error"
      BY <3>1 DEF IngestionRun
    <3> QED
      BY <1>3, <2>1, <3>1, <3>2, <3>3 DEF ReportError
  <2> QED
    BY <2>1, <2>2 DEF Published
<1>4. ASSUME NEW j \in Jobs, Inside(j) PROVE UNCHANGED <<rows, Published>>
  BY <1>4, InsideFrame DEF SafeInv, Published, database
<1>5. ASSUME NEW j \in Jobs, Commit(j) PROVE Abstract!Publish(run[j])
  <2>1. run[j] \in DOMAIN runs /\ runs[run[j]].status = "running"
    BY <1>5 DEF Commit, SafeInv, Owned, Working, InTry
  <2>2. /\ DOMAIN runs' = DOMAIN runs /\ runs'[run[j]].status = "success"
        /\ \A n \in DOMAIN runs \ {run[j]} : runs'[n] = runs[n]
        /\ rows' = rows \cup Mine(j)
    BY <1>5, <2>1 DEF Commit, CommittedRows, SafeInv, TypeInv, TypeOK
  <2>3. run[j] \notin Published /\ Published' = Published \cup {run[j]}
    BY <2>1, <2>2 DEF Published
  <2>4. \A r \in Mine(j) : r.run = run[j]
    BY DEF SafeInv, OwnRows
  <2>5. \A r \in Mine(j), s \in rows : ~Abstract!Same(r, s)
    BY DEF NewInv, SameObservation, Abstract!Same
  <2> QED
    BY <2>2, <2>3, <2>4, <2>5 DEF Abstract!Publish
<1>6. ASSUME NEW j \in Jobs, Commit(j) PROVE Abstract!Next
  <2>1. run[j] \in Published'
    BY <1>5, <1>6 DEF Abstract!Publish
  <2> QED
    BY <1>5, <1>6, <2>1 DEF Abstract!Next
<1> QED
  BY <1>1, <1>2, <1>3, <1>4, <1>6
     DEF Next, Call, Acquire, RefuseOverlap, Step, Fault, StartRunFails, End,
         Rollback, ReportFails, Release, Crash, Inside, Finished, vars, database

\* Every behaviour of the refreshes is one of NavHistory, whatever the session's autoflush
\* and the provider: runs publish their rows at once, at most once, and fill gaps only.
THEOREM Implementation == Spec => Publishes
<1>1. Init => Abstract!Init
  BY DEF Init, Abstract!Init, Published
<1>2. SafeInv /\ NewInv /\ [Next]_vars => [Abstract!Next]_<<rows, Published>>
  BY PublishStep
<1> QED
  BY <1>1, <1>2, SafeInvariant, NewInvariant, PTL DEF Spec, Publishes, Abstract!Spec

(***************************************************************************)
(* Runs that nobody works on.                                              *)
(***************************************************************************)
\* Run rows that say "running" and that no job will close any more: those of
\* Orphans, and the one of a job that could not report its failure and is about
\* to leave.
Dropped ==
    {r \in DOMAIN runs : /\ runs[r].status = "running"
                         /\ \A j \in Jobs : pc[j] \in Working => run[j] # r}
DroppedInv == Dropped \subseteq lost

LEMMA DroppedStep == TypeInv /\ DroppedInv /\ [Next]_vars => DroppedInv'
<1> SUFFICES ASSUME TypeInv, DroppedInv, [Next]_vars PROVE DroppedInv'
  OBVIOUS
<1>0. TypeOK
  BY DEF TypeInv
<1> USE DEF Goto, Working, InTry
<1>1. ASSUME UNCHANGED <<runs, run, lost>>, \A j \in Jobs : pc'[j] \in Working <=> pc[j] \in Working
      PROVE  DroppedInv'
  BY <1>1 DEF DroppedInv, Dropped
<1>2. ASSUME NEW j \in Jobs, Call(j) PROVE DroppedInv'
  BY <1>0, <1>1, <1>2 DEF Call, Acquire, RefuseOverlap, database, TypeOK
<1>3. ASSUME NEW j \in Jobs, StartRun(j) PROVE DroppedInv'
  <2>1. /\ DOMAIN runs' = DOMAIN runs \cup {Len(runs) + 1}
        /\ \A n \in DOMAIN runs : runs'[n] = runs[n]
        /\ run'[j] = Len(runs) + 1 /\ pc'[j] = "fetch" /\ pc[j] = "start"
        /\ \A k \in Jobs \ {j} : run'[k] = run[k] /\ pc'[k] = pc[k]
    BY <1>0, <1>3 DEF StartRun, TypeOK
  <2>2. ASSUME NEW r \in Dropped' PROVE r \in Dropped
    <3>1. r \in DOMAIN runs' /\ runs'[r].status = "running"
          /\ \A k \in Jobs : pc'[k] \in Working => run'[k] # r
      BY <2>2 DEF Dropped
    <3>2. r # Len(runs) + 1
      BY <2>1, <3>1
    <3>3. \A k \in Jobs : pc[k] \in Working => run[k] # r
      BY <2>1, <3>1
    <3> QED
      BY <2>1, <3>1, <3>2, <3>3 DEF Dropped
  <2>3. lost' = lost
    BY <1>3 DEF StartRun
  <2> QED
    BY <2>2, <2>3 DEF DroppedInv
<1>4. ASSUME NEW j \in Jobs, StartRunFails(j) PROVE DroppedInv'
  BY <1>0, <1>1, <1>4 DEF StartRunFails, database, TypeOK
<1>5. ASSUME NEW j \in Jobs, Inside(j) PROVE DroppedInv'
  <2>1. /\ pc[j] \in InTry /\ pc'[j] \in InTry \cup {"rollback"}
        /\ \A k \in Jobs \ {j} : pc'[k] = pc[k]
        /\ UNCHANGED <<runs, run, lost>>
    BY <1>5, InsideFrame DEF database
  <2> QED
    BY <1>1, <2>1
<1>6. ASSUME NEW j \in Jobs, Commit(j) \/ ReportError(j) PROVE DroppedInv'
  <2>1. /\ pc'[j] = "release" /\ UNCHANGED <<run, lost>>
        /\ \A k \in Jobs \ {j} : pc'[k] = pc[k]
        /\ DOMAIN runs' = DOMAIN runs
        /\ \A n \in DOMAIN runs \ {run[j]} : runs'[n] = runs[n]
    BY <1>0, <1>6 DEF Commit, ReportError, TypeOK
  <2>2. run[j] \in DOMAIN runs => runs'[run[j]].status # "running"
    <3>1. CASE Commit(j)
      BY <1>0, <3>1 DEF Commit, TypeOK
    <3>2. CASE ReportError(j)
      <4>1. run[j] \in DOMAIN runs => runs[run[j]] \in IngestionRun
        BY <1>0 DEF TypeOK
      <4>2. runs' = [runs EXCEPT ![run[j]] = [runs[run[j]] EXCEPT !.status = "error"]]
        BY <3>2 DEF ReportError
      <4> QED
        BY <1>0, <4>1, <4>2 DEF TypeOK, IngestionRun
    <3> QED
      BY <1>6, <3>1, <3>2
  <2>3. Dropped' \subseteq Dropped
    BY <2>1, <2>2 DEF Dropped
  <2> QED
    BY <2>1, <2>3 DEF DroppedInv
<1>7. ASSUME NEW j \in Jobs, Rollback(j) PROVE DroppedInv'
  BY <1>0, <1>1, <1>7 DEF Rollback, database, TypeOK
<1>8. ASSUME NEW j \in Jobs, ReportFails(j) PROVE DroppedInv'
  <2>1. /\ lost' = lost \cup {run[j]} /\ UNCHANGED <<runs, run>>
        /\ \A k \in Jobs \ {j} : pc'[k] = pc[k]
    BY <1>0, <1>8 DEF ReportFails, database, TypeOK
  <2> QED
    BY <2>1 DEF Dropped, DroppedInv
<1>9. ASSUME NEW j \in Jobs, Release(j) PROVE DroppedInv'
  <2>1. /\ UNCHANGED <<runs, lost>> /\ pc[j] = "release" /\ pc'[j] = "idle"
        /\ \A k \in Jobs \ {j} : pc'[k] = pc[k] /\ run'[k] = run[k]
    BY <1>0, <1>9 DEF Release, database, TypeOK
  <2> QED
    BY <2>1 DEF Dropped, DroppedInv
<1>10. ASSUME NEW p \in Processes, Crash(p) PROVE DroppedInv'
  <2>1. UNCHANGED runs /\ DOMAIN runs \subseteq Nat \ {0}
    BY <1>0, <1>10 DEF Crash, database, TypeOK
  <2>2. \A j \in Jobs : ProcessOf[j] # p => pc'[j] = pc[j] /\ run'[j] = run[j]
    BY <1>10 DEF Crash
  <2>3. lost' = lost \cup ({run[j] : j \in {k \in Jobs : ProcessOf[k] = p}} \ {0})
    BY <1>10 DEF Crash
  <2>4. ASSUME NEW r \in Dropped', r \notin Dropped PROVE r \in lost'
    <3>1. PICK j \in Jobs : pc[j] \in Working /\ run[j] = r
      BY <2>1, <2>4 DEF Dropped
    <3>2. ProcessOf[j] = p
      BY <2>2, <2>4, <3>1 DEF Dropped
    <3>3. r # 0
      BY <2>1, <2>4 DEF Dropped
    <3> QED
      BY <2>3, <3>1, <3>2, <3>3
  <2> QED
    BY <2>3, <2>4 DEF DroppedInv
<1>11. CASE UNCHANGED vars
  BY <1>0, <1>1, <1>11 DEF vars, database, TypeOK
<1> QED
  BY <1>2, <1>3, <1>4, <1>5, <1>6, <1>7, <1>8, <1>9, <1>10, <1>11
     DEF Next, Step, Fault, End, Inside, Finished

\* A run row stays at "running" with nobody working on it only if the run's process was
\* killed or the write of its failure failed too (data_refresh.py l.271-280).
THEOREM OrphansHaveCause == Spec => []NoOrphanRun
<1>1. Init => DroppedInv
  BY DEF Init, DroppedInv, Dropped
<1>2. DroppedInv => NoOrphanRun
  BY DEF Orphans, Dropped, DroppedInv, NoOrphanRun
<1> QED
  BY <1>1, <1>2, TypeInvariant, DroppedStep, PTL DEF Spec

(***************************************************************************)
(* Metrics.                                                                *)
(***************************************************************************)
\* What a session has computed for a fund is computed from all its rows, and the
\* session holds the source row, so that no other can add to them.
Fresh(j) ==
    /\ pc[j] \notin {"history", "commit", "rollback"} => txn[j].metrics = NoMetrics
    /\ IsFiniteSet(Mine(j))
    /\ \A f \in Funds : txn[j].metrics[f] # {} =>
          /\ holder = j
          /\ Cardinality(txn[j].metrics[f]) >= 2
          /\ txn[j].metrics[f] = NavOf(rows \cup Mine(j), f)
FreshInv == IsFiniteSet(rows) /\ \A j \in Jobs : Fresh(j)

\* A fetched history and a catalogue record have finitely many rows.
LEMMA HistoryRowsFinite ==
    ASSUME NEW j \in Jobs, NEW f \in Funds, NEW h \in Histories
    PROVE  IsFiniteSet(HistoryRows(j, f, h))
<1> DEFINE row(i) == [table |-> "nav", fund |-> f, date |-> h[i], run |-> run[j], from |-> i]
           g == [i \in DOMAIN h |-> row(i)]
           all == {row(i) : i \in DOMAIN h}
<1>1. h \in Seq(Dates)
  BY DataAssumption
<1>2. IsFiniteSet(DOMAIN h)
  BY <1>1, FS_Interval
<1>3. g \in Surjection(DOMAIN h, all)
  BY DEF Surjection
<1>4. IsFiniteSet(all)
  <2> HIDE DEF g, all
  <2> QED
    BY <1>2, <1>3, FS_Surjection
<1>5. HistoryRows(j, f, h) \subseteq all
  BY DEF HistoryRows
<1> QED
  BY <1>4, <1>5, FS_Subset

LEMMA CatalogueRowsFinite ==
    ASSUME NEW j \in Jobs, NEW rec, NEW seen
    PROVE  IsFiniteSet(CatalogueRows(j, rec, seen))
<1> DEFINE row(t) == [table |-> t, fund |-> rec.fund, date |-> rec.date, run |-> run[j], from |-> 0]
           all == {row("nav")} \cup {row("market")}
<1>1. CatalogueRows(j, rec, seen) \subseteq all
  BY DEF CatalogueRows
<1>2. IsFiniteSet(all)
  BY FS_Singleton, FS_AddElement
<1> QED
  BY <1>1, <1>2, FS_Subset

\* A larger set of observations is not counted lower.
LEMMA NavGrows ==
    ASSUME NEW seen, NEW more, IsFiniteSet(more), seen \subseteq more, NEW f
    PROVE  /\ NavOf(seen, f) \subseteq NavOf(more, f)
           /\ Cardinality(NavOf(seen, f)) <= Cardinality(NavOf(more, f))
           /\ Cardinality(NavOf(seen, f)) \in Nat /\ Cardinality(NavOf(more, f)) \in Nat
<1>1. NavOf(seen, f) \subseteq NavOf(more, f) /\ NavOf(more, f) \subseteq more
  BY DEF NavOf
<1>2. IsFiniteSet(NavOf(more, f))
  BY <1>1, FS_Subset
<1>3. IsFiniteSet(NavOf(seen, f))
  BY <1>1, <1>2, FS_Subset
<1> QED
  BY <1>1, <1>2, <1>3, FS_Subset, FS_CardinalityType

\* The end of a fund's history leaves its metrics computed from all its rows, and
\* those of the other funds too, of which it added none.
LEMMA FinishFundFresh ==
    ASSUME TypeInv, Held, IsFiniteSet(rows), NEW j \in Jobs, Fresh(j), NEW i \in plan[j].todo,
           NEW new \in SUBSET Row, IsFiniteSet(new), \A r \in new : r.fund = records[j][i].fund,
           pc[j] = "history", FinishFund(j, i, new), UNCHANGED <<rows, holder>>
    PROVE  Fresh(j)'
<1> DEFINE f == records[j][i].fund
           all == rows \cup Mine(j) \cup new
           old == txn[j].metrics
<1>1. f \in Funds /\ txn[j] \in Txn /\ old \in [Funds -> SUBSET Row]
  BY FundOfTodo DEF TypeInv, TypeOK, Txn
<1>2. pc'[j] \in {"commit", "history"}
  BY DEF FinishFund, Goto, TypeInv, TypeOK
<1>3. txn'[j] = AfterFund(j, f, new)
  BY DEF FinishFund, TypeInv, TypeOK
<1>4. /\ txn'[j].flushed = Mine(j) \cup new /\ txn'[j].pending = {}
      /\ txn'[j].metrics = [old EXCEPT ![f] = RefreshedMetrics(j, f, new)]
  BY <1>1, <1>3 DEF AfterFund, Txn
<1>5. Mine(j)' = Mine(j) \cup new
  BY <1>4 DEF Mine
<1>6. IsFiniteSet(Mine(j)) /\ IsFiniteSet(Mine(j)') /\ IsFiniteSet(all)
  BY <1>5, FS_Union DEF Fresh
<1>7. holder = j
  <2>1. records[j] # <<>>
    BY DEF TypeInv, Indexed
  <2> QED
    BY <2>1 DEF Held
<1>8. (rows \cup Mine(j))' = all
  BY <1>5
<1>9. ASSUME txn'[j].metrics[f] # {}
      PROVE  /\ txn'[j].metrics[f] = NavOf(all, f)
             /\ Cardinality(txn'[j].metrics[f]) >= 2
  <2>1. txn'[j].metrics[f] = RefreshedMetrics(j, f, new)
    BY <1>1, <1>4
  <2>2. CASE Cardinality(NavOf(all, f)) >= 2
    BY <2>1, <2>2 DEF RefreshedMetrics, Observations
  <2>3. CASE ~(Cardinality(NavOf(all, f)) >= 2)
    <3>1. txn'[j].metrics[f] = old[f]
      BY <2>1, <2>3 DEF RefreshedMetrics, Observations
    <3>2. Cardinality(NavOf(rows \cup Mine(j), f)) >= 2
      BY <1>1, <1>9, <3>1 DEF Fresh
    <3>3. rows \cup Mine(j) \subseteq all
      OBVIOUS
    <3> HIDE DEF all
    <3>4. /\ Cardinality(NavOf(rows \cup Mine(j), f)) <= Cardinality(NavOf(all, f))
          /\ Cardinality(NavOf(rows \cup Mine(j), f)) \in Nat
          /\ Cardinality(NavOf(all, f)) \in Nat
      BY <1>6, <3>3, NavGrows
    <3> QED
      BY <2>3, <3>2, <3>4
  <2> QED
    BY <2>2, <2>3
<1>10. ASSUME NEW g \in Funds, g # f, txn'[j].metrics[g] # {}
       PROVE  /\ txn'[j].metrics[g] = NavOf(all, g)
              /\ Cardinality(txn'[j].metrics[g]) >= 2
  <2>1. txn'[j].metrics[g] = old[g]
    BY <1>1, <1>4, <1>10
  <2>2. NavOf(all, g) = NavOf(rows \cup Mine(j), g)
    BY <1>10 DEF NavOf
  <2> QED
    BY <1>10, <2>1, <2>2 DEF Fresh
<1>11. \A g \in Funds : txn'[j].metrics[g] # {} =>
          /\ txn'[j].metrics[g] = NavOf(all, g)
          /\ Cardinality(txn'[j].metrics[g]) >= 2
  BY <1>9, <1>10
<1>12. \A g : NavOf(rows \cup Mine(j), g)' = NavOf(all, g)
  BY <1>8 DEF NavOf
<1> HIDE DEF all
<1> QED
  BY <1>2, <1>6, <1>7, <1>11, <1>12 DEF Fresh

LEMMA InsideFresh ==
    ASSUME SafeInv, IsFiniteSet(rows), NEW j \in Jobs, Fresh(j), Inside(j)
    PROVE  Fresh(j)'
<1>0. TypeInv /\ Held
  BY DEF SafeInv
<1>1. UNCHANGED rows /\ txn[j] \in Txn /\ txn \in [Jobs -> Txn] /\ pc \in [Jobs -> Located]
  BY <1>0, InsideFrame DEF database, TypeInv, TypeOK
<1>2. CASE UpsertRecord(j)
  <2> DEFINE rec == records[j][next[j]]
             new == CatalogueRows(j, rec, rows \cup Mine(j))
  <2>1. txn[j].metrics = NoMetrics
    BY <1>2 DEF UpsertRecord, MayWriteSource, Fresh
  <2>2. /\ txn'[j].flushed = Mine(j) /\ txn'[j].pending = new
        /\ txn'[j].metrics = NoMetrics
    BY <1>1, <1>2, <2>1 DEF UpsertRecord, AfterRecord, Txn
  <2>3. IsFiniteSet(new) /\ IsFiniteSet(Mine(j))
    BY CatalogueRowsFinite DEF Fresh
  <2>4. IsFiniteSet(Mine(j)')
    <3>1. Mine(j)' = Mine(j) \cup new
      BY <2>2 DEF Mine
    <3> HIDE DEF new
    <3> QED
      BY <2>3, <3>1, FS_Union
  <2> QED
    BY <2>2, <2>4 DEF Fresh, NoMetrics
<1>3. CASE HistoryOk(j)
  <2>1. PICK i \in plan[j].todo, h \in Histories :
          IsNext(j, i) /\ FinishFund(j, i, HistoryRows(j, records[j][i].fund, h))
    BY <1>3 DEF HistoryOk
  <2> DEFINE new == HistoryRows(j, records[j][i].fund, h)
  <2>2. records[j][i].fund \in Funds
    BY <1>0, FundOfTodo
  <2>3. /\ new \in SUBSET Row /\ IsFiniteSet(new)
        /\ \A r \in new : r.fund = records[j][i].fund
    <3>1. run[j] \in Nat
      BY <1>0 DEF TypeInv, TypeOK
    <3>2. \A r \in new : r.fund = records[j][i].fund
      BY DEF HistoryRows
    <3> QED
      BY <2>2, <3>1, <3>2, HistoryRowsType, HistoryRowsFinite
  <2>4. pc[j] = "history" /\ UNCHANGED holder
    BY <1>3, <2>1 DEF HistoryOk, IsNext
  <2> HIDE DEF new
  <2>5. FinishFund(j, i, new)
    BY <2>1 DEF new
  <2> QED
    BY <1>0, <1>1, <2>3, <2>4, <2>5, FinishFundFresh
<1>4. CASE HistoryGivesUp(j)
  <2>1. PICK i \in plan[j].todo : IsNext(j, i) /\ FinishFund(j, i, {})
    BY <1>4 DEF HistoryGivesUp
  <2>2. pc[j] = "history" /\ UNCHANGED holder
    BY <1>4, <2>1 DEF HistoryGivesUp, IsNext
  <2>3. IsFiniteSet({}) /\ {} \in SUBSET Row
    BY FS_EmptySet
  <2> QED
    BY <1>0, <1>1, <2>1, <2>2, <2>3, FinishFundFresh
<1>5. ASSUME /\ txn'[j].flushed = txn[j].flushed /\ txn'[j].pending = txn[j].pending
             /\ txn'[j].metrics = txn[j].metrics
             /\ pc[j] \in {"history", "commit", "rollback"} => pc'[j] \in {"history", "commit", "rollback"}
      PROVE  Fresh(j)'
  <2>1. Mine(j)' = Mine(j)
    BY <1>5 DEF Mine
  <2>2. \A f : NavOf(rows \cup Mine(j), f)' = NavOf(rows \cup Mine(j), f)
    BY <1>1, <2>1 DEF NavOf
  <2>3. holder = j => holder' = j
    BY <1>0, InsideHolder, JobsAssumption
  <2> QED
    BY <1>5, <2>1, <2>2, <2>3 DEF Fresh
<1>6. CASE LoadSource(j) \/ FindFund(j)
  <2>1. /\ txn'[j].flushed = txn[j].flushed /\ txn'[j].pending = txn[j].pending
        /\ txn'[j].metrics = txn[j].metrics
    BY <1>1, <1>6 DEF LoadSource, FindFund, Txn
  <2>2. pc[j] \in {"source", "find"}
    BY <1>6 DEF LoadSource, FindFund
  <2> QED
    BY <1>5, <2>1, <2>2
<1>7. CASE UNCHANGED txn
  <2>1. pc[j] \in {"history", "commit", "rollback"} => pc'[j] \in {"history", "commit", "rollback"}
    BY <1>0, <1>1, <1>7, <1>3, <1>4
       DEF Inside, Catalogue, History, FetchOk, FetchRetry, FetchGivesUp, LoadSource, InsertSource,
           InsertConflicts, FindFund, UpsertRecord, UpsertConflicts, MayWriteSource, PlanHistory,
           HistoryRetry, HistoryOk, HistoryGivesUp, FinishFund, StepRaises, Goto
  <2> QED
    BY <1>5, <1>7, <2>1
<1> QED
  BY <1>2, <1>3, <1>4, <1>6, <1>7
     DEF Inside, Catalogue, History, FetchOk, FetchRetry, FetchGivesUp, InsertSource,
         InsertConflicts, UpsertConflicts, PlanHistory, HistoryRetry, StepRaises

\* A job whose session is left alone stays fresh as long as the rows do.
LEMMA OthersFresh ==
    ASSUME SafeInv, NEW k \in Jobs, Fresh(k), pc'[k] = pc[k], txn'[k] = txn[k],
           holder = k => holder' = k, UNCHANGED rows \/ holder # k
    PROVE  Fresh(k)'
<1>1. Mine(k)' = Mine(k)
  BY DEF Mine
<1>2. ASSUME NEW f \in Funds, txn'[k].metrics[f] # {}
      PROVE  /\ holder' = k
             /\ Cardinality(txn'[k].metrics[f]) >= 2
             /\ txn'[k].metrics[f] = NavOf(rows \cup Mine(k), f)'
  <2>1. holder = k /\ UNCHANGED rows
    BY <1>2 DEF Fresh
  <2> QED
    BY <1>1, <1>2, <2>1 DEF Fresh, NavOf
<1> QED
  BY <1>1, <1>2 DEF Fresh

LEMMA EmptyFresh ==
    ASSUME NEW k \in Jobs, txn'[k] = NoTxn
    PROVE  Fresh(k)'
<1>1. Mine(k)' = {}
  BY DEF Mine, NoTxn
<1>2. \A f \in Funds : txn'[k].metrics[f] = {}
  BY DEF NoTxn, NoMetrics
<1> QED
  BY <1>1, <1>2, FS_EmptySet DEF Fresh, NoTxn

LEMMA FreshStep == SafeInv /\ FreshInv /\ [Next]_vars => FreshInv'
<1> SUFFICES ASSUME SafeInv, FreshInv, [Next]_vars PROVE FreshInv'
  OBVIOUS
<1>0. TypeInv /\ Held /\ OneWriter /\ \A k \in Jobs : Fresh(k)
  BY DEF SafeInv, FreshInv
<1> USE DEF FreshInv
<1>1. ASSUME UNCHANGED <<rows, txn, holder>>, NEW j \in Jobs,
             pc'[j] \notin {"history", "commit", "rollback"} => txn[j].metrics = NoMetrics,
             \A k \in Jobs \ {j} : pc'[k] = pc[k]
      PROVE  FreshInv'
  <2>1. \A k \in Jobs \ {j} : Fresh(k)'
    BY <1>0, <1>1, OthersFresh
  <2>2. Fresh(j)'
    BY <1>0, <1>1 DEF Fresh, Mine, NavOf
  <2> QED
    BY <1>1, <2>1, <2>2
<1>2. ASSUME NEW j \in Jobs,
             Call(j) \/ StartRun(j) \/ StartRunFails(j) \/ ReportError(j) \/ ReportFails(j) \/ Release(j)
      PROVE  FreshInv'
  <2>1. /\ UNCHANGED <<rows, txn, holder>> /\ \A k \in Jobs \ {j} : pc'[k] = pc[k]
        /\ pc[j] \in {"idle", "start", "report", "release"}
    BY <1>0, <1>2 DEF Call, Acquire, RefuseOverlap, StartRun, StartRunFails, ReportError, ReportFails,
       Release, Goto, database, TypeInv, TypeOK
  <2>2. txn[j].metrics = NoMetrics
    BY <1>0, <2>1 DEF Fresh
  <2> QED
    BY <1>1, <2>1, <2>2
<1>3. ASSUME NEW j \in Jobs, Inside(j) PROVE FreshInv'
  <2>1. UNCHANGED rows
    BY <1>0, <1>3, InsideFrame DEF database
  <2>2. \A k \in Jobs \ {j} : Fresh(k)'
    BY <1>0, <1>3, <2>1, InsideOthers, OthersFresh
  <2> QED
    BY <1>3, <2>1, <2>2, InsideFresh
<1>4. ASSUME NEW j \in Jobs, Commit(j) \/ Rollback(j) PROVE FreshInv'
  <2>1. EndTransaction(j) /\ (rows' = rows \cup Mine(j) \/ UNCHANGED rows)
        /\ \A k \in Jobs \ {j} : pc'[k] = pc[k]
    BY <1>0, <1>4 DEF Commit, CommittedRows, Rollback, database, Goto, TypeInv, TypeOK
  <2>2. IsFiniteSet(rows')
    BY <2>1, FS_Union DEF Fresh
  <2>3. /\ txn'[j] = NoTxn
        /\ \A k \in Jobs \ {j} : txn'[k] = txn[k] /\ (holder = k => holder' = k)
    BY <1>0, <2>1, EndTransactionFrame
  <2>4. UNCHANGED rows \/ holder = j
    BY <1>0, <2>1 DEF OneWriter
  <2>5. ASSUME NEW k \in Jobs \ {j} PROVE Fresh(k)'
    BY <1>0, <2>1, <2>3, <2>4, OthersFresh
  <2> QED
    BY <2>2, <2>3, <2>5, EmptyFresh
<1>5. ASSUME NEW p \in Processes, Crash(p) PROVE FreshInv'
  <2>1. UNCHANGED rows
    BY <1>5 DEF Crash, database
  <2>2. ASSUME NEW k \in Jobs PROVE Fresh(k)'
    <3>1. \/ txn'[k] = NoTxn
          \/ txn'[k] = txn[k] /\ pc'[k] = pc[k] /\ (holder = k => holder' = k)
      BY <1>0, <1>5, CrashFrame
    <3> QED
      BY <1>0, <2>1, <3>1, EmptyFresh, OthersFresh
  <2> QED
    BY <2>1, <2>2
<1>6. CASE UNCHANGED vars
  <2>1. UNCHANGED <<rows, txn, holder, pc>>
    BY <1>6 DEF vars, database
  <2> QED
    BY <1>0, <2>1, OthersFresh
<1> QED
  BY <1>2, <1>3, <1>4, <1>5, <1>6
     DEF Next, Step, Fault, End, Inside, Finished

LEMMA FreshInvariant == Spec => []FreshInv
<1>1. Init => FreshInv
  <2> SUFFICES ASSUME Init PROVE FreshInv
    OBVIOUS
  <2>1. rows = {} /\ \A j \in Jobs : txn[j] = NoTxn
    BY DEF Init
  <2>2. \A j \in Jobs : Mine(j) = {} /\ \A f \in Funds : txn[j].metrics[f] = {}
    BY <2>1 DEF Mine, NoTxn, NoMetrics
  <2> QED
    BY <2>1, <2>2, FS_EmptySet DEF FreshInv, Fresh, NoTxn
<1> QED
  BY <1>1, SafeInvariant, FreshStep, PTL DEF Spec

\* Metrics are replaced by a commit alone, with those computed from all the rows
\* the fund has afterwards.
LEMMA MetricsStep ==
    ASSUME SafeInv, FreshInv, [Next]_vars, NEW f \in Funds, metrics'[f] # metrics[f]
    PROVE  metrics'[f] = NavOf(rows', f)
<1>1. ASSUME NEW j \in Jobs, Commit(j)
      PROVE  metrics'[f] = NavOf(rows', f)
  <2>1. /\ rows' = rows \cup Mine(j)
        /\ metrics'[f] = IF txn[j].metrics[f] = {} THEN metrics[f] ELSE txn[j].metrics[f]
    BY <1>1 DEF Commit, CommittedRows
  <2> QED
    BY <2>1 DEF FreshInv, Fresh
<1>2. ASSUME NEW j \in Jobs, Inside(j)
      PROVE  UNCHANGED metrics
  BY <1>2, InsideFrame DEF SafeInv, database
<1> QED
  BY <1>1, <1>2
     DEF Next, Call, Acquire, RefuseOverlap, Step, StartRun, Fault, StartRunFails, End, Rollback,
         ReportError, ReportFails, Release, Crash, Inside, Finished, vars, database

\* Whenever a refresh replaces metrics, they are computed from every NAV row the
\* fund then has, its own commit included.
THEOREM MetricsComplete == Spec => MetricsFresh
<1>1. SafeInv /\ FreshInv /\ [Next]_vars =>
        [\A f \in Funds : metrics'[f] # metrics[f] => metrics'[f] = NavOf(rows', f)]_vars
  BY MetricsStep
<1> QED
  BY <1>1, SafeInvariant, FreshInvariant, PTL DEF Spec, MetricsFresh

(***************************************************************************)
(* The record count of the source.                                         *)
(***************************************************************************)
\* The sums that CountExact takes over the runs.
RunSums(g, table) ==
    /\ g \in [0..Len(table) -> Nat]
    /\ g[0] = 0
    /\ \A n \in 1..Len(table) : g[n] = g[n - 1] + table[n].written

\* A session that has loaded the count and is going to write it.
Counts(j) ==
    pc[j] \in {"insert", "find", "upsert", "plan", "history", "commit"} /\ records[j] # <<>>
\* What it has loaded: it has added one for every record since.
Loaded(j) == txn[j].count - (next[j] - 1)
\* No session loads the count while another one is going to write it.
OneCounter == \A j, k \in Jobs : Counts(j) /\ Counts(k) => j = k

\* At the end every record is counted; the run of a job at work has none so far.
Counting(j) ==
    /\ Counts(j) /\ pc[j] \in {"plan", "history", "commit"} => next[j] = Len(records[j]) + 1
    /\ pc[j] \in Working => runs[run[j]].written = 0

\* The sums are the function CountExact defines: by induction on the runs.
LEMMA SumsUnique ==
    ASSUME NEW table, Len(table) \in Nat, NEW g, RunSums(g, table), NEW t,
           t = [n \in 0..Len(table) |-> IF n = 0 THEN 0 ELSE t[n - 1] + table[n].written]
    PROVE  t = g
<1> DEFINE N == Len(table)
           S == {n \in Nat : n <= N => t[n] = g[n]}
<1>1. N \in Nat /\ DOMAIN t = 0..N /\ DOMAIN g = 0..N
  BY DEF RunSums
<1>2. 0 \in S
  <2>1. 0 \in 0..N
    BY <1>1
  <2>2. t[0] = 0
    BY <2>1
  <2> QED
    BY <2>2 DEF RunSums
<1>3. ASSUME NEW n \in S \cap Nat
      PROVE  n + 1 \in S
  <2>1. CASE n + 1 <= N
    <3>1. n + 1 \in 0..N /\ n + 1 \in 1..N /\ n + 1 # 0 /\ (n + 1) - 1 = n /\ n <= N
      BY <1>1, <2>1
    <3>2. t[n + 1] = t[n] + table[n + 1].written
      BY <3>1
    <3>3. g[n + 1] = g[n] + table[n + 1].written
      BY <3>1 DEF RunSums
    <3>4. t[n] = g[n]
      BY <3>1
    <3> QED
      BY <3>2, <3>3, <3>4
  <2>2. CASE ~(n + 1 <= N)
    BY <2>2
  <2> QED
    BY <2>1, <2>2
<1>4. Nat \subseteq S
  <2> HIDE DEF S
  <2> QED
    BY <1>2, <1>3, SetInduction
<1>5. \A n \in 0..N : t[n] = g[n]
  BY <1>1, <1>4
<1>6. t = [n \in 0..N |-> t[n]] /\ g = [n \in 0..N |-> g[n]]
  BY DEF RunSums
<1> QED
  BY <1>5, <1>6

LEMMA SumsTotal ==
    ASSUME TypeOK, NEW g, RunSums(g, runs)
    PROVE  g = CHOOSE t : t = [n \in 0..Len(runs) |->
                                  IF n = 0 THEN 0 ELSE t[n - 1] + runs[n].written]
<1> DEFINE Step1(t, n) == IF n = 0 THEN 0 ELSE t[n - 1] + runs[n].written
           total == CHOOSE t : t = [n \in 0..Len(runs) |-> Step1(t, n)]
<1>1. Len(runs) \in Nat
  BY DEF TypeOK
<1>2. g = [n \in 0..Len(runs) |-> Step1(g, n)]
  <2>1. \A n \in 0..Len(runs) : g[n] = Step1(g, n)
    BY <1>1 DEF RunSums
  <2>2. g = [n \in 0..Len(runs) |-> g[n]]
    BY DEF RunSums
  <2> QED
    BY <2>1, <2>2
<1>3. total = [n \in 0..Len(runs) |-> Step1(total, n)]
  BY <1>2
<1>4. total = g
  BY <1>1, <1>3, SumsUnique
<1> QED
  BY <1>4

LEMMA SumsGiveCount ==
    ASSUME TypeOK, NEW g, RunSums(g, runs), source.count = g[Len(runs)]
    PROVE  CountExact
<1> DEFINE total == CHOOSE t : t = [n \in 0..Len(runs) |->
                                       IF n = 0 THEN 0 ELSE t[n - 1] + runs[n].written]
<1>1. total = g
  BY SumsTotal
<1>2. source.count = total[Len(runs)]
  BY <1>1
<1> QED
  BY <1>2 DEF CountExact

\* A run that starts adds nothing.
LEMMA SumsAppend ==
    ASSUME runs \in Seq(IngestionRun), NEW g, RunSums(g, runs), NEW row, row.written = 0
    PROVE  \E h : RunSums(h, Append(runs, row)) /\ h[Len(runs) + 1] = g[Len(runs)]
<1> DEFINE N == Len(runs)
           h == [n \in 0..(N + 1) |-> IF n = N + 1 THEN g[N] ELSE g[n]]
<1>1. N \in Nat /\ Len(Append(runs, row)) = N + 1 /\ Append(runs, row)[N + 1] = row
      /\ \A n \in 1..N : Append(runs, row)[n] = runs[n]
  OBVIOUS
<1>2. g \in [0..N -> Nat] /\ g[0] = 0 /\ \A n \in 1..N : g[n] = g[n - 1] + runs[n].written
  BY DEF RunSums
<1>3. h \in [0..(N + 1) -> Nat] /\ h[0] = 0 /\ h[N + 1] = g[N] /\ \A n \in 0..N : h[n] = g[n]
  BY <1>1, <1>2
<1>4. ASSUME NEW n \in 1..(N + 1)
      PROVE  h[n] = h[n - 1] + Append(runs, row)[n].written
  <2>1. CASE n = N + 1
    <3>1. n - 1 = N /\ N \in 0..N /\ g[N] \in Nat
      BY <1>1, <1>2, <2>1
    <3>2. h[n] = g[N] /\ h[n - 1] = g[N]
      BY <1>3, <2>1, <3>1
    <3> QED
      BY <1>1, <2>1, <3>1, <3>2
  <2>2. CASE n # N + 1
    <3>1. n \in 1..N /\ n \in 0..N /\ n - 1 \in 0..N
      BY <1>1, <2>2
    <3> QED
      BY <1>1, <1>2, <1>3, <3>1
  <2> QED
    BY <2>1, <2>2
<1> HIDE DEF h
<1> QED
  BY <1>1, <1>3, <1>4 DEF RunSums

\* A run that ends adds what it writes.
LEMMA SumsMove ==
    ASSUME NEW old \in Seq(IngestionRun), NEW new \in Seq(IngestionRun), NEW m \in 1..Len(old),
           Len(new) = Len(old), \A n \in 1..Len(old) : n # m => new[n] = old[n],
           old[m].written = 0, NEW g, RunSums(g, old)
    PROVE  \E h : /\ RunSums(h, new)
                  /\ h[Len(old)] = g[Len(old)] + new[m].written
<1> DEFINE N == Len(old)
           w == new[m].written
           h == [n \in 0..N |-> IF n < m THEN g[n] ELSE g[n] + w]
<1>1. N \in Nat /\ m \in 1..N /\ m - 1 \in 0..N
  OBVIOUS
<1>2. g \in [0..N -> Nat] /\ g[0] = 0 /\ \A n \in 1..N : g[n] = g[n - 1] + old[n].written
  BY DEF RunSums
<1>3. w \in Nat
  <2>1. new[m] \in IngestionRun
    BY <1>1
  <2> QED
    BY <2>1 DEF IngestionRun
<1> HIDE DEF w
<1>4. /\ h \in [0..N -> Nat] /\ h[0] = 0 /\ h[N] = g[N] + w
      /\ \A n \in 0..N : h[n] = IF n < m THEN g[n] ELSE g[n] + w
  BY <1>1, <1>2, <1>3
<1> HIDE DEF h
<1>5. ASSUME NEW n \in 1..N
      PROVE  h[n] = h[n - 1] + new[n].written
  <2>1. n \in 0..N /\ n - 1 \in 0..N /\ g[n] \in Nat /\ g[n - 1] \in Nat
    BY <1>1, <1>2
  <2>2. CASE n = m
    <3>1. g[n] = g[n - 1] + 0
      BY <1>2, <2>2
    <3>2. h[n] = g[n] + w /\ h[n - 1] = g[n - 1]
      BY <1>1, <1>4, <2>1, <2>2
    <3> QED
      BY <1>3, <2>1, <2>2, <3>1, <3>2 DEF w
  <2>3. CASE n < m
    <3>1. h[n] = g[n] /\ h[n - 1] = g[n - 1] /\ new[n] = old[n]
      BY <1>1, <1>4, <2>1, <2>3
    <3> QED
      BY <1>2, <3>1
  <2>4. CASE n > m
    <3>1. h[n] = g[n] + w /\ h[n - 1] = g[n - 1] + w /\ new[n] = old[n]
      BY <1>1, <1>4, <2>1, <2>4
    <3>2. old[n].written \in Nat
      <4>1. old[n] \in IngestionRun
        OBVIOUS
      <4> QED
        BY <4>1 DEF IngestionRun
    <3> QED
      BY <1>2, <1>3, <2>1, <3>1, <3>2
  <2> QED
    BY <1>1, <2>2, <2>3, <2>4
<1> QED
  BY <1>1, <1>4, <1>5 DEF RunSums, w

(***************************************************************************)
(* A step keeps what a session has loaded, lets it load, or writes it.     *)
(***************************************************************************)
Unmoved(k) == Counts(k)' => Counts(k) /\ Loaded(k)' = Loaded(k)
Loads(k) == Counts(k)' => Loaded(k)' = source.count
Same(k) == pc'[k] = pc[k] /\ records'[k] = records[k] /\ next'[k] = next[k] /\ txn'[k] = txn[k]

LEMMA SameCounts ==
    ASSUME NEW k \in Jobs, Counting(k), Same(k) \/ pc'[k] \in {"idle", "start", "release", "report"},
           pc'[k] \in Working => run'[k] = run[k] /\ pc[k] \in Working
                                 /\ runs'[run[k]].written = runs[run[k]].written
    PROVE  Counting(k)' /\ Unmoved(k)
<1>1. CASE Same(k)
  <2>1. Counts(k)' = Counts(k) /\ Loaded(k)' = Loaded(k)
    BY <1>1 DEF Same, Counts, Loaded
  <2> QED
    BY <1>1, <2>1 DEF Same, Counting, Unmoved
<1>2. CASE pc'[k] \in {"idle", "start", "release", "report"}
  <2>1. ~Counts(k)'
    BY <1>2 DEF Counts
  <2> QED
    BY <1>2, <2>1 DEF Counting, Unmoved
<1> QED
  BY <1>1, <1>2

\* Inside the try block the count goes with the records.
LEMMA InsideCounts ==
    ASSUME TypeInv, NEW j \in Jobs, Counting(j), Inside(j)
    PROVE  Counting(j)' /\ (Unmoved(j) \/ Loads(j))
<1> USE DEF Working, InTry
<1>0. /\ UNCHANGED <<runs, run, source>> /\ pc[j] \in InTry /\ pc'[j] \in InTry \cup {"rollback"}
      /\ txn[j] \in Txn /\ txn \in [Jobs -> Txn] /\ pc \in [Jobs -> Located]
      /\ records \in [Jobs -> Seq(CatalogueRecord)] /\ next \in [Jobs -> Nat] /\ next[j] \in Nat
      /\ source.count \in Nat
  BY InsideFrame DEF database, TypeInv, TypeOK
<1>1. runs'[run'[j]].written = 0
  BY <1>0 DEF Counting
<1>2. ASSUME ~Counts(j)'
      PROVE  Counting(j)' /\ (Unmoved(j) \/ Loads(j))
  BY <1>1, <1>2 DEF Counting, Unmoved
<1>3. ASSUME pc'[j] = "rollback"
      PROVE  Counting(j)' /\ (Unmoved(j) \/ Loads(j))
  <2>1. ~Counts(j)'
    BY <1>3 DEF Counts
  <2> QED
    BY <1>2, <2>1
<1>4. CASE FetchOk(j)
  <2>1. PICK c \in Catalogues :
          /\ records' = [records EXCEPT ![j] = c]
          /\ Goto(j, IF c = <<>> THEN AfterCatalogue ELSE "source")
    BY <1>4 DEF FetchOk
  <2>2. pc'[j] = "source" \/ records'[j] = <<>>
    BY <1>0, <2>1 DEF Goto
  <2>3. ~Counts(j)'
    BY <2>2 DEF Counts
  <2> QED
    BY <1>2, <2>3
<1>5. CASE FetchRetry(j)
  <2>1. ~Counts(j)'
    BY <1>0, <1>5 DEF FetchRetry, Counts
  <2> QED
    BY <1>2, <2>1
<1>6. CASE LoadSource(j)
  <2>1. txn'[j].count = source.count /\ next'[j] = 1 /\ pc'[j] \in {"find", "insert"}
    BY <1>0, <1>6 DEF LoadSource, Goto, TypeInv, Indexed, Txn
  <2>2. Loaded(j)' = source.count - (1 - 1)
    BY <2>1 DEF Loaded
  <2> QED
    BY <1>0, <1>1, <2>1, <2>2 DEF Counting, Loads
<1>7. ASSUME txn'[j].count = txn[j].count, UNCHANGED <<records, next>>,
             \/ pc[j] = "insert" /\ pc'[j] = "find"
             \/ pc[j] = "find" /\ pc'[j] = "upsert"
             \/ pc[j] \in {"plan", "history"} /\ pc'[j] \in {"history", "commit"}
      PROVE  Counting(j)' /\ (Unmoved(j) \/ Loads(j))
  <2>1. Counts(j)' = Counts(j) /\ Loaded(j)' = Loaded(j)
    BY <1>7 DEF Counts, Loaded
  <2> QED
    BY <1>1, <1>7, <2>1 DEF Counting, Unmoved
<1>8. CASE InsertSource(j)
  BY <1>0, <1>7, <1>8 DEF InsertSource, Goto
<1>9. CASE FindFund(j)
  <2>1. txn'[j].count = txn[j].count
    BY <1>0, <1>9 DEF FindFund, Txn
  <2> QED
    BY <1>0, <1>7, <1>9, <2>1 DEF FindFund, Goto
<1>10. CASE UpsertRecord(j)
  <2>1. /\ pc[j] = "upsert" /\ next[j] \in 1..Len(records[j]) /\ records[j] # <<>>
        /\ Len(records[j]) \in Nat
    BY <1>0, <1>10 DEF UpsertRecord, MayWriteSource, TypeInv, Indexed, InCatalogue
  <2>2. /\ txn'[j].count = txn[j].count + 1 /\ next'[j] = next[j] + 1 /\ records' = records
        /\ txn[j].count \in Nat
    BY <1>0, <1>10 DEF UpsertRecord, AfterRecord, Txn
  <2>3. pc'[j] = IF next[j] < Len(records[j]) THEN "find" ELSE AfterCatalogue
    BY <1>0, <1>10 DEF UpsertRecord, Goto
  <2>4. Loaded(j)' = Loaded(j)
    <3>1. \A m, n \in Nat : (m + 1) - ((n + 1) - 1) = m - (n - 1)
      OBVIOUS
    <3>2. Loaded(j)' = (txn[j].count + 1) - ((next[j] + 1) - 1)
      BY <2>2 DEF Loaded
    <3> QED
      BY <1>0, <2>2, <3>1, <3>2 DEF Loaded
  <2>5. pc'[j] \in {"plan", "history", "commit"} => next'[j] = Len(records'[j]) + 1
    BY <2>1, <2>2, <2>3
  <2>6. Counts(j)
    BY <2>1 DEF Counts
  <2> QED
    BY <1>1, <2>4, <2>5, <2>6 DEF Counting, Unmoved
<1>11. CASE PlanHistory(j)
  BY <1>0, <1>7, <1>11 DEF PlanHistory, Goto
<1>12. CASE HistoryOk(j) \/ HistoryGivesUp(j)
  <2>1. PICK i \in plan[j].todo : IsNext(j, i) /\ \E new : FinishFund(j, i, new)
    BY <1>12 DEF HistoryOk, HistoryGivesUp
  <2>2. txn'[j].count = txn[j].count
    BY <1>0, <2>1 DEF FinishFund, AfterFund, Txn
  <2>3. pc[j] = "history" /\ pc'[j] \in {"history", "commit"} /\ UNCHANGED <<records, next>>
    BY <1>0, <1>12, <2>1 DEF FinishFund, IsNext, Goto, HistoryOk, HistoryGivesUp
  <2> QED
    BY <1>7, <2>2, <2>3
<1>13. CASE HistoryRetry(j)
  <2>1. Same(j)
    BY <1>13 DEF HistoryRetry, Same
  <2> QED
    BY <1>0, <1>1, <2>1, SameCounts DEF Counting
<1>14. ASSUME FetchGivesUp(j) \/ InsertConflicts(j) \/ UpsertConflicts(j) \/ StepRaises(j)
       PROVE  pc'[j] = "rollback"
  BY <1>0, <1>14 DEF FetchGivesUp, InsertConflicts, UpsertConflicts, StepRaises, Goto
<1> QED
  BY <1>3, <1>4, <1>5, <1>6, <1>8, <1>9, <1>10, <1>11, <1>12, <1>13, <1>14
     DEF Inside, Catalogue, History

\* Either the count and the sums stay, or a run ends, which writes what its session
\* has loaded and its records to the one, and its records to the other.
NoneEnds(g, h) ==
    /\ h[Len(runs')] = g[Len(runs)] /\ source'.count = source.count
    /\ \A k \in Jobs : Unmoved(k) \/ Loads(k)
Ends(j, g, h) ==
    /\ h[Len(runs')] = g[Len(runs)] + Len(records[j])
    /\ records[j] = <<>> => source'.count = source.count
    /\ records[j] # <<>> => Counts(j) /\ source'.count = Loaded(j) + Len(records[j])
    /\ \A k \in Jobs : Unmoved(k) /\ (Counts(k)' => k # j)

LEMMA CommitCounts ==
    ASSUME SafeInv, \A k \in Jobs : Counting(k), NEW j \in Jobs, Commit(j),
           NEW g, RunSums(g, runs)
    PROVE  /\ \A k \in Jobs : Counting(k)'
           /\ \E h : RunSums(h, runs') /\ Ends(j, g, h)
<1> USE DEF Working, InTry, Goto
<1> DEFINE row == [status |-> "success", written |-> Len(records[j])]
<1>0. TypeOK /\ TypeInv /\ Owned
  BY DEF SafeInv, TypeInv
<1>1. /\ pc[j] = "commit" /\ pc'[j] = "release" /\ \A k \in Jobs \ {j} : pc'[k] = pc[k]
      /\ runs' = [runs EXCEPT ![run[j]] = row] /\ run' = run
      /\ source' = IF records[j] = <<>> THEN source ELSE CommittedSource(j)
      /\ \A k \in Jobs \ {j} : Same(k)
  BY <1>0 DEF Commit, TypeOK, EndTransaction, Same
<1>2. /\ run[j] \in 1..Len(runs) /\ runs[run[j]].written = 0
      /\ \A k \in Jobs \ {j} : pc[k] \in Working => run[k] # run[j] /\ run[k] \in 1..Len(runs)
  <2>1. DOMAIN runs = 1..Len(runs)
    BY <1>0 DEF TypeOK
  <2>2. pc[j] \in Working
    BY <1>1
  <2>3. run[j] \in DOMAIN runs /\ runs[run[j]].written = 0
    BY <1>0, <2>2 DEF Owned, Counting
  <2>4. \A k \in Jobs \ {j} : pc[k] \in Working => run[k] # run[j] /\ run[k] \in DOMAIN runs
    BY <1>0, <2>2 DEF Owned
  <2> QED
    BY <2>1, <2>3, <2>4
<1>3. /\ runs \in Seq(IngestionRun) /\ runs' \in Seq(IngestionRun) /\ Len(runs') = Len(runs)
      /\ runs'[run[j]] = row /\ \A n \in 1..Len(runs) : n # run[j] => runs'[n] = runs[n]
  <2>1. runs \in Seq(IngestionRun) /\ row \in IngestionRun
    BY <1>0 DEF TypeOK, IngestionRun
  <2> QED
    BY <1>1, <1>2, <2>1, RunsType
<1>4. PICK h : RunSums(h, runs') /\ h[Len(runs)] = g[Len(runs)] + Len(records[j])
  <2>1. \E h : RunSums(h, runs') /\ h[Len(runs)] = g[Len(runs)] + runs'[run[j]].written
    <3> HIDE DEF row
    <3> QED
      BY <1>2, <1>3, SumsMove, SMTT(40)
  <2>2. runs'[run[j]].written = Len(records[j])
    BY <1>3
  <2> QED
    BY <2>1, <2>2
<1>5. ASSUME NEW k \in Jobs
      PROVE  Counting(k)' /\ Unmoved(k) /\ (Counts(k)' => k # j)
  <2>1. CASE k = j
    <3>1. ~Counts(k)'
      BY <1>1, <2>1 DEF Counts
    <3> QED
      BY <1>1, <2>1, <3>1 DEF Counting, Unmoved
  <2>2. CASE k # j
    <3>1. Same(k)
      BY <1>1, <2>2
    <3>2. pc'[k] \in Working => run'[k] = run[k] /\ pc[k] \in Working
                                /\ runs'[run[k]].written = runs[run[k]].written
      BY <1>1, <1>2, <1>3, <2>2
    <3> QED
      BY <2>2, <3>1, <3>2, SameCounts
  <2> QED
    BY <2>1, <2>2
<1>6. records[j] # <<>> => Counts(j) /\ source'.count = Loaded(j) + Len(records[j])
  <2> SUFFICES ASSUME records[j] # <<>>
               PROVE  Counts(j) /\ source'.count = Loaded(j) + Len(records[j])
    OBVIOUS
  <2>1. Counts(j)
    BY <1>1 DEF Counts
  <2>2. next[j] = Len(records[j]) + 1 /\ source'.count = txn[j].count
    BY <1>1, <2>1 DEF Counting, CommittedSource
  <2>3. txn[j].count \in Nat /\ Len(records[j]) \in Nat
    <3>1. txn[j] \in Txn /\ records[j] \in Seq(CatalogueRecord)
      BY <1>0 DEF TypeOK
    <3> QED
      BY <3>1 DEF Txn
  <2>4. \A m, n \in Nat : m = (m - ((n + 1) - 1)) + n
    OBVIOUS
  <2> QED
    BY <2>1, <2>2, <2>3, <2>4 DEF Loaded
<1>7. Ends(j, g, h)
  BY <1>1, <1>3, <1>4, <1>5, <1>6 DEF Ends
<1> QED
  BY <1>4, <1>5, <1>7

\* A step inside the try block of j leaves what the others have read.
LEMMA InsideSessions ==
    ASSUME TypeInv, NEW j \in Jobs, Inside(j), NEW k \in Jobs \ {j}
    PROVE  records'[k] = records[k] /\ next'[k] = next[k] /\ txn'[k] = txn[k]
<1> USE DEF TypeInv, TypeOK
<1>1. txn'[k] = txn[k]
  BY InsideOthers
<1>2. CASE Catalogue(j)
  BY <1>1, <1>2 DEF Catalogue, FetchOk, FetchRetry, FetchGivesUp, LoadSource, InsertSource,
              InsertConflicts, FindFund, UpsertRecord, UpsertConflicts
<1>3. CASE History(j)
  BY <1>1, <1>3 DEF History, PlanHistory, HistoryOk, HistoryRetry, HistoryGivesUp, FinishFund
<1>4. CASE StepRaises(j)
  BY <1>1, <1>4 DEF StepRaises
<1> QED
  BY <1>2, <1>3, <1>4 DEF Inside

LEMMA CountMoves ==
    ASSUME SafeInv, \A k \in Jobs : Counting(k), [Next]_vars, NEW g, RunSums(g, runs)
    PROVE  /\ \A k \in Jobs : Counting(k)'
           /\ \E h : RunSums(h, runs') /\ (NoneEnds(g, h) \/ \E j \in Jobs : Ends(j, g, h))
<1> USE DEF Working, InTry, Goto
<1> DEFINE Goal == /\ \A k \in Jobs : Counting(k)'
                   /\ \E h : RunSums(h, runs') /\ (NoneEnds(g, h) \/ \E j \in Jobs : Ends(j, g, h))
<1>0. TypeInv /\ TypeOK /\ Owned
  BY DEF SafeInv, TypeInv
<1>1. ASSUME UNCHANGED <<runs, source>>, \A k \in Jobs : Counting(k)' /\ (Unmoved(k) \/ Loads(k))
      PROVE  Goal
  <2>1. RunSums(g, runs') /\ NoneEnds(g, g)
    BY <1>1 DEF NoneEnds
  <2> QED
    BY <1>1, <2>1
<1>2. ASSUME UNCHANGED <<runs, source>>,
             \A k \in Jobs : /\ Same(k) \/ pc'[k] \in {"idle", "start", "release", "report"}
                             /\ pc'[k] \in Working => run'[k] = run[k] /\ pc[k] \in Working
      PROVE  Goal
  <2>1. ASSUME NEW k \in Jobs
        PROVE  Counting(k)' /\ Unmoved(k)
    BY <1>2, SameCounts
  <2> QED
    BY <1>1, <1>2, <2>1
<1>3. ASSUME NEW j \in Jobs, Call(j) \/ StartRunFails(j) \/ ReportFails(j) \/ Release(j)
      PROVE  Goal
  <2>1. /\ UNCHANGED <<runs, source, records, next, txn>>
        /\ pc'[j] \in {"idle", "start", "release"} \/ UNCHANGED <<pc, run>>
        /\ \A k \in Jobs \ {j} : pc'[k] = pc[k] /\ run'[k] = run[k]
    BY <1>0, <1>3 DEF Call, Acquire, RefuseOverlap, StartRunFails, ReportFails, Release, database, TypeOK
  <2> HIDE DEF Goal
  <2> QED
    BY <1>2, <2>1 DEF Same
<1>4. ASSUME NEW j \in Jobs, StartRun(j)
      PROVE  Goal
  <2> DEFINE row == [status |-> "running", written |-> 0]
  <2>1. /\ runs' = Append(runs, row) /\ run'[j] = Len(runs) + 1 /\ pc'[j] = "fetch"
        /\ UNCHANGED source /\ \A k \in Jobs \ {j} : Same(k) /\ run'[k] = run[k]
    BY <1>0, <1>4 DEF StartRun, TypeOK, Same
  <2>2. /\ runs \in Seq(IngestionRun) /\ Len(runs') = Len(runs) + 1
        /\ runs'[Len(runs) + 1] = row /\ \A n \in DOMAIN runs : runs'[n] = runs[n]
    BY <1>0, <2>1 DEF TypeOK
  <2>3. PICK h : RunSums(h, runs') /\ h[Len(runs')] = g[Len(runs)]
    BY <2>1, <2>2, SumsAppend
  <2>4. ASSUME NEW k \in Jobs
        PROVE  Counting(k)' /\ Unmoved(k)
    <3>1. CASE k = j
      <4>1. ~Counts(k)'
        BY <2>1, <3>1 DEF Counts
      <4> QED
        BY <2>1, <2>2, <3>1, <4>1 DEF Counting, Unmoved
    <3>2. CASE k # j
      <4>1. Same(k) /\ run'[k] = run[k]
        BY <2>1, <3>2
      <4>2. pc[k] \in Working => runs'[run[k]].written = runs[run[k]].written
        BY <1>0, <2>2 DEF Owned
      <4> QED
        BY <4>1, <4>2, SameCounts DEF Same
    <3> QED
      BY <3>1, <3>2
  <2>5. NoneEnds(g, h)
    BY <2>1, <2>3, <2>4 DEF NoneEnds
  <2> QED
    BY <2>3, <2>4, <2>5
<1>5. ASSUME NEW j \in Jobs, Inside(j)
      PROVE  Goal
  <2>1. UNCHANGED <<runs, source, run>> /\ \A k \in Jobs \ {j} : pc'[k] = pc[k]
    BY <1>0, <1>5, InsideFrame DEF database
  <2>2. ASSUME NEW k \in Jobs \ {j}
        PROVE  records'[k] = records[k] /\ next'[k] = next[k] /\ txn'[k] = txn[k]
    BY <1>0, <1>5, InsideSessions
  <2>3. ASSUME NEW k \in Jobs \ {j}
        PROVE  Counting(k)' /\ Unmoved(k)
    <3>1. Same(k)
      BY <2>1, <2>2 DEF Same
    <3> QED
      BY <2>1, <3>1, SameCounts DEF Same
  <2>4. Counting(j)' /\ (Unmoved(j) \/ Loads(j))
    BY <1>0, <1>5, InsideCounts
  <2> HIDE DEF Goal
  <2> QED
    BY <1>1, <2>1, <2>3, <2>4
<1>6. ASSUME NEW j \in Jobs, Rollback(j)
      PROVE  Goal
  <2>1. /\ UNCHANGED <<runs, source, run>> /\ pc[j] = "rollback" /\ pc'[j] = "report"
        /\ \A k \in Jobs \ {j} : Same(k)
    BY <1>0, <1>6 DEF Rollback, database, TypeOK, EndTransaction, Same
  <2> HIDE DEF Goal
  <2> QED
    BY <1>2, <2>1 DEF Same
<1>7. ASSUME NEW j \in Jobs, ReportError(j)
      PROVE  Goal
  <2>1. /\ UNCHANGED <<source, run>> /\ pc[j] = "report" /\ pc'[j] = "release"
        /\ \A k \in Jobs \ {j} : Same(k)
        /\ runs' = [runs EXCEPT ![run[j]] = [runs[run[j]] EXCEPT !.status = "error"]]
    BY <1>0, <1>7 DEF ReportError, TypeOK, Same
  <2>2. run[j] \in DOMAIN runs
    BY <1>0, <2>1 DEF Owned
  <2>3. Len(runs') = Len(runs) /\ \A n \in DOMAIN runs : runs'[n].written = runs[n].written
    <3>1. runs \in Seq(IngestionRun) /\ runs[run[j]] \in IngestionRun
      BY <1>0, <2>2 DEF TypeOK
    <3>2. [runs[run[j]] EXCEPT !.status = "error"].written = runs[run[j]].written
      BY <3>1 DEF IngestionRun
    <3> QED
      BY <2>1, <2>2, <3>1, <3>2
  <2>4. DOMAIN runs = 1..Len(runs)
    BY <1>0 DEF TypeOK
  <2>5. RunSums(g, runs')
    BY <2>3, <2>4 DEF RunSums
  <2>6. ASSUME NEW k \in Jobs
        PROVE  Counting(k)' /\ Unmoved(k)
    <3>1. Same(k) \/ pc'[k] = "release"
      BY <2>1
    <3>2. pc'[k] \in Working => run'[k] = run[k] /\ pc[k] \in Working
                                /\ runs'[run[k]].written = runs[run[k]].written
      <4>1. pc'[k] \in Working => pc[k] \in Working
        BY <2>1 DEF Same
      <4>2. pc[k] \in Working => run[k] \in DOMAIN runs
        BY <1>0 DEF Owned
      <4> QED
        BY <2>1, <2>3, <4>1, <4>2
    <3> QED
      BY <3>1, <3>2, SameCounts
  <2>7. NoneEnds(g, g)
    BY <2>1, <2>3, <2>6 DEF NoneEnds
  <2> QED
    BY <2>5, <2>6, <2>7
<1>8. ASSUME NEW j \in Jobs, Commit(j)
      PROVE  Goal
  BY <1>8, CommitCounts
<1>9. ASSUME NEW p \in Processes, Crash(p)
      PROVE  Goal
  <2>1. UNCHANGED <<runs, source>>
    BY <1>9 DEF Crash, database
  <2>2. \A k \in Jobs : pc'[k] = "idle" \/ (Same(k) /\ run'[k] = run[k])
    BY <1>9 DEF Crash, Same
  <2> HIDE DEF Goal
  <2> QED
    BY <1>2, <2>1, <2>2 DEF Same
<1>10. ASSUME UNCHANGED vars
       PROVE  Goal
  <2>1. UNCHANGED <<runs, source, pc, run, records, next, txn>>
    BY <1>10 DEF vars, database
  <2> HIDE DEF Goal
  <2> QED
    BY <1>2, <2>1 DEF Same
<1> HIDE DEF Goal
<1>11. Goal
  BY <1>3, <1>4, <1>5, <1>6, <1>7, <1>8, <1>9, <1>10
     DEF Next, Step, Fault, End, Inside, Finished
<1> QED
  BY <1>11 DEF Goal

LEMMA NothingCounted ==
    ASSUME Init
    PROVE  /\ \A j \in Jobs : Counting(j) /\ ~Counts(j)
           /\ RunSums([n \in 0..0 |-> 0], runs) /\ Len(runs) = 0 /\ source.count = 0
<1>1. runs = <<>> /\ source.count = 0 /\ \A j \in Jobs : pc[j] = "idle"
  BY DEF Init
<1>2. RunSums([n \in 0..0 |-> 0], runs)
  BY <1>1 DEF RunSums
<1> QED
  BY <1>1, <1>2 DEF Counting, Counts, Working, InTry

\* What is loaded is a number, and so are the sums.
LEMMA CountTypes ==
    ASSUME TypeOK, NEW g, RunSums(g, runs)
    PROVE  /\ source.count \in Nat /\ g[Len(runs)] \in Nat
           /\ \A j \in Jobs : Loaded(j) \in Int /\ Len(records[j]) \in Nat
<1>1. source.count \in Nat /\ Len(runs) \in Nat
  BY DEF TypeOK
<1>2. g[Len(runs)] \in Nat
  BY <1>1 DEF RunSums
<1>3. ASSUME NEW j \in Jobs
      PROVE  Loaded(j) \in Int /\ Len(records[j]) \in Nat
  <2>1. txn[j] \in Txn /\ next[j] \in Nat /\ records[j] \in Seq(CatalogueRecord)
    BY DEF TypeOK
  <2> QED
    BY <2>1 DEF Txn, Loaded
<1> QED
  BY <1>1, <1>2, <1>3

\* As long as no other session counts, nobody writes a count that has gone stale.
CountInv ==
    /\ \A j \in Jobs : Counting(j) /\ (Counts(j) => Loaded(j) = source.count)
    /\ \E g : RunSums(g, runs) /\ source.count = g[Len(runs)]

LEMMA CountStep ==
    ASSUME SafeInv, CountInv, OneCounter, [Next]_vars
    PROVE  CountInv'
<1>1. TypeOK /\ \A k \in Jobs : Counting(k) /\ (Counts(k) => Loaded(k) = source.count)
  BY DEF SafeInv, TypeInv, CountInv
<1>2. PICK g : RunSums(g, runs) /\ source.count = g[Len(runs)]
  BY DEF CountInv
<1>3. PICK h : RunSums(h, runs') /\ (NoneEnds(g, h) \/ \E j \in Jobs : Ends(j, g, h))
  BY <1>1, <1>2, CountMoves
<1>4. \A k \in Jobs : Counting(k)'
  BY <1>1, <1>2, CountMoves
<1>5. CASE NoneEnds(g, h)
  BY <1>1, <1>2, <1>3, <1>4, <1>5 DEF NoneEnds, CountInv, Unmoved, Loads
<1>6. ASSUME NEW j \in Jobs, Ends(j, g, h)
      PROVE  CountInv'
  <2>1. source.count \in Nat /\ g[Len(runs)] \in Nat /\ Len(records[j]) \in Nat
    BY <1>1, <1>2, CountTypes
  <2>2. CASE records[j] = <<>>
    <3>1. source'.count = source.count /\ h[Len(runs')] = g[Len(runs)] + 0
      BY <1>6, <2>2 DEF Ends
    <3>2. source'.count = h[Len(runs')]
      BY <1>2, <2>1, <3>1
    <3>3. \A k \in Jobs : Counts(k)' => Loaded(k)' = source'.count
      BY <1>1, <1>6, <3>1 DEF Ends, Unmoved
    <3> QED
      BY <1>3, <1>4, <3>2, <3>3 DEF CountInv
  <2>3. CASE records[j] # <<>>
    <3>1. Counts(j) /\ source'.count = source.count + Len(records[j])
      BY <1>1, <1>6, <2>3 DEF Ends
    <3>2. source'.count = h[Len(runs')]
      BY <1>2, <1>6, <3>1 DEF Ends
    <3>3. \A k \in Jobs : ~Counts(k)'
      BY <1>6, <3>1 DEF Ends, Unmoved, OneCounter
    <3> QED
      BY <1>3, <1>4, <3>2, <3>3 DEF CountInv
  <2> QED
    BY <2>2, <2>3
<1> QED
  BY <1>3, <1>5, <1>6

\* The source's record count is the number of records that the successful runs wrote,
\* unless a session loads it while another one is going to write it (l.96-98, l.197): the
\* row lock comes only with the flush.
THEOREM CountGoesWithLoads == Spec /\ []OneCounter => []CountExact
<1>1. Init => CountInv
  <2> SUFFICES ASSUME Init PROVE CountInv
    OBVIOUS
  <2> QED
    BY NothingCounted DEF CountInv
<1>2. SafeInv /\ CountInv /\ OneCounter /\ [Next]_vars => CountInv'
  BY CountStep
<1>3. SafeInv /\ CountInv => CountExact
  BY SumsGiveCount DEF CountInv, SafeInv, TypeInv
<1> QED
  BY <1>1, <1>2, <1>3, SafeInvariant, PTL DEF Spec

\* When all refreshes run in one process its lock sees to that.
THEOREM CountKept ==
    ASSUME \A j, k \in Jobs : ProcessOf[j] = ProcessOf[k]
    PROVE  Spec => []CountExact
<1>1. Exclusive => OneCounter
  <2>1. \A j \in Jobs : Counts(j) => pc[j] # "idle"
    BY DEF Counts
  <2> QED
    BY <2>1 DEF Exclusive, OneCounter
<1> QED
  BY <1>1, LockExcludes, CountGoesWithLoads, PTL

\* Whatever runs together: the count may miss records, it never has too many.
CountAtMost ==
    LET total[n \in 0..Len(runs)] ==
          IF n = 0 THEN 0 ELSE total[n - 1] + runs[n].written
    IN  source.count <= total[Len(runs)]
AtMostInv ==
    /\ \A j \in Jobs : Counting(j)
    /\ \E g : /\ RunSums(g, runs) /\ source.count <= g[Len(runs)]
              /\ \A j \in Jobs : Counts(j) => Loaded(j) <= g[Len(runs)]

LEMMA AtMostStep ==
    ASSUME SafeInv, SafeInv', AtMostInv, [Next]_vars
    PROVE  AtMostInv'
<1>1. TypeOK /\ TypeOK' /\ \A k \in Jobs : Counting(k)
  BY DEF SafeInv, TypeInv, AtMostInv
<1>2. PICK g : /\ RunSums(g, runs) /\ source.count <= g[Len(runs)]
               /\ \A j \in Jobs : Counts(j) => Loaded(j) <= g[Len(runs)]
  BY DEF AtMostInv
<1>3. PICK h : RunSums(h, runs') /\ (NoneEnds(g, h) \/ \E j \in Jobs : Ends(j, g, h))
  BY <1>1, <1>2, CountMoves
<1>4. \A k \in Jobs : Counting(k)'
  BY <1>1, <1>2, CountMoves
<1>5. CASE NoneEnds(g, h)
  BY <1>2, <1>3, <1>4, <1>5 DEF NoneEnds, AtMostInv, Unmoved, Loads
<1>6. ASSUME NEW j \in Jobs, Ends(j, g, h)
      PROVE  AtMostInv'
  <2>1. /\ source.count \in Nat /\ g[Len(runs)] \in Nat /\ Len(records[j]) \in Nat
        /\ \A k \in Jobs : Loaded(k) \in Int
    BY <1>1, <1>2, CountTypes
  <2>2. h[Len(runs')] = g[Len(runs)] + Len(records[j])
    BY <1>6 DEF Ends
  <2>3. source'.count <= h[Len(runs')]
    <3>1. CASE records[j] = <<>>
      <4>1. source'.count = source.count
        BY <1>6, <3>1 DEF Ends
      <4> QED
        BY <1>2, <2>1, <2>2, <4>1
    <3>2. CASE records[j] # <<>>
      <4>1. Counts(j) /\ source'.count = Loaded(j) + Len(records[j])
        BY <1>6, <3>2 DEF Ends
      <4>2. Loaded(j) <= g[Len(runs)]
        BY <1>2, <4>1
      <4> QED
        BY <2>1, <2>2, <4>1, <4>2
    <3> QED
      BY <3>1, <3>2
  <2>4. ASSUME NEW k \in Jobs, Counts(k)'
        PROVE  Loaded(k)' <= h[Len(runs')]
    <3>1. Loaded(k)' = Loaded(k) /\ Loaded(k) <= g[Len(runs)]
      BY <1>2, <1>6, <2>4 DEF Ends, Unmoved
    <3> QED
      BY <2>1, <2>2, <3>1
  <2> QED
    BY <1>3, <1>4, <2>3, <2>4 DEF AtMostInv
<1> QED
  BY <1>3, <1>5, <1>6

LEMMA SumsBound ==
    ASSUME TypeOK, NEW g, RunSums(g, runs), source.count <= g[Len(runs)]
    PROVE  CountAtMost
<1> DEFINE total == CHOOSE t : t = [n \in 0..Len(runs) |->
                                       IF n = 0 THEN 0 ELSE t[n - 1] + runs[n].written]
<1>1. total = g
  BY SumsTotal
<1>2. source.count <= total[Len(runs)]
  BY <1>1
<1> QED
  BY <1>2 DEF CountAtMost

\* The refreshes of several processes lose counts to each other and invent none.
THEOREM CountNeverAbove == Spec => []CountAtMost
<1>1. Init => AtMostInv
  <2> SUFFICES ASSUME Init PROVE AtMostInv
    OBVIOUS
  <2> DEFINE g == [n \in 0..0 |-> 0]
  <2>1. RunSums(g, runs) /\ source.count <= g[Len(runs)]
    BY NothingCounted
  <2> HIDE DEF g
  <2> QED
    BY <2>1, NothingCounted DEF AtMostInv
<1>2. SafeInv /\ SafeInv' /\ AtMostInv /\ [Next]_vars => AtMostInv'
  BY AtMostStep
<1>3. SafeInv /\ AtMostInv => CountAtMost
  BY SumsBound DEF AtMostInv, SafeInv, TypeInv
<1> QED
  BY <1>1, <1>2, <1>3, SafeInvariant, PTL DEF Spec
=============================================================================
