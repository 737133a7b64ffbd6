--------------------------- MODULE RefreshDispatch ---------------------------
(***************************************************************************)
(* What is around RefreshCoordinator: refresh_from_settings, which picks   *)
(* the provider (src/irma/services/data_refresh.py, l.285-390), the        *)
(* fallback chain (src/irma/providers/chain.py), and the three callers:    *)
(* the scheduler, the admin endpoint and the command line.  A refresh      *)
(* publishes at once or not at all (FundRefresh); here it is one step, and *)
(* what matters is which provider is asked, what an exception turns into   *)
(* on its way out, what the caller makes of it, and what becomes of the    *)
(* lock: the API process keeps it for good when the insert of the run row  *)
(* fails, since that is before the try that gives it back.                 *)
(***************************************************************************)
EXTENDS Naturals, Sequences, FiniteSets

CONSTANTS
    ApiCallers,    \* threads of the API process
    Worker,        \* src/irma/workers/scheduler.py
    Cli,           \* scripts/refresh_data.py
    Modes,         \* what IRMA_FUND_PROVIDER may be set to
    Outcomes,      \* how a fetch from each source may end
    MaxRetries,    \* provider_max_retries
    HistoryFunds,  \* how many funds the history phase takes at most
    HistoryFaults  \* how the fetch of a history may fail

Callers == ApiCallers \cup {Worker, Cli}
Sources == {"fipiran", "file"}
\* Classes of exceptions: FileNotFoundError, other OSErrors, httpx.HTTPError,
\* ValueError, RuntimeError, RefreshAlreadyRunningError (a RuntimeError), what the
\* database raises on the insert of the run row, any other.
Exceptions == {"missing", "os", "http", "value", "runtime", "overlap", "start", "other"}
Fetched == Exceptions \ {"overlap", "start"}    \* those that a source may raise
Answers == {"none", "ok", "conflict", "failed", "crashed"}

ASSUME DispatchAssumption ==
    /\ Worker \notin ApiCallers /\ Cli \notin ApiCallers /\ Worker # Cli
    /\ Modes \subseteq {"csv", "fipiran", "chain"}
    /\ Outcomes \in [Sources -> SUBSET ({"records", "empty"} \cup Fetched)]
    /\ MaxRetries \in Nat
    /\ HistoryFunds \in Nat
    /\ HistoryFaults \subseteq Fetched

VARIABLES
    mode,      \* settings.fund_provider
    locked,    \* _refresh_lock of the API process
    lost,      \* history: a call of that process has left with the lock taken
    stored,    \* what the last published refresh was made from
    pc,        \* where each caller is
    call,      \* its call: see Call
    answer     \* what it got from its last call

vars == <<mode, locked, lost, stored, pc, call, answer>>

\* at: the source being asked; attempt: of the coordinator; failed: the sources
\* the chain gave up; selected: the one that answered; asked: those that were
\* asked for a history; todo: funds whose history is due; raised: the exception.
Call == [at: 1..2, attempt: Nat, failed: SUBSET Sources, selected: Sources \cup {"none"},
         asked: SUBSET Sources, todo: Nat, raised: Exceptions \cup {"none"}]
NoCall == [at |-> 1, attempt |-> 0, failed |-> {}, selected |-> "none",
           asked |-> {}, todo |-> 0, raised |-> "none"]
NotStored == [source |-> "none", failed |-> {}, asked |-> {}]

TypeOK ==
    /\ mode \in Modes
    /\ locked \in BOOLEAN
    /\ lost \in BOOLEAN
    /\ stored \in [source: Sources \cup {"none"}, failed: SUBSET Sources, asked: SUBSET Sources]
    /\ pc \in [Callers -> {"idle", "call", "fetch", "write", "history", "raise", "dead"}]
    /\ call \in [Callers -> Call]
    /\ answer \in [Callers -> Answers]

Init ==
    /\ mode \in Modes
    /\ locked = FALSE
    /\ lost = FALSE
    /\ stored = NotStored
    /\ pc = [c \in Callers |-> "idle"]
    /\ call = [c \in Callers |-> NoCall]
    /\ answer = [c \in Callers |-> "none"]

Goto(c, l) == pc' = [pc EXCEPT ![c] = l]
Update(c, new) == call' = [call EXCEPT ![c] = new]

\* The sources of the configured provider, in order.
Chain ==
    CASE mode = "csv" -> <<"file">>
      [] mode = "fipiran" -> <<"fipiran">>
      [] mode = "chain" -> <<"fipiran", "file">>
Asked(c) == Chain[call[c].at]

(***************************************************************************)
(* A call begins.  The worker is woken by its timer.                       *)
(***************************************************************************)
Request(c) ==
    /\ pc[c] = "idle"
    /\ Goto(c, "call")
    /\ answer' = [answer EXCEPT ![c] = "none"]
    /\ UNCHANGED <<mode, locked, lost, stored, call>>

\* An exception leaves RefreshCoordinator.
RaiseFrom(c, kind) ==
    /\ Goto(c, "raise")
    /\ Update(c, [call[c] EXCEPT !.raised = kind])

Refuse(c) ==
    /\ pc[c] = "call"
    /\ c \in ApiCallers /\ locked
    /\ RaiseFrom(c, "overlap")
    /\ UNCHANGED <<mode, locked, lost, stored, answer>>

Begin(c) ==
    /\ pc[c] = "call"
    /\ c \in ApiCallers => ~locked
    /\ locked' = (locked \/ c \in ApiCallers)
    /\ Update(c, NoCall)
    /\ Goto(c, "fetch")
    /\ UNCHANGED <<mode, lost, stored, answer>>

\* The lock is taken and the insert of the run row fails (l.84-88): this is before
\* the try whose finally gives the lock back (l.89, l.281).
BeginFails(c) ==
    /\ pc[c] = "call"
    /\ c \in ApiCallers => ~locked
    /\ locked' = (locked \/ c \in ApiCallers)
    /\ lost' = (lost \/ c \in ApiCallers)
    /\ RaiseFrom(c, "start")
    /\ UNCHANGED <<mode, stored, answer>>

(***************************************************************************)
(* The source is asked: by the chain, or by the coordinator itself.        *)
(***************************************************************************)
Selected(c) == [call[c] EXCEPT !.selected = Asked(c)]

FetchRecords(c) ==
    /\ pc[c] = "fetch"
    /\ "records" \in Outcomes[Asked(c)]
    /\ Update(c, Selected(c))
    /\ Goto(c, "write")
    /\ UNCHANGED <<mode, locked, lost, stored, answer>>

\* Without a chain an empty dataset is a dataset, with no fund to write and no
\* history to fetch.
FetchEmpty(c) ==
    /\ pc[c] = "fetch"
    /\ mode # "chain"
    /\ "empty" \in Outcomes[Asked(c)]
    /\ Update(c, Selected(c))
    /\ Goto(c, "history")
    /\ UNCHANGED <<mode, locked, lost, stored, answer>>

\* What FundDataProviderChain.fetch catches; an empty dataset is a ValueError.
\* Mutant of Caught: without ValueError.
Caught_NoValue == {"missing", "os", "runtime"}
Caught == {"empty", "missing", "os", "runtime", "value"}
GivenUp(c) == call[c].failed \cup {Asked(c)}

FallBack(c) ==
    /\ pc[c] = "fetch"
    /\ mode = "chain"
    /\ Outcomes[Asked(c)] \cap Caught # {}
    /\ IF call[c].at < Len(Chain)
       THEN /\ Update(c, [call[c] EXCEPT !.at = @ + 1, !.failed = GivenUp(c)])
            /\ UNCHANGED pc
       ELSE RaiseFrom(c, "runtime")
    /\ UNCHANGED <<mode, locked, lost, stored, answer>>

\* The chain lets any other exception pass.
ChainRaises(c) ==
    /\ pc[c] = "fetch"
    /\ mode = "chain"
    /\ \E kind \in Outcomes[Asked(c)] \ (Caught \cup {"records"}) : RaiseFrom(c, kind)
    /\ UNCHANGED <<mode, locked, lost, stored, answer>>

\* fetch_with_retry.  The FIPIRAN provider retries by itself, so the coordinator
\* does not; a file is read again.
Attempts == IF mode = "csv" THEN MaxRetries ELSE 0
Retried == {"missing", "os", "http", "value"}

FetchAgain(c) ==
    /\ pc[c] = "fetch"
    /\ mode # "chain"
    /\ Outcomes[Asked(c)] \cap Retried # {}
    /\ call[c].attempt < Attempts
    /\ Update(c, [call[c] EXCEPT !.attempt = @ + 1])
    /\ UNCHANGED <<mode, locked, lost, stored, pc, answer>>

FetchRaises(c) ==
    /\ pc[c] = "fetch"
    /\ mode # "chain"
    /\ \E kind \in Outcomes[Asked(c)] \cap Exceptions :
          /\ kind \in Retried => call[c].attempt = Attempts
          /\ RaiseFrom(c, kind)
    /\ UNCHANGED <<mode, locked, lost, stored, answer>>

(***************************************************************************)
(* What was fetched is written, the histories follow, and it is published. *)
(***************************************************************************)
\* The chain always has fetch_nav_history, a CSV provider never.
HasHistory == mode # "csv"

\* Only active funds have their history fetched, and no more than the limit.
Write(c) ==
    /\ pc[c] = "write"
    /\ \E n \in IF HasHistory THEN 0..HistoryFunds ELSE {0} :
          Update(c, [call[c] EXCEPT !.todo = n])
    /\ Goto(c, "history")
    /\ UNCHANGED <<mode, locked, lost, stored, answer>>

\* The database raises an exception of its own.
DatabaseRaises(c) ==
    /\ pc[c] \in {"write", "history"}
    /\ RaiseFrom(c, "other")
    /\ UNCHANGED <<mode, locked, lost, stored, answer>>

\* FundDataProviderChain.fetch_nav_history: the selected provider is asked if it
\* has histories.  Mutant of Delegate: the first provider is asked.
Delegate_First(c) == {Chain[1]} \cap {"fipiran"}
Delegate(c) == {call[c].selected} \cap {"fipiran"}

\* A history arrives or its failure is noted.
FetchHistory(c) ==
    /\ pc[c] = "history"
    /\ call[c].todo > 0
    /\ Update(c, [call[c] EXCEPT !.todo = @ - 1, !.asked = @ \cup Delegate(c)])
    /\ UNCHANGED <<mode, locked, lost, stored, pc, answer>>

\* Any other exception ends the refresh.
HistoryRaises(c) ==
    /\ pc[c] = "history"
    /\ call[c].todo > 0
    /\ Delegate(c) # {}
    /\ \E kind \in HistoryFaults \ {"missing", "os", "http", "runtime", "value"} : RaiseFrom(c, kind)
    /\ UNCHANGED <<mode, locked, lost, stored, answer>>

\* The call is over; the API's lock is released by a call that got past the insert
\* of its run row.
Over(c, how) ==
    /\ answer' = [answer EXCEPT ![c] = how]
    /\ Update(c, NoCall)
    /\ UNCHANGED <<mode, lost>>

Release(c) == locked' = (locked /\ (c \notin ApiCallers \/ call[c].raised \in {"overlap", "start"}))

Publish(c) ==
    /\ pc[c] = "history"
    /\ call[c].todo = 0
    /\ stored' = [source |-> call[c].selected, failed |-> call[c].failed, asked |-> call[c].asked]
    /\ Release(c)
    /\ Over(c, "ok")
    /\ Goto(c, "idle")

(***************************************************************************)
(* An exception goes through refresh_from_settings to the caller.          *)
(***************************************************************************)
Wrapped(c) == IF call[c].raised = "overlap" THEN "overlap" ELSE "runtime"

\* What the scheduler's loop survives.
Survived == {"missing", "os", "value"}
WorkerCatches(c) ==
    /\ pc[c] = "raise" /\ c = Worker
    /\ Release(c)
    /\ Over(c, IF Wrapped(c) \in Survived THEN "failed" ELSE "crashed")
    /\ Goto(c, IF Wrapped(c) \in Survived THEN "idle" ELSE "dead")
    /\ UNCHANGED stored

\* 409, 424, or an exception that the endpoint does not know.
ApiCatches(c) ==
    /\ pc[c] = "raise" /\ c \in ApiCallers
    /\ Release(c)
    /\ Over(c, CASE Wrapped(c) = "overlap" -> "conflict"
                 [] Wrapped(c) \in {"missing", "http", "runtime", "value"} -> "failed"
                 [] Wrapped(c) \in {"os", "start", "other"} -> "crashed")
    /\ Goto(c, "idle")
    /\ UNCHANGED stored

CliCatches(c) ==
    /\ pc[c] = "raise" /\ c = Cli
    /\ Release(c)
    /\ Over(c, "failed")
    /\ Goto(c, "idle")
    /\ UNCHANGED stored

Fetch(c) ==
    \/ FetchRecords(c) \/ FetchEmpty(c) \/ FallBack(c) \/ ChainRaises(c)
    \/ FetchAgain(c) \/ FetchRaises(c)
Step(c) ==
    \/ Refuse(c) \/ Begin(c) \/ BeginFails(c) \/ Fetch(c) \/ Write(c) \/ DatabaseRaises(c)
    \/ FetchHistory(c) \/ HistoryRaises(c) \/ Publish(c)
    \/ WorkerCatches(c) \/ ApiCatches(c) \/ CliCatches(c)

Next == \E c \in Callers : Request(c) \/ Step(c)
Spec == Init /\ [][Next]_vars

(***************************************************************************)
(* Properties.                                                             *)
(***************************************************************************)
\* A call that got past the insert of its run row and has not left yet.
Inside(c) ==
    \/ pc[c] \in {"fetch", "write", "history"}
    \/ pc[c] = "raise" /\ call[c].raised \notin {"overlap", "start"}

\* The API's lock is taken while one of its calls is inside, and otherwise only
\* when a call left without giving it back, which is only ever the failing insert
\* of a run row: an overlap that is refused does not give the other's lock back,
\* and a failure after the insert does not keep it (l.84-89, l.281-282).  Once it
\* is lost no call of the process gets in again.
LockedByOne ==
    /\ locked <=> lost \/ \E c \in ApiCallers : Inside(c)
    /\ lost => \A c \in ApiCallers : ~Inside(c)
    /\ \A c, d \in ApiCallers : Inside(c) /\ Inside(d) => c = d

\* What is stored has one origin and says so: histories come from the source of
\* the catalogue, and the file stands in for FIPIRAN only when FIPIRAN has
\* failed and that was noted (chain.py l.26-50, provider-fallback.md l.9).
Provenance ==
    /\ stored.asked \subseteq {stored.source}
    /\ stored.failed = IF mode = "chain" /\ stored.source = "file" THEN {"fipiran"} ELSE {}

\* Whatever a provider or the database raises, the endpoint answers 409 or 424
\* and the command prints its report (routes.py l.728-733, l.388-390).
Answered == \A c \in Callers \ {Worker} : answer[c] # "crashed"

\* A scheduled refresh that fails does not end the scheduler (scheduler.py l.23).
WorkerSurvives == pc[Worker] # "dead"

\* The chain fails before the official file was tried only if FIPIRAN gave no
\* answer at all (httpx.HTTPError, which l.41 does not name, although provider-
\* fallback.md l.5-9 has the file stand in) or raised what nobody expects; a block
\* page, another schema or an empty dataset brings the file in.
FallsBack ==
    \A c \in Callers :
        /\ mode = "chain" /\ pc[c] = "raise"
        /\ call[c].raised \notin {"overlap", "start"} /\ call[c].selected = "none"
        => call[c].at = Len(Chain) \/ call[c].raised \in {"http", "other"}
=============================================================================
