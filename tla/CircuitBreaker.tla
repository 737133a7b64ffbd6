---------------------------- MODULE CircuitBreaker ----------------------------
(***************************************************************************)
(* FipiranFundProvider._request and its circuit breaker                    *)
(* (src/irma/providers/fipiran.py, l.78-227): one provider instance, which *)
(* one refresh or backfill calls again and again, and the upstream, which  *)
(* may do anything.  Time passes in ticks; what the code compares with     *)
(* time.monotonic() is kept as the time since then, up to the bound it is  *)
(* compared with.                                                          *)
(***************************************************************************)
EXTENDS Naturals

CONSTANTS
    Threshold,     \* failure_threshold
    Cooldown,      \* cooldown_seconds
    MinInterval,   \* min_interval_seconds
    Retries,       \* retries
    PowersOfTwo,   \* 2**attempt for each attempt
    RetryAfters,   \* the delays an upstream may ask for
    MaxDelay,      \* the cap of a backoff, 30 in the code
    MaxFailures    \* bound: no call is made once so many failures were counted

ASSUME CircuitAssumption ==
    /\ Threshold \in Nat \ {0}
    /\ Cooldown \in Nat \ {0}
    /\ MinInterval \in Nat
    /\ Retries \in Nat
    /\ PowersOfTwo \in [0..Retries -> Nat \ {0}]
    /\ RetryAfters \subseteq Nat
    /\ MaxDelay \in Nat \ {0}
    /\ MaxFailures \in Nat

VARIABLES
    failures,      \* circuit.failures
    state,         \* circuit.state: "open" if opened_at is not None
    sinceOpened,   \* time since opened_at was last set, at most Cooldown
    sinceAnswer,   \* time since _last_request_at, at most MinInterval
    pc,            \* where _request is
    attempt,       \* the loop variable
    sleep,         \* what is left of a sleep
    result         \* how the last call ended

circuit == <<failures, state, sinceOpened>>
vars == <<circuit, sinceAnswer, pc, attempt, sleep, result>>

TypeOK ==
    /\ failures \in Nat
    /\ state \in {"open", "closed"}
    /\ sinceOpened \in 0..Cooldown
    /\ sinceAnswer \in 0..MinInterval
    /\ pc \in {"idle", "pace", "send", "wait"}
    /\ attempt \in 0..Retries
    /\ sleep \in Nat
    /\ result \in {"none", "ok", "failed", "open"}

\* _last_request_at = 0.0 lies far back.
Init ==
    /\ failures = 0
    /\ state = "closed"
    /\ sinceOpened = Cooldown
    /\ sinceAnswer = MinInterval
    /\ pc = "idle"
    /\ attempt = 0
    /\ sleep = 0
    /\ result = "none"

\* The clock advances; a sleeping thread sleeps less.
Tick ==
    /\ sinceOpened' = IF sinceOpened < Cooldown THEN sinceOpened + 1 ELSE sinceOpened
    /\ sinceAnswer' = IF sinceAnswer < MinInterval THEN sinceAnswer + 1 ELSE sinceAnswer
    /\ sleep' = IF sleep > 0 THEN sleep - 1 ELSE 0
    /\ UNCHANGED <<failures, state, pc, attempt, result>>

Pause == MinInterval - sinceAnswer

Call ==
    /\ pc = "idle"
    /\ failures < MaxFailures
    /\ sleep' = Pause
    /\ pc' = "pace"
    /\ result' = "none"
    /\ UNCHANGED <<circuit, sinceAnswer, attempt>>

(***************************************************************************)
(* _check_circuit.                                                         *)
(***************************************************************************)
\* Mutant of Cooling: an open circuit is not looked at.
Cooling_Ignored == FALSE
Cooling == state = "open" /\ sinceOpened < Cooldown

Awake(l) == pc = l /\ sleep = 0

Reject ==
    /\ Awake("pace")
    /\ Cooling
    /\ pc' = "idle"
    /\ result' = "open"
    /\ UNCHANGED <<circuit, sinceAnswer, attempt, sleep>>

Admit ==
    /\ Awake("pace")
    /\ ~Cooling
    /\ state' = "closed"
    /\ pc' = "send"
    /\ attempt' = 0
    /\ UNCHANGED <<failures, sinceOpened, sinceAnswer, sleep, result>>

(***************************************************************************)
(* The retry loop.                                                         *)
(***************************************************************************)
Send ==
    /\ Awake("send")
    /\ pc' = "wait"
    /\ UNCHANGED <<circuit, sinceAnswer, attempt, sleep, result>>

RecordSuccess == state' = "closed" /\ failures' = 0 /\ UNCHANGED sinceOpened

\* Mutant of RecordFailure: > instead of >=.
RecordFailure_Late ==
    /\ failures' = failures + 1
    /\ state' = IF failures' > Threshold THEN "open" ELSE state
    /\ sinceOpened' = IF failures' > Threshold THEN 0 ELSE sinceOpened
RecordFailure ==
    /\ failures' = failures + 1
    /\ state' = IF failures' >= Threshold THEN "open" ELSE state
    /\ sinceOpened' = IF failures' >= Threshold THEN 0 ELSE sinceOpened

End(how) ==
    /\ pc' = "idle"
    /\ attempt' = 0
    /\ result' = how
    /\ UNCHANGED sleep

\* The next attempt, after a backoff while the circuit is closed and at once
\* when this failure opened it; the error itself after the last attempt.
TryAgain(delay) ==
    IF attempt < Retries
    THEN /\ pc' = "send"
         /\ attempt' = attempt + 1
         /\ sleep' = IF state' = "open" THEN 0 ELSE delay
         /\ UNCHANGED result
    ELSE End("failed")

AtMost(d) == IF d < MaxDelay THEN d ELSE MaxDelay
Backoff == AtMost(PowersOfTwo[attempt])
Delays == {Backoff} \cup {AtMost(d) : d \in RetryAfters}

AnswerOk ==
    /\ pc = "wait"
    /\ sinceAnswer' = 0
    /\ RecordSuccess
    /\ End("ok")

\* A block page, a wrong content type, a status that is not worth a retry.
AnswerPermanent ==
    /\ pc = "wait"
    /\ sinceAnswer' = 0
    /\ RecordFailure
    /\ End("failed")

\* 408, 425, 429 and 5xx.
AnswerTransient ==
    /\ pc = "wait"
    /\ sinceAnswer' = 0
    /\ RecordFailure
    /\ \E d \in Delays : TryAgain(d)

\* A timeout or a refused connection; _last_request_at stays.
NoAnswer ==
    /\ pc = "wait"
    /\ UNCHANGED sinceAnswer
    /\ RecordFailure
    /\ TryAgain(Backoff)

Answer == AnswerOk \/ AnswerPermanent \/ AnswerTransient \/ NoAnswer
Next == Tick \/ Call \/ Reject \/ Admit \/ Send \/ Answer
Spec == Init /\ [][Next]_vars

(***************************************************************************)
(* Properties.                                                             *)
(***************************************************************************)
\* Between calls the circuit is open exactly when the threshold is reached, so
\* that status() and the next call agree; half open exists in a call only.
OpenAtThreshold == pc \in {"idle", "pace"} => (state = "open" <=> failures >= Threshold)

\* The first request of a call goes out no sooner than MinInterval after the
\* last answer (l.179-181).
Paced == [][Send /\ attempt = 0 => sinceAnswer = MinInterval]_vars

\* A request that goes out in the cooling period, with the failures that opened
\* the circuit still on record, is a retry of the call that opened it; no call
\* begins there (l.158-170).
NoCallWhileOpen ==
    pc = "wait" /\ failures >= Threshold /\ sinceOpened < Cooldown => attempt > 0
=============================================================================
