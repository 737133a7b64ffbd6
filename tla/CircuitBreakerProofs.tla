------------------------ MODULE CircuitBreakerProofs ------------------------
(***************************************************************************)
(* Proofs about the calls to FIPIRAN (CircuitBreaker), for every threshold, *)
(* cooling period, interval, backoff and number of retries, and about what  *)
(* a refresh makes of the catalogue they bring (FundCatalogue).             *)
(***************************************************************************)
EXTENDS CircuitBreaker, FundCatalogue, SequenceTheorems, Induction

\* In a call the circuit is closed until the first failure of the call, and if
\* the threshold was reached before, the cooling period is over; a failure leaves
\* the circuit open exactly when the threshold is reached.
Circuit ==
    /\ OpenAtThreshold
    /\ pc \in {"send", "wait"} =>
          IF attempt = 0
          THEN state = "closed" /\ (failures >= Threshold => sinceOpened = Cooldown)
          ELSE state = "open" <=> failures >= Threshold

\* What is left to sleep before a call and the time since the last answer make
\* up the interval.
Pacing ==
    /\ pc = "pace" => sleep + sinceAnswer >= MinInterval
    /\ pc = "send" /\ attempt = 0 => sinceAnswer = MinInterval

Inv == TypeOK /\ Circuit /\ Pacing

\* The delays before a retry are natural numbers.
LEMMA DelaysAreNat ==
    ASSUME TypeOK
    PROVE  Backoff \in Nat /\ Delays \subseteq Nat
<1>1. \A d \in Nat : AtMost(d) \in Nat
  BY CircuitAssumption DEF AtMost
<1>2. PowersOfTwo[attempt] \in Nat
  BY CircuitAssumption DEF TypeOK
<1> QED
  BY <1>1, <1>2, CircuitAssumption DEF Backoff, Delays

\* A failure in a call: the counter moves on, the circuit is open afterwards
\* exactly when the threshold is reached, and the call ends or goes on with a
\* later attempt (RecordFailure and the rest of the except block).
LEMMA FailureKeepsInv ==
    ASSUME Inv, pc = "wait", RecordFailure, NEW d \in Nat,
           TryAgain(d) \/ End("failed"),
           sinceAnswer' \in {0, sinceAnswer}
    PROVE  Inv'
<1> USE CircuitAssumption
<1>1. /\ failures' = failures + 1
      /\ failures' \in Nat
      /\ state' \in {"open", "closed"}
      /\ sinceOpened' \in 0..Cooldown
      /\ sinceAnswer' \in 0..MinInterval
  BY DEF Inv, TypeOK, RecordFailure
<1>2. state' = "open" <=> failures' >= Threshold
  BY <1>1 DEF Inv, TypeOK, Circuit, RecordFailure
<1>3. CASE attempt < Retries /\ TryAgain(d)
  <2>1. /\ pc' = "send" /\ attempt' = attempt + 1 /\ attempt' # 0
        /\ attempt' \in 0..Retries /\ sleep' \in Nat /\ result' = result
    BY <1>3 DEF Inv, TypeOK, TryAgain
  <2> QED
    BY <1>1, <1>2, <2>1 DEF Inv, TypeOK, Circuit, OpenAtThreshold, Pacing
<1>4. CASE End("failed")
  BY <1>1, <1>2, <1>4 DEF Inv, TypeOK, Circuit, OpenAtThreshold, Pacing, End
<1> QED
  BY <1>3, <1>4 DEF TryAgain

\* Init => Inv and Inv /\ [Next]_vars => Inv', one step per action.
LEMMA InitInv == Init => Inv
  BY CircuitAssumption DEF Init, Inv, TypeOK, Circuit, OpenAtThreshold, Pacing

LEMMA NextInv == Inv /\ [Next]_vars => Inv'
<1> SUFFICES ASSUME Inv, [Next]_vars PROVE Inv'
  OBVIOUS
<1> USE CircuitAssumption
<1>1. CASE Tick
  <2>1. TypeOK'
    BY <1>1 DEF Inv, TypeOK, Tick
  <2>2. Circuit'
    BY <1>1 DEF Inv, TypeOK, Circuit, OpenAtThreshold, Tick
  <2>3. Pacing'
    BY <1>1 DEF Inv, TypeOK, Pacing, Tick
  <2> QED
    BY <2>1, <2>2, <2>3 DEF Inv
<1>2. CASE Call
  BY <1>2 DEF Inv, TypeOK, Circuit, OpenAtThreshold, Pacing, Call, Pause, circuit
<1>3. CASE Reject
  BY <1>3 DEF Inv, TypeOK, Circuit, OpenAtThreshold, Pacing, Reject, Awake, circuit
<1>4. CASE Admit
  BY <1>4 DEF Inv, TypeOK, Circuit, OpenAtThreshold, Pacing, Admit, Awake, Cooling
<1>5. CASE Send
  BY <1>5 DEF Inv, TypeOK, Circuit, OpenAtThreshold, Pacing, Send, Awake, circuit
<1>6. CASE AnswerOk
  BY <1>6 DEF Inv, TypeOK, Circuit, OpenAtThreshold, Pacing, AnswerOk, RecordSuccess, End
<1>7. CASE AnswerPermanent
  BY <1>7, FailureKeepsInv DEF AnswerPermanent
<1>8. CASE AnswerTransient
  BY <1>8, DelaysAreNat, FailureKeepsInv DEF AnswerTransient, Inv
<1>9. CASE NoAnswer
  BY <1>9, DelaysAreNat, FailureKeepsInv DEF NoAnswer, Inv
<1>10. CASE UNCHANGED vars
  BY <1>10 DEF Inv, TypeOK, Circuit, OpenAtThreshold, Pacing, vars, circuit
<1> QED
  BY <1>1, <1>2, <1>3, <1>4, <1>5, <1>6, <1>7, <1>8, <1>9, <1>10 DEF Next, Answer

LEMMA Invariant == Spec => []Inv
  BY InitInv, NextInv, PTL DEF Spec

\* Every variable keeps its type.
THEOREM TypeCorrect == Spec => []TypeOK
<1>1. Inv => TypeOK
  BY DEF Inv
<1> QED
  BY <1>1, Invariant, PTL

\* Between calls the circuit is open exactly when the threshold is reached, for
\* any number of retries (_record_failure, _record_success, _check_circuit).
THEOREM ThresholdOpens == Spec => []OpenAtThreshold
<1>1. Inv => OpenAtThreshold
  BY DEF Inv, Circuit
<1> QED
  BY <1>1, Invariant, PTL

\* No call begins in the cooling period, for any number of retries
\* (_check_circuit); what is sent there are the retries of a call that has
\* opened the circuit itself.
THEOREM CallsKeepOut == Spec => []NoCallWhileOpen
<1>1. Inv => NoCallWhileOpen
  BY DEF Inv, TypeOK, Circuit, NoCallWhileOpen
<1> QED
  BY <1>1, Invariant, PTL

\* With one attempt per call nothing at all is sent in the cooling period: a
\* request goes out with the threshold reached only when it is over.
COROLLARY QuietWithoutRetries ==
    ASSUME Retries = 0
    PROVE  Spec => [](pc = "wait" /\ failures >= Threshold => sinceOpened = Cooldown)
<1>1. TypeOK /\ NoCallWhileOpen => (pc = "wait" /\ failures >= Threshold => sinceOpened = Cooldown)
  BY CircuitAssumption DEF TypeOK, NoCallWhileOpen
<1> QED
  BY <1>1, TypeCorrect, CallsKeepOut, PTL

\* The first request of a call goes out an interval after the last answer
\* (_request).
THEOREM CallsArePaced == Spec => Paced
<1>1. Inv /\ [Next]_vars => [Send /\ attempt = 0 => sinceAnswer = MinInterval]_vars
  BY DEF Inv, Pacing, Send, Awake
<1> QED
  BY <1>1, Invariant, PTL DEF Spec, Paced

(***************************************************************************)
(* FundCatalogue: what a refresh that goes on has made of the table.       *)
(***************************************************************************)
Received == {r \in UNION {{c[n] : n \in DOMAIN c} : c \in Catalogues \cup Files} : r.ext \in Numbers}
Values == UNION {{r.sym, r.name, r.type} : r \in Received}
Days == {s \in SUBSET Int : IsFiniteSet(s)}
Funds == [ext: Numbers, sym: Values, name: Values, type: Values, rows: Days]
Same(f, r) == f.ext = r.ext /\ f.sym = r.sym /\ f.name = r.name /\ f.type = r.type
OneEach(funds) == \A m, n \in DOMAIN funds : m # n => funds[m].ext # funds[n].ext
Sharing == \E p \in Pairs(records) : Shares(p[1], p[2])

\* How many records are stored, and what they have done to the table: a fund is as the
\* table or a record has it; unless two records share something, the fund of each
\* record that is stored is as a record has it; and a number that was in the table is
\* there, or another one shares something with it.
Done == IF step = "store" THEN Len(records) - Len(todo) ELSE Len(records)
Traced(d) ==
    \A m \in DOMAIN draft :
        \/ m \in DOMAIN table /\ Same(draft[m], table[m])
        \/ \E i \in 1..d : Same(draft[m], records[i])
Placed(d) ==
    \/ Sharing
    \/ \A i \in 1..d : \E m \in DOMAIN draft :
          draft[m].ext = records[i].ext /\ \E j \in 1..d : Same(draft[m], records[j])
Named(d, e) ==
    \/ \E m \in DOMAIN draft : draft[m].ext = e
    \/ \E k \in 1..d : records[k].ext # e /\ \E v \in Versions(e) : Shares(records[k], v)
Remaining ==
    /\ step = "store" =>
          /\ Len(todo) <= Len(records)
          /\ \A j \in 1..Len(todo) : todo[j] = records[Len(records) - Len(todo) + j]
    /\ step = "history" => \A j \in DOMAIN todo : \E i \in DOMAIN records : todo[j] = records[i]

CatalogueTypes ==
    /\ table \in Seq(Funds) /\ draft \in Seq(Funds)
    /\ records \in Seq(Received) /\ todo \in Seq(Received)
    /\ today \in Int /\ step \in {"idle", "store", "history"}
    /\ OneEach(table) /\ OneEach(draft)
Progressing ==
    step # "idle" =>
        Traced(Done) /\ Placed(Done) /\ \A n \in DOMAIN table : Named(Done, table[n].ext)
CatalogueInv == CatalogueTypes /\ Remaining /\ Progressing /\ FailureHasCause

LEMMA ReceivedFields ==
    ASSUME NEW r \in Received
    PROVE  r.ext \in Numbers /\ r.ext \in Int /\ r.sym \in Values /\ r.name \in Values /\ r.type \in Values
BY CatalogueAssumption DEF Received, Values, Numbers

\* The records are sequences of what is received.
LEMMA ParsedIsReceived ==
    ASSUME NEW c \in Catalogues
    PROVE  Parsed(c) \in Seq(Received)
<1> DEFINE kept == {n \in DOMAIN c : Stored(c, n)}
           R == {p \in kept \X kept : p[1] < p[2]}
           places == InOrder(kept, LAMBDA m, n : m < n)
           before(a) == {b \in kept : b < a}
<1>1. c \in Seq({c[n] : n \in DOMAIN c}) /\ \A n \in DOMAIN c : c[n].ext \in DOMAIN Since
  BY CatalogueAssumption
<1>2. Len(c) \in Nat /\ DOMAIN c = 1..Len(c)
  BY <1>1
<1>3. IsFiniteSet(DOMAIN c) /\ kept \in SUBSET DOMAIN c
  BY <1>2, FS_Interval
<1>4. IsFiniteSet(kept) /\ \A n \in kept : n \in Int /\ n \in DOMAIN c
  BY <1>2, <1>3, FS_Subset
<1>5. places = [n \in 1..Cardinality(kept) |->
                   CHOOSE a \in kept : Cardinality(before(a)) = n - 1]
  BY DEF InOrder
<1>6. Parsed(c) = [k \in 1..Cardinality(kept) |-> c[places[k]]]
  BY DEF Parsed
<1> HIDE DEF kept, places
<1>7. \A m, n \in kept : <<m, n>> \in R <=> m < n
  OBVIOUS
<1> HIDE DEF R
<1>8. Orders(R, kept)
  BY <1>4, <1>7 DEF Orders
<1>9. \A a \in kept : before(a) = Ahead(R, kept, a)
  BY <1>7 DEF Ahead
<1> HIDE DEF before
<1>10. places = Sorted(R, kept)
  BY <1>5, <1>9 DEF Sorted
<1>11. places \in [1..Cardinality(kept) -> kept] /\ Cardinality(kept) \in Nat
  BY <1>4, <1>8, <1>10, SortedPlaces, FS_CardinalityType
<1>12. \A k \in 1..Cardinality(kept) : c[places[k]] \in Received
  BY <1>1, <1>4, <1>11 DEF Received, Numbers
<1> QED
  BY <1>6, <1>11, <1>12

LEMMA FileIsReceived ==
    ASSUME NEW c \in Files, ~(\E n \in DOMAIN c : c[n].ext = None)
    PROVE  c \in Seq(Received)
<1>1. c \in Seq({c[n] : n \in DOMAIN c}) /\ \A n \in DOMAIN c : c[n].ext \in DOMAIN Since
  BY CatalogueAssumption
<1>2. \A n \in DOMAIN c : c[n] \in Received
  BY <1>1 DEF Received, Numbers
<1> QED
  BY <1>1, <1>2

LEMMA TwoShare ==
    ASSUME NEW i \in DOMAIN records, NEW j \in DOMAIN records,
           records[i].ext # records[j].ext
    PROVE  /\ <<records[i], records[j]>> \in Pairs(records)
           /\ Shares(records[i], records[j]) => Sharing
<1>1. <<records[i], records[j]>> \in Pairs(records)
  <2>1. <<records[i], records[j]>> \in {<<records[m], records[n]>> : m, n \in DOMAIN records}
    OBVIOUS
  <2>2. \A n \in DOMAIN records : <<records[i], records[j]>> # <<records[n], records[n]>>
    OBVIOUS
  <2> QED
    BY <2>1, <2>2 DEF Pairs
<1> QED
  BY <1>1 DEF Sharing

\* What storing a record does to the funds: it writes fund n, a new one or one that has the
\* number or shares something with it; no other has the number.
Writes(funds, new, r, n) ==
    /\ new \in Seq(Funds) /\ DOMAIN new = DOMAIN funds \cup {n}
    /\ Same(new[n], r)
    /\ \A m \in DOMAIN funds : m # n => new[m] = funds[m] /\ funds[m].ext # r.ext
    /\ n \in DOMAIN funds => funds[n].ext = r.ext \/ Shares(funds[n], r)

LEMMA MatchesShare ==
    ASSUME NEW funds, OneEach(funds), NEW r
    PROVE  /\ Matches(funds, r) \subseteq DOMAIN funds
           /\ Matches(funds, r) = {} => \A m \in DOMAIN funds : funds[m].ext # r.ext
           /\ \A n \in Matches(funds, r) :
                 /\ funds[n].ext = r.ext \/ Shares(funds[n], r)
                 /\ \A m \in DOMAIN funds : m # n => funds[m].ext # r.ext
<1> DEFINE numbered == {n \in DOMAIN funds : funds[n].ext = r.ext}
           traded == {n \in DOMAIN funds : r.sym # None /\ funds[n].sym = r.sym}
           named == {n \in DOMAIN funds : funds[n].name = r.name /\ funds[n].type = r.type}
<1>1. Matches(funds, r) =
         IF numbered # {} THEN numbered ELSE IF traded # {} THEN traded ELSE named
  BY DEF Matches, By
<1>2. \A n \in traded \cup named : Shares(funds[n], r)
  BY DEF Shares
<1> QED
  BY <1>1, <1>2 DEF OneEach

LEMMA NewIsWritten ==
    ASSUME NEW funds \in Seq(Funds), OneEach(funds), NEW r \in Received, NEW rows \in Days,
           Matches(funds, r) = {}, NEW old
    PROVE  Writes(funds, [Append(funds, NewFund) EXCEPT ![Len(funds) + 1] = Updated(rows, old, r)],
                  r, Len(funds) + 1)
<1> DEFINE l == Len(funds)
           g == Append(funds, NewFund)
           u == Updated(rows, old, r)
           new == [g EXCEPT ![l + 1] = u]
<1>1. l \in Nat /\ DOMAIN funds = 1..l
  OBVIOUS
<1>2. u \in Funds /\ Same(u, r)
  BY ReceivedFields DEF Updated, Funds, Same
<1>3. DOMAIN g = 1..(l + 1) /\ \A m \in 1..l : g[m] = funds[m]
  <2>1. funds \in Seq(Funds \cup {NewFund}) /\ NewFund \in Funds \cup {NewFund}
    OBVIOUS
  <2> HIDE DEF NewFund
  <2> QED
    BY <1>1, <2>1
<1> HIDE DEF l, g, u
<1>4. DOMAIN new = 1..(l + 1) /\ new[l + 1] = u /\ \A m \in 1..l : new[m] = funds[m]
  BY <1>1, <1>3
<1>5. \A m \in 1..l : funds[m] \in Funds
  BY <1>1
<1>6. \A m \in 1..(l + 1) : new[m] \in Funds
  <2>1. \A m \in 1..(l + 1) : m = l + 1 \/ m \in 1..l
    BY <1>1
  <2> QED
    BY <1>2, <1>4, <1>5, <2>1
<1>6a. new = [m \in 1..(l + 1) |-> new[m]]
  BY <1>3
<1> HIDE DEF new
<1>7. new \in Seq(Funds)
  BY <1>1, <1>6, <1>6a
<1>8. \A m \in 1..l : funds[m].ext # r.ext
  BY <1>1, MatchesShare
<1>9. 1..(l + 1) = 1..l \cup {l + 1} /\ l + 1 \notin 1..l
  BY <1>1
<1>10. Writes(funds, new, r, l + 1)
  BY <1>1, <1>2, <1>4, <1>7, <1>8, <1>9 DEF Writes
<1> QED
  BY <1>10 DEF new, g, u, l

LEMMA FoundIsWritten ==
    ASSUME NEW funds \in Seq(Funds), OneEach(funds), NEW r \in Received, NEW rows \in Days,
           NEW n \in Matches(funds, r), NEW old
    PROVE  Writes(funds, [funds EXCEPT ![n] = Updated(rows, old, r)], r, n)
<1> DEFINE u == Updated(rows, old, r)
           new == [funds EXCEPT ![n] = u]
<1>1. u \in Funds /\ Same(u, r)
  BY ReceivedFields DEF Updated, Funds, Same
<1>2. /\ n \in DOMAIN funds /\ (funds[n].ext = r.ext \/ Shares(funds[n], r))
      /\ \A m \in DOMAIN funds : m # n => funds[m].ext # r.ext
  BY MatchesShare
<1> HIDE DEF u
<1>3. new \in Seq(Funds) /\ DOMAIN new = DOMAIN funds
  <2>1. Len(funds) \in Nat /\ DOMAIN funds = 1..Len(funds) /\ \A m \in DOMAIN funds : funds[m] \in Funds
    OBVIOUS
  <2>2. \A m \in DOMAIN funds : new[m] \in Funds
    BY <1>1, <1>2, <2>1
  <2>3. new = [m \in 1..Len(funds) |-> new[m]]
    BY <2>1
  <2>4. DOMAIN new = DOMAIN funds
    OBVIOUS
  <2> HIDE DEF new
  <2> QED
    BY <2>1, <2>2, <2>3, <2>4
<1>4. new[n] = u /\ \A m \in DOMAIN funds : m # n => new[m] = funds[m]
  BY <1>2
<1> HIDE DEF new
<1>5. Writes(funds, new, r, n)
  BY <1>1, <1>2, <1>3, <1>4 DEF Writes
<1> QED
  BY <1>5 DEF new, u

LEMMA WrittenIsOneEach ==
    ASSUME NEW funds, OneEach(funds), NEW new, NEW r, NEW n, Writes(funds, new, r, n)
    PROVE  OneEach(new)
BY DEF OneEach, Writes, Same

\* A record is stored: what is traced, placed and named goes on being so.
LEMMA WrittenIsTraced ==
    ASSUME NEW d \in Nat, NEW n, NEW r, r = records[d + 1], Writes(draft, draft', r, n),
           Traced(d), UNCHANGED <<table, records>>
    PROVE  Traced(d + 1)'
<1> SUFFICES ASSUME NEW m \in DOMAIN draft'
             PROVE  \/ m \in DOMAIN table /\ Same(draft'[m], table[m])
                    \/ \E i \in 1..(d + 1) : Same(draft'[m], records[i])
  BY DEF Traced
<1>1. CASE m = n
  <2>1. Same(draft'[m], records[d + 1])
    BY <1>1 DEF Writes
  <2> QED
    BY <2>1
<1>2. CASE m # n
  <2>1. m \in DOMAIN draft /\ draft'[m] = draft[m]
    BY <1>2 DEF Writes
  <2>2. \/ m \in DOMAIN table /\ Same(draft[m], table[m])
        \/ \E i \in 1..d : Same(draft[m], records[i])
    BY <2>1 DEF Traced
  <2>3. \A i \in 1..d : i \in 1..(d + 1)
    OBVIOUS
  <2> QED
    BY <2>1, <2>2, <2>3
<1> QED
  BY <1>1, <1>2

LEMMA WrittenIsPlaced ==
    ASSUME NEW d \in Nat, NEW n, NEW r, r = records[d + 1], Writes(draft, draft', r, n),
           DOMAIN records = 1..Len(records), Len(records) \in Nat, d + 1 <= Len(records),
           Placed(d), UNCHANGED <<table, records>>
    PROVE  Placed(d + 1)'
<1>1. Sharing' <=> Sharing
  BY DEF Sharing, Pairs
<1> SUFFICES ASSUME ~Sharing, NEW i \in 1..(d + 1)
             PROVE  \E m \in DOMAIN draft' :
                       /\ draft'[m].ext = records[i].ext
                       /\ \E j \in 1..(d + 1) : Same(draft'[m], records[j])
  BY <1>1 DEF Placed
<1>2. n \in DOMAIN draft' /\ Same(draft'[n], records[d + 1]) /\ draft'[n].ext = r.ext
  BY DEF Writes, Same
<1>3. d + 1 \in 1..(d + 1) /\ \A j \in 1..d : j \in 1..(d + 1) /\ j \in DOMAIN records
  OBVIOUS
<1>4. CASE records[i].ext = r.ext
  BY <1>2, <1>3, <1>4
<1>5. CASE records[i].ext # r.ext
  <2>1. i \in 1..d
    BY <1>5
  <2>2. PICK m \in DOMAIN draft :
           draft[m].ext = records[i].ext /\ \E j \in 1..d : Same(draft[m], records[j])
    BY <2>1 DEF Placed
  <2>3. PICK j \in 1..d : Same(draft[m], records[j])
    BY <2>2
  <2>4. m # n
    <3> SUFFICES ASSUME m = n
                 PROVE  FALSE
      OBVIOUS
    <3>1. Shares(draft[m], r)
      BY <1>5, <2>2 DEF Writes
    <3>2. Shares(records[j], records[d + 1]) /\ records[j].ext # records[d + 1].ext
      BY <1>5, <2>2, <2>3, <3>1 DEF Shares, Same
    <3>3. j \in DOMAIN records /\ d + 1 \in DOMAIN records
      BY <1>3
    <3> QED
      BY <3>2, <3>3, TwoShare
  <2>5. m \in DOMAIN draft' /\ draft'[m] = draft[m]
    BY <2>2, <2>4 DEF Writes
  <2> QED
    BY <1>3, <2>2, <2>3, <2>5
<1> QED
  BY <1>4, <1>5

LEMMA WrittenIsNamed ==
    ASSUME NEW d \in Nat, NEW n, NEW r, r = records[d + 1], Writes(draft, draft', r, n),
           DOMAIN records = 1..Len(records), Len(records) \in Nat, d + 1 <= Len(records),
           Traced(d), NEW e, Named(d, e), UNCHANGED <<table, records>>
    PROVE  Named(d + 1, e)'
<1>1. Versions(e)' = Versions(e)
  BY DEF Versions, By
<1>2. \A k \in 1..d : k \in 1..(d + 1) /\ k \in DOMAIN records
  OBVIOUS
<1>3. ASSUME NEW k \in 1..d, records[k].ext # e, NEW v \in Versions(e), Shares(records[k], v)
      PROVE  Named(d + 1, e)'
  BY <1>1, <1>2, <1>3 DEF Named
<1>4. ASSUME NEW m \in DOMAIN draft, draft[m].ext = e
      PROVE  Named(d + 1, e)'
  <2>1. CASE m # n
    BY <1>4, <2>1 DEF Writes, Named
  <2>2. CASE m = n /\ r.ext = e
    BY <2>2 DEF Writes, Same, Named
  <2>3. CASE m = n /\ r.ext # e
    <3>1. Shares(draft[m], r)
      BY <1>4, <2>3 DEF Writes
    <3>2. PICK v \in Versions(e) : Same(draft[m], v)
      <4>1. CASE m \in DOMAIN table /\ Same(draft[m], table[m])
        <5>1. table[m] \in Versions(e)
          BY <1>4, <4>1 DEF Versions, By, Same
        <5> QED
          BY <4>1, <5>1
      <4>2. ASSUME NEW i \in 1..d, Same(draft[m], records[i])
            PROVE  \E v \in Versions(e) : Same(draft[m], v)
        <5>1. records[i] \in Versions(e)
          BY <1>2, <1>4, <4>2 DEF Versions, By, Same
        <5> QED
          BY <4>2, <5>1
      <4> QED
        BY <4>1, <4>2 DEF Traced
    <3>3. Shares(records[d + 1], v) /\ records[d + 1].ext # e
      BY <2>3, <3>1, <3>2 DEF Shares, Same
    <3>4. d + 1 \in 1..(d + 1)
      OBVIOUS
    <3> QED
      BY <1>1, <3>3, <3>4 DEF Named
  <2> QED
    BY <2>1, <2>2, <2>3
<1> QED
  BY <1>3, <1>4 DEF Named

LEMMA RowsObserved ==
    ASSUME CatalogueTypes, NEW rows \in Days, NEW r
    PROVE  rows \cup Observed(r) \in Days
<1>1. Observed(r) \in SUBSET {today} /\ IsFiniteSet({today})
  BY FS_Singleton DEF Observed
<1>2. IsFiniteSet(Observed(r))
  BY <1>1, FS_Subset
<1>3. IsFiniteSet(rows \cup Observed(r))
  BY <1>2, FS_Union DEF Days
<1> QED
  BY <1>1, <1>3 DEF Days, CatalogueTypes

LEMMA RecordIsWritten ==
    ASSUME CatalogueTypes, StoreRecord
    PROVE  \E n, stored :
              /\ Writes(draft, stored, Head(todo), n)
              /\ IF Collides(stored, n)
                 THEN Finish("conflict") /\ draft' = table
                 ELSE draft' = stored /\ todo' = Tail(todo) /\ UNCHANGED <<step, outcome>>
<1> DEFINE r == Head(todo)
           found == Matches(draft, r)
           funds == IF found = {} THEN Append(draft, NewFund) ELSE draft
           stored(n) == [funds EXCEPT ![n] = Updated(funds[n].rows \cup Observed(r), funds[n], r)]
<1>1. PICK n \in IF found = {} THEN {Len(funds)} ELSE found :
         IF Collides(stored(n), n)
         THEN Finish("conflict") /\ draft' = table
         ELSE draft' = stored(n) /\ todo' = Tail(todo) /\ UNCHANGED <<step, outcome>>
  BY DEF StoreRecord
<1>2. r \in Received /\ draft \in Seq(Funds) /\ OneEach(draft)
  BY DEF CatalogueTypes, StoreRecord
<1>3. CASE found = {}
  <2> DEFINE g == Append(draft, NewFund)
  <2>1. n = Len(draft) + 1 /\ funds = g /\ g[n] = NewFund
    <3>1. draft \in Seq(Funds \cup {NewFund}) /\ NewFund \in Funds \cup {NewFund}
      BY <1>2
    <3>2. Len(g) = Len(draft) + 1 /\ g[Len(draft) + 1] = NewFund
      <4> HIDE DEF NewFund
      <4> QED
        BY <3>1
    <3> QED
      BY <1>1, <1>3, <3>2
  <2>2. {} \in Days
    BY FS_EmptySet DEF Days
  <2>3. funds[n].rows \in Days
    BY <2>1, <2>2 DEF NewFund
  <2> HIDE DEF g
  <2>4. funds[n].rows \cup Observed(r) \in Days
    BY <2>3, RowsObserved
  <2> HIDE DEF r
  <2>5. Writes(draft, [Append(draft, NewFund) EXCEPT ![Len(draft) + 1] =
                          Updated(funds[n].rows \cup Observed(r), funds[n], r)], r, Len(draft) + 1)
    BY <1>2, <1>3, <2>4, NewIsWritten
  <2>6. Writes(draft, stored(n), r, n)
    BY <2>1, <2>5 DEF g
  <2> HIDE DEF stored
  <2> QED
    BY <1>1, <2>6 DEF r
<1>4. CASE found # {}
  <2>1. n \in found /\ funds = draft
    BY <1>1, <1>4
  <2>2. n \in DOMAIN draft
    BY <1>2, <2>1, MatchesShare
  <2>3. funds[n].rows \in Days
    <3>1. draft[n] \in Funds
      BY <1>2, <2>2
    <3> QED
      BY <2>1, <3>1 DEF Funds
  <2>4. funds[n].rows \cup Observed(r) \in Days
    BY <2>3, RowsObserved
  <2> HIDE DEF r
  <2>5. Writes(draft, [draft EXCEPT ![n] = Updated(funds[n].rows \cup Observed(r), funds[n], r)], r, n)
    BY <1>2, <2>1, <2>4, FoundIsWritten
  <2>6. Writes(draft, stored(n), r, n)
    BY <2>1, <2>5
  <2> HIDE DEF stored
  <2> QED
    BY <1>1, <2>6 DEF r
<1> QED
  BY <1>3, <1>4

\* A record whose symbol another fund has is refused for that only.
LEMMA CollisionHasCause ==
    ASSUME NEW d \in Nat, NEW n, NEW r, r = records[d + 1], NEW stored, Writes(draft, stored, r, n),
           DOMAIN records = 1..Len(records), Len(records) \in Nat, d + 1 <= Len(records),
           Traced(d), Collides(stored, n)
    PROVE  /\ r.sym # None
           /\ \/ \E k \in DOMAIN table : table[k].sym = r.sym /\ table[k].ext # r.ext
              \/ \E p \in Pairs(records) : p[1].sym = r.sym /\ p[2].sym = r.sym
<1>1. PICK m \in DOMAIN stored \ {n} :
         stored[m].ext = stored[n].ext \/ (stored[m].sym = stored[n].sym /\ stored[n].sym # None)
  BY DEF Collides
<1>2. m \in DOMAIN draft /\ stored[m] = draft[m] /\ draft[m].ext # r.ext
  BY <1>1 DEF Writes
<1>3. stored[n].ext = r.ext /\ stored[n].sym = r.sym
  BY DEF Writes, Same
<1>4. draft[m].sym = r.sym /\ r.sym # None
  BY <1>1, <1>2, <1>3
<1>5. CASE m \in DOMAIN table /\ Same(draft[m], table[m])
  BY <1>2, <1>4, <1>5 DEF Same
<1>6. ASSUME NEW i \in 1..d, Same(draft[m], records[i])
      PROVE  \E p \in Pairs(records) : p[1].sym = r.sym /\ p[2].sym = r.sym
  <2>1. i \in DOMAIN records /\ d + 1 \in DOMAIN records
    OBVIOUS
  <2>2. records[i].ext # records[d + 1].ext /\ records[i].sym = r.sym
    BY <1>2, <1>4, <1>6 DEF Same
  <2>3. <<records[i], records[d + 1]>> \in Pairs(records)
    BY <2>1, <2>2, TwoShare
  <2> QED
    BY <2>2, <2>3
<1> QED
  BY <1>2, <1>4, <1>5, <1>6 DEF Traced

\* What a history is asked for is a record.
LEMMA QueuedAreRecords ==
    ASSUME CatalogueTypes, ChooseHistories
    PROVE  todo' \in Seq(Received) /\ \A j \in DOMAIN todo' : \E i \in DOMAIN records : todo'[j] = records[i]
<1> DEFINE active == {n \in DOMAIN records : records[n].active}
           count(i) == HistoryCount(records[i])
           e(i) == records[i].ext
           ahead(a) == {b \in active : Before(b, a)}
           queue == InOrder(active, Before)
           limit == IF origin = "csv" THEN 0 ELSE HistoryLimit
           length == IF Cardinality(active) < limit THEN Cardinality(active) ELSE limit
           R == {p \in active \X active : Before(p[1], p[2])}
<1>1. records \in Seq(Received) /\ Len(records) \in Nat /\ DOMAIN records = 1..Len(records)
  BY DEF CatalogueTypes
<1>2. IsFiniteSet(active) /\ Cardinality(active) \in Nat
  <2>1. IsFiniteSet(DOMAIN records)
    BY <1>1, FS_Interval
  <2> QED
    BY <2>1, FS_Subset, FS_CardinalityType
<1>3. \A i \in active : i \in DOMAIN records /\ i \in Int /\ records[i] \in Received /\ e(i) \in Int
  BY <1>1, ReceivedFields
<1>4. \A i \in active : count(i) \in Nat
  <2> SUFFICES ASSUME NEW i \in active, NEW n \in DOMAIN draft
               PROVE  Cardinality(draft[n].rows) \in Nat
    BY DEF HistoryCount, By
  <2>1. draft[n] \in Funds
    BY DEF CatalogueTypes
  <2> QED
    BY <2>1, FS_CardinalityType DEF Funds, Days
<1>5. \A i, j \in active : Before(i, j) <=>
          count(i) < count(j) \/ (count(i) = count(j) /\ (e(i) < e(j) \/ (e(i) = e(j) /\ i < j)))
  BY DEF Before
<1>6. queue = [n \in 1..Cardinality(active) |-> CHOOSE a \in active : Cardinality(ahead(a)) = n - 1]
  BY DEF InOrder
<1>7. todo' = [k \in 1..length |-> records[queue[k]]]
  BY DEF ChooseHistories
<1>8. limit \in Nat
  BY CatalogueAssumption
<1>8a. \A i, j \in active : <<i, j>> \in R <=> Before(i, j)
  OBVIOUS
<1>8b. \A a \in active : ahead(a) = Ahead(R, active, a)
  BY <1>8a DEF Ahead
<1> HIDE DEF active, count, e, queue, limit, ahead, R
<1>9. \A i, j \in active : <<i, j>> \in R <=>
          count(i) < count(j) \/ (count(i) = count(j) /\ (e(i) < e(j) \/ (e(i) = e(j) /\ i < j)))
  BY <1>5, <1>8a
<1>10. Orders(R, active)
  <2>1. \A i \in active : <<i, i>> \notin R
    BY <1>3, <1>4, <1>9
  <2>2. \A i, j \in active : i # j => <<i, j>> \in R \/ <<j, i>> \in R
    BY <1>3, <1>4, <1>9
  <2>3. \A i, j, k \in active : <<i, j>> \in R /\ <<j, k>> \in R => <<i, k>> \in R
    BY <1>3, <1>4, <1>9
  <2> QED
    BY <1>2, <2>1, <2>2, <2>3 DEF Orders
<1>11. queue = Sorted(R, active)
  BY <1>6, <1>8b DEF Sorted
<1>12. queue \in [1..Cardinality(active) -> active]
  BY <1>10, <1>11, SortedPlaces
<1>13. length \in Nat /\ \A k \in 1..length : k \in 1..Cardinality(active)
  BY <1>2, <1>8
<1> HIDE DEF length
<1>14. \A k \in 1..length : queue[k] \in DOMAIN records /\ records[queue[k]] \in Received
  BY <1>3, <1>12, <1>13
<1> QED
  BY <1>7, <1>13, <1>14

LEMMA StoreKeeps ==
    ASSUME CatalogueInv, StoreRecord
    PROVE  CatalogueInv'
<1>1. /\ records \in Seq(Received) /\ todo \in Seq(Received) /\ todo # <<>> /\ step = "store"
      /\ draft \in Seq(Funds) /\ table \in Seq(Funds) /\ OneEach(draft) /\ OneEach(table)
      /\ today \in Int /\ UNCHANGED <<table, today, catalogue, records>>
  BY DEF CatalogueInv, CatalogueTypes, StoreRecord
<1>2. /\ Len(records) \in Nat /\ DOMAIN records = 1..Len(records)
      /\ Len(todo) \in Nat /\ Len(todo) > 0
      /\ Len(todo) <= Len(records)
      /\ \A j \in 1..Len(todo) : todo[j] = records[Len(records) - Len(todo) + j]
  BY <1>1 DEF CatalogueInv, Remaining
<1>2a. PICK d \in Nat : d = Len(records) - Len(todo) /\ d + 1 <= Len(records)
  <2>1. ASSUME NEW x \in Nat, NEW y \in Nat, y > 0, y <= x
        PROVE  x - y \in Nat /\ (x - y) + 1 <= x
    BY <2>1
  <2>2. Len(records) - Len(todo) \in Nat /\ (Len(records) - Len(todo)) + 1 <= Len(records)
    BY <1>2, <2>1
  <2> QED
    BY <2>2
<1>2b. PICK r : r = Head(todo)
  OBVIOUS
<1>3. d = Len(records) - Len(todo) /\ d + 1 <= Len(records) /\ r = records[d + 1]
  <2>1. r = todo[1] /\ 1 \in 1..Len(todo)
    BY <1>1, <1>2, <1>2b
  <2> QED
    BY <1>2, <1>2a, <2>1
<1>3a. Done = d
  BY <1>1, <1>3 DEF Done
<1>4. Traced(d) /\ Placed(d) /\ \A n \in DOMAIN table : Named(d, table[n].ext)
  BY <1>1, <1>3a DEF CatalogueInv, Progressing
<1>5. PICK n, stored :
         /\ Writes(draft, stored, r, n)
         /\ IF Collides(stored, n)
            THEN Finish("conflict") /\ draft' = table
            ELSE draft' = stored /\ todo' = Tail(todo) /\ UNCHANGED <<step, outcome>>
  BY <1>2b, RecordIsWritten DEF CatalogueInv
<1>6. d + 1 \in DOMAIN records
  BY <1>2, <1>3
<1>7. CASE Collides(stored, n)
  <2>1. step' = "idle" /\ outcome' = "conflict" /\ todo' = <<>> /\ draft' = table
    BY <1>5, <1>7 DEF Finish
  <2>2. CatalogueTypes' /\ Remaining' /\ Progressing'
    BY <1>1, <2>1 DEF CatalogueTypes, Remaining, Progressing, OneEach
  <2>3. /\ r.sym # None
        /\ \/ \E k \in DOMAIN table : table[k].sym = r.sym /\ table[k].ext # r.ext
           \/ \E p \in Pairs(records) : p[1].sym = r.sym /\ p[2].sym = r.sym
    BY <1>2, <1>3, <1>4, <1>5, <1>7, CollisionHasCause
  <2>4. records' = records /\ table' = table /\ Pairs(records)' = Pairs(records)
    BY <1>1 DEF Pairs
  <2>5. FailureHasCause'
    BY <1>3, <1>6, <2>1, <2>3, <2>4 DEF FailureHasCause
  <2> QED
    BY <2>2, <2>5 DEF CatalogueInv
<1>8. CASE ~Collides(stored, n)
  <2>1. /\ draft' = stored /\ todo' = Tail(todo) /\ step' = step /\ outcome' = outcome
        /\ Writes(draft, draft', r, n)
    BY <1>5, <1>8
  <2>2. OneEach(draft)' /\ draft' \in Seq(Funds)
    <3>1. OneEach(stored)
      BY <1>1, <1>5, WrittenIsOneEach
    <3> QED
      BY <1>5, <2>1, <3>1 DEF OneEach, Writes
  <2>3. /\ todo' \in Seq(Received) /\ Len(todo') = Len(todo) - 1
        /\ \A j \in 1..Len(todo') : todo'[j] = todo[j + 1]
    BY <1>1, <1>2, <2>1
  <2>4. CatalogueTypes'
    BY <1>1, <2>1, <2>2, <2>3 DEF CatalogueTypes, OneEach
  <2>5. Remaining'
    <3>1. \A j \in 1..Len(todo') : todo'[j] = records'[Len(records') - Len(todo') + j]
      <4> SUFFICES ASSUME NEW j \in 1..Len(todo')
                   PROVE  todo'[j] = records[Len(records) - Len(todo') + j]
        BY <1>1
      <4>1. j + 1 \in 1..Len(todo) /\ Len(records) - Len(todo) + (j + 1) = Len(records) - Len(todo') + j
        BY <1>2, <2>3
      <4>2. todo[j + 1] = records[Len(records) - Len(todo) + (j + 1)]
        BY <1>2, <4>1
      <4> QED
        BY <2>3, <4>1, <4>2
    <3> QED
      BY <1>1, <1>2, <2>1, <2>3, <3>1 DEF Remaining
  <2>6. Done' = d + 1
    BY <1>1, <1>2, <1>3, <2>1, <2>3 DEF Done
  <2>7. Traced(d + 1)'
    BY <1>1, <1>3, <1>4, <2>1, WrittenIsTraced
  <2>8. Placed(d + 1)'
    BY <1>1, <1>2, <1>3, <1>4, <2>1, WrittenIsPlaced
  <2>9. \A k \in DOMAIN table : Named(d + 1, table[k].ext)'
    <3> SUFFICES ASSUME NEW k \in DOMAIN table
                 PROVE  Named(d + 1, table[k].ext)'
      OBVIOUS
    <3>1. PICK e : e = table[k].ext
      OBVIOUS
    <3>2. Named(d, e) /\ e = table'[k].ext
      BY <1>1, <1>4, <3>1
    <3>3. Named(d + 1, e)'
      BY <1>1, <1>2, <1>3, <1>4, <2>1, <3>2, WrittenIsNamed
    <3> QED
      BY <3>2, <3>3
  <2>10. Progressing'
    BY <1>1, <2>6, <2>7, <2>8, <2>9 DEF Progressing
  <2>11. FailureHasCause'
    <3>1. FailureHasCause
      BY DEF CatalogueInv
    <3> QED
      BY <1>1, <2>1, <3>1 DEF FailureHasCause
  <2> QED
    BY <2>4, <2>5, <2>10, <2>11 DEF CatalogueInv
<1> QED
  BY <1>7, <1>8

LEMMA OthersKeepCause ==
    ASSUME FailureHasCause, UNCHANGED <<table, records>>,
           outcome' \in {outcome, "running", "refused", "success"}
    PROVE  FailureHasCause'
BY DEF FailureHasCause

LEMMA FetchKeeps ==
    ASSUME CatalogueInv, NEW seq \in Seq(Received), draft' = table, table' = table, Later,
           todo' \in Seq(Received), records' \in Seq(Received),
           outcome' \in {"running", "refused"},
           \/ step' = "idle"
           \/ step' = "store" /\ records' = seq /\ todo' = seq
    PROVE  CatalogueInv'
<1>1. table \in Seq(Funds) /\ OneEach(table) /\ today \in Int
  BY DEF CatalogueInv, CatalogueTypes
<1>2. CatalogueTypes'
  BY <1>1 DEF CatalogueTypes, OneEach, Later
<1>3. FailureHasCause'
  BY DEF FailureHasCause
<1>4. CASE step' = "idle"
  BY <1>2, <1>3, <1>4 DEF CatalogueInv, Remaining, Progressing
<1>5. CASE step' = "store" /\ records' = seq /\ todo' = seq
  <2>1. Len(seq) \in Nat
    OBVIOUS
  <2>2. Len(records') - Len(todo') = 0
    BY <1>5, <2>1
  <2>3. Done' = 0
    BY <1>5, <2>2 DEF Done
  <2>4. Remaining'
    <3>1. \A j \in 1..Len(seq) : Len(seq) - Len(seq) + j = j
      BY <2>1
    <3>2. \A j \in 1..Len(todo') : todo'[j] = records'[Len(records') - Len(todo') + j]
      BY <1>5, <3>1
    <3> QED
      BY <1>5, <2>1, <3>2 DEF Remaining
  <2>5. 1..0 = {}
    OBVIOUS
  <2>6. Traced(0)' /\ Placed(0)' /\ \A n \in DOMAIN table' : Named(0, table[n].ext)'
    <3>1. Traced(0)'
      BY DEF Traced, Same
    <3>2. Placed(0)'
      BY <2>5 DEF Placed
    <3>3. \A n \in DOMAIN table' : Named(0, table[n].ext)'
      BY DEF Named
    <3> QED
      BY <3>1, <3>2, <3>3
  <2>7. Progressing'
    BY <2>3, <2>6 DEF Progressing
  <2> QED
    BY <1>2, <1>3, <2>4, <2>7 DEF CatalogueInv
<1> QED
  BY <1>4, <1>5

\* A history adds rows: of no fund the number, the symbol, the name or the type changes.
LEMMA HistoryKeeps ==
    ASSUME CatalogueInv, NEW new, \A s \in Days : new[s] \in Days, step = "history", todo # <<>>,
           NEW n \in DOMAIN draft, draft' = [draft EXCEPT ![n].rows = new[draft[n].rows]],
           todo' = Tail(todo), UNCHANGED <<table, today, catalogue, records, step, outcome>>
    PROVE  CatalogueInv'
<1>1. /\ draft \in Seq(Funds) /\ todo \in Seq(Received) /\ Len(draft) \in Nat
      /\ DOMAIN draft = 1..Len(draft) /\ \A m \in DOMAIN draft : draft[m] \in Funds
      /\ CatalogueTypes
  BY DEF CatalogueInv, CatalogueTypes
<1>2. DOMAIN draft' = DOMAIN draft /\ \A m \in DOMAIN draft : m # n => draft'[m] = draft[m]
  OBVIOUS
<1>3. draft'[n] \in Funds /\ Same(draft'[n], draft[n])
  <2>1. draft[n] \in Funds
    BY <1>1
  <2>2. draft'[n] = [draft[n] EXCEPT !.rows = new[draft[n].rows]]
    OBVIOUS
  <2> QED
    BY <2>1, <2>2 DEF Funds, Same
<1>4. \A m \in DOMAIN draft : draft'[m] \in Funds /\ Same(draft'[m], draft[m])
  BY <1>1, <1>2, <1>3 DEF Same
<1>5. draft' = [m \in 1..Len(draft) |-> draft'[m]]
  BY <1>1
<1>6. draft' \in Seq(Funds)
  <2>1. PICK g : g = draft'
    OBVIOUS
  <2>2. \A m \in 1..Len(draft) : g[m] \in Funds
    BY <1>1, <1>4, <2>1
  <2>3. g = [m \in 1..Len(draft) |-> g[m]]
    BY <1>5, <2>1
  <2>4. g \in Seq(Funds)
    BY <1>1, <2>2, <2>3
  <2> QED
    BY <2>1, <2>4
<1>7. OneEach(draft)'
  BY <1>1, <1>2, <1>4 DEF OneEach, CatalogueTypes, Same
<1>8. todo' \in Seq(Received) /\ Len(todo) \in Nat /\ Len(todo') = Len(todo) - 1
      /\ \A j \in 1..Len(todo') : j + 1 \in 1..Len(todo) /\ todo'[j] = todo[j + 1]
  BY <1>1
<1>9. CatalogueTypes'
  BY <1>1, <1>6, <1>7, <1>8 DEF CatalogueTypes, OneEach
<1>10. Remaining'
  <2>1. \A j \in DOMAIN todo : \E i \in DOMAIN records : todo[j] = records[i]
    BY DEF CatalogueInv, Remaining
  <2>2. \A j \in DOMAIN todo' : \E i \in DOMAIN records : todo'[j] = records[i]
    BY <1>1, <1>8, <2>1
  <2> QED
    BY <2>2 DEF Remaining
<1>11. PICK d : d = Len(records)
  OBVIOUS
<1>12. Done = d /\ Done' = d
  BY <1>11 DEF Done
<1>13. Traced(d) /\ Placed(d) /\ \A k \in DOMAIN table : Named(d, table[k].ext)
  BY <1>12 DEF CatalogueInv, Progressing
<1>14. Traced(d)'
  BY <1>2, <1>4, <1>13 DEF Traced, Same
<1>15. Placed(d)'
  <2>1. Sharing' <=> Sharing
    BY DEF Sharing
  <2> QED
    BY <1>2, <1>4, <1>13, <2>1 DEF Placed, Same
<1>16. \A k \in DOMAIN table' : Named(d, table[k].ext)'
  <2> SUFFICES ASSUME NEW k \in DOMAIN table
               PROVE  Named(d, table[k].ext)'
    OBVIOUS
  <2>1. PICK e : e = table[k].ext
    OBVIOUS
  <2>2. Named(d, e) /\ e = table'[k].ext
    BY <1>13, <2>1
  <2>3. Versions(e)' = Versions(e)
    BY DEF Versions, By
  <2>4. Named(d, e)'
    BY <1>2, <1>4, <2>2, <2>3 DEF Named, Same
  <2> QED
    BY <2>2, <2>4
<1>17. FailureHasCause'
  BY OthersKeepCause DEF CatalogueInv
<1> QED
  BY <1>9, <1>10, <1>12, <1>14, <1>15, <1>16, <1>17 DEF CatalogueInv, Progressing

LEMMA CatalogueInvariant == CatalogueSpec => []CatalogueInv
<1>1. CatalogueInit => CatalogueInv
  <2> SUFFICES ASSUME CatalogueInit
               PROVE  CatalogueInv
    OBVIOUS
  <2>1. CatalogueTypes
    BY DEF CatalogueInit, CatalogueTypes, OneEach
  <2> QED
    BY <2>1 DEF CatalogueInit, CatalogueInv, Remaining, Progressing, FailureHasCause
<1>2. ASSUME CatalogueInv, NEW c \in Catalogues, Fetch(c)
      PROVE  CatalogueInv'
  <2>1. Parsed(c) \in Seq(Received) /\ <<>> \in Seq(Received)
    BY ParsedIsReceived
  <2>2. draft' = table /\ table' = table /\ Later
    BY <1>2 DEF Fetch
  <2>3. /\ todo' \in Seq(Received) /\ records' \in Seq(Received)
        /\ outcome' \in {"running", "refused"}
        /\ \/ step' = "idle"
           \/ step' = "store" /\ records' = Parsed(c) /\ todo' = Parsed(c)
    BY <1>2, <2>1 DEF Fetch, Finish
  <2> QED
    BY <1>2, <2>1, <2>2, <2>3, FetchKeeps
<1>3. ASSUME CatalogueInv, NEW c \in Files, FetchFile(c)
      PROVE  CatalogueInv'
  <2>1. draft' = table /\ table' = table /\ Later
    BY <1>3 DEF FetchFile
  <2>2. CASE \E n \in DOMAIN c : c[n].ext = None
    <3>1. <<>> \in Seq(Received)
      OBVIOUS
    <3>2. step' = "idle" /\ outcome' = "refused" /\ todo' = <<>> /\ records' = <<>>
      BY <1>3, <2>2 DEF FetchFile, Finish
    <3> QED
      BY <1>3, <2>1, <3>1, <3>2, FetchKeeps
  <2>3. CASE ~(\E n \in DOMAIN c : c[n].ext = None)
    <3>1. c \in Seq(Received)
      BY <2>3, FileIsReceived
    <3>2. step' = "store" /\ outcome' = "running" /\ todo' = c /\ records' = c
      BY <1>3, <2>3 DEF FetchFile
    <3> QED
      BY <1>3, <2>1, <3>1, <3>2, FetchKeeps
  <2> QED
    BY <2>2, <2>3
<1>4. ASSUME CatalogueInv, StoreRecord
      PROVE  CatalogueInv'
  BY <1>4, StoreKeeps
<1>5. ASSUME CatalogueInv, ChooseHistories
      PROVE  CatalogueInv'
  <2>1. /\ todo' \in Seq(Received)
        /\ \A j \in DOMAIN todo' : \E i \in DOMAIN records : todo'[j] = records[i]
    BY <1>5, QueuedAreRecords DEF CatalogueInv
  <2>2. /\ step = "store" /\ todo = <<>> /\ step' = "history"
        /\ UNCHANGED <<table, draft, today, catalogue, records, outcome>>
    BY <1>5 DEF ChooseHistories
  <2>3. Len(records) \in Nat /\ Len(todo) = 0 /\ CatalogueTypes
    BY <1>5, <2>2 DEF CatalogueInv, CatalogueTypes
  <2>4. PICK d : d = Len(records)
    OBVIOUS
  <2>5. Done = d /\ Done' = d
    BY <2>2, <2>3, <2>4 DEF Done
  <2>6. CatalogueTypes'
    BY <2>1, <2>2, <2>3 DEF CatalogueTypes, OneEach
  <2>7. Remaining'
    BY <2>1, <2>2 DEF Remaining
  <2>8. Traced(d) /\ Placed(d) /\ \A n \in DOMAIN table : Named(d, table[n].ext)
    BY <1>5, <2>2, <2>5 DEF CatalogueInv, Progressing
  <2>9. Traced(d)' /\ Placed(d)' /\ \A n \in DOMAIN table' : Named(d, table[n].ext)'
    BY <2>2, <2>8 DEF Traced, Placed, Named, Sharing, Versions, By
  <2>10. FailureHasCause'
    BY <1>5, <2>2, OthersKeepCause DEF CatalogueInv
  <2> QED
    BY <2>5, <2>6, <2>7, <2>9, <2>10 DEF CatalogueInv, Progressing
<1>6. ASSUME CatalogueInv, FundMissing
      PROVE  CatalogueInv'
  <2>1. /\ step = "history" /\ todo # <<>> /\ \A n \in DOMAIN draft : draft[n].ext # Head(todo).ext
        /\ step' = "idle" /\ outcome' = "assertion" /\ todo' = <<>> /\ draft' = table
        /\ UNCHANGED <<table, today, catalogue, records>>
    BY <1>6 DEF FundMissing, Finish, By
  <2>2. CatalogueTypes /\ Remaining /\ Len(records) \in Nat /\ DOMAIN records = 1..Len(records)
    BY <1>6 DEF CatalogueInv, CatalogueTypes
  <2>3. 1 \in DOMAIN todo /\ Head(todo) = todo[1]
    BY <2>1, <2>2 DEF CatalogueTypes
  <2>4. PICK i \in DOMAIN records : Head(todo) = records[i]
    BY <2>1, <2>2, <2>3 DEF Remaining
  <2>5. Placed(Len(records))
    BY <1>6, <2>1 DEF CatalogueInv, Progressing, Done
  <2>6. Sharing
    BY <2>1, <2>2, <2>4, <2>5 DEF Placed
  <2>7. FailureHasCause'
    BY <2>1, <2>6 DEF FailureHasCause, Sharing
  <2>8. CatalogueTypes'
    BY <2>1, <2>2 DEF CatalogueTypes, OneEach
  <2> QED
    BY <2>1, <2>7, <2>8 DEF CatalogueInv, Remaining, Progressing
<1>7. ASSUME CatalogueInv, NEW ext \in Numbers, HistoryArrives(ext) \/ HistoryFails(ext)
      PROVE  CatalogueInv'
  <2>1. CatalogueTypes
    BY <1>7 DEF CatalogueInv
  <2>2. CASE HistoryArrives(ext)
    <3>1. PICK new : new = [s \in Days |-> s \cup (Since[ext]..today)]
      OBVIOUS
    <3>2. \A s \in Days : new[s] = s \cup (Since[ext]..today)
      BY <3>1
    <3>3. \A s \in Days : new[s] \in Days
      <4>1. IsFiniteSet(Since[ext]..today) /\ Since[ext]..today \in SUBSET Int
        BY <2>1, CatalogueAssumption, FS_Interval DEF CatalogueTypes, Numbers
      <4>2. ASSUME NEW s \in Days, NEW u \in SUBSET Int, IsFiniteSet(u)
            PROVE  s \cup u \in Days
        <5>1. IsFiniteSet(s \cup u)
          BY <4>2, FS_Union DEF Days
        <5> QED
          BY <5>1 DEF Days
      <4> QED
        BY <3>2, <4>1, <4>2
    <3>4. PICK n \in DOMAIN draft : draft' = [draft EXCEPT ![n].rows = @ \cup (Since[ext]..today)]
      BY <2>2 DEF HistoryArrives, History, By
    <3>5. draft[n] \in Funds
      BY <2>1 DEF CatalogueTypes
    <3>6. draft[n].rows \in Days
      BY <3>5 DEF Funds
    <3>7. draft' = [draft EXCEPT ![n].rows = new[draft[n].rows]]
      BY <3>2, <3>4, <3>6
    <3>8. step = "history" /\ todo # <<>> /\ todo' = Tail(todo)
          /\ UNCHANGED <<table, today, catalogue, records, step, outcome>>
      BY <2>2 DEF HistoryArrives, History
    <3> QED
      BY <1>7, <3>3, <3>7, <3>8, HistoryKeeps
  <2>3. CASE HistoryFails(ext)
    <3>1. PICK new : new = [s \in Days |-> s]
      OBVIOUS
    <3>2. \A s \in Days : new[s] = s
      BY <3>1
    <3>3. PICK n \in DOMAIN draft : draft' = [draft EXCEPT ![n].rows = @]
      BY <2>3 DEF HistoryFails, History, By
    <3>4. draft[n] \in Funds
      BY <2>1 DEF CatalogueTypes
    <3>5. draft[n].rows \in Days
      BY <3>4 DEF Funds
    <3>6. draft' = [draft EXCEPT ![n].rows = new[draft[n].rows]]
      BY <3>2, <3>3, <3>5
    <3>7. step = "history" /\ todo # <<>> /\ todo' = Tail(todo)
          /\ UNCHANGED <<table, today, catalogue, records, step, outcome>>
      BY <2>3 DEF HistoryFails, History
    <3> QED
      BY <1>7, <3>2, <3>6, <3>7, HistoryKeeps
  <2> QED
    BY <1>7, <2>2, <2>3
<1>8. ASSUME CatalogueInv, Commit
      PROVE  CatalogueInv'
  <2>1. /\ step' = "idle" /\ outcome' = "success" /\ todo' = <<>> /\ table' = draft /\ draft' = draft
        /\ UNCHANGED <<today, catalogue, records>>
    BY <1>8 DEF Commit, Finish
  <2>2. CatalogueTypes'
    BY <1>8, <2>1 DEF CatalogueInv, CatalogueTypes, OneEach
  <2> QED
    BY <2>1, <2>2 DEF CatalogueInv, Remaining, Progressing, FailureHasCause
<1>9. ASSUME CatalogueInv, UNCHANGED catalogueVars
      PROVE  CatalogueInv'
  <2>1. /\ UNCHANGED <<table, draft, today, catalogue, origin, records, todo, step, outcome>>
        /\ UNCHANGED catalogueVars
    BY <1>9 DEF catalogueVars
  <2>2. CatalogueTypes' /\ Remaining'
    BY <1>9, <2>1 DEF CatalogueInv, CatalogueTypes, Remaining, OneEach
  <2>3. Progressing'
    BY <1>9, <2>1 DEF CatalogueInv, Progressing, Done, Traced, Placed, Named, Sharing, Versions, By
  <2>4. FailureHasCause'
    BY <1>9, <2>1, OthersKeepCause DEF CatalogueInv
  <2> QED
    BY <2>2, <2>3, <2>4 DEF CatalogueInv
<1>10. CatalogueInv /\ [CatalogueNext]_catalogueVars => CatalogueInv'
  BY <1>2, <1>3, <1>4, <1>5, <1>6, <1>7, <1>8, <1>9 DEF CatalogueNext, Refreshing
<1> QED
  BY <1>1, <1>10, PTL DEF CatalogueSpec

\* A catalogue that was accepted makes a refresh fail only because two of its records share
\* something, or because a symbol it has belongs to a fund with another number (services/
\* data_refresh.py l.117-133, l.225).
THEOREM FailuresHaveCause == CatalogueSpec => []FailureHasCause
<1>1. CatalogueInv => FailureHasCause
  BY DEF CatalogueInv
<1> QED
  BY <1>1, CatalogueInvariant, PTL

\* What the code guarantees of a number in the table (data_refresh.py l.117-143): it is
\* there after a successful refresh, unless a record of another number shares its symbol,
\* or its name and its type.  (docs/provider-fallback.md l.14 allows the first only.)
THEOREM NumbersAreKept == CatalogueSpec => NumbersGoWithCause
<1> DEFINE Kept ==
       outcome' = "success" =>
          \A n \in DOMAIN table : LET ext == table[n].ext IN
              \/ By(table', LAMBDA f : f.ext = ext) # {}
              \/ \E k \in DOMAIN records :
                    records[k].ext # ext /\ \E v \in Versions(ext) : Shares(records[k], v)
<1>1. ASSUME CatalogueInv, CatalogueNext
      PROVE  Kept
  <2>1. CASE table' = table
    BY <2>1 DEF By
  <2>2. CASE Commit
    <3> SUFFICES ASSUME NEW n \in DOMAIN table
                 PROVE  \/ \E m \in DOMAIN draft : draft[m].ext = table[n].ext
                        \/ \E k \in DOMAIN records :
                              /\ records[k].ext # table[n].ext
                              /\ \E v \in Versions(table[n].ext) : Shares(records[k], v)
      BY <2>2 DEF Commit, By
    <3>1. Named(Len(records), table[n].ext) /\ DOMAIN records = 1..Len(records)
      BY <1>1, <2>2 DEF CatalogueInv, CatalogueTypes, Progressing, Done, Commit
    <3> QED
      BY <3>1 DEF Named
  <2>3. table' = table \/ Commit
    BY <1>1 DEF CatalogueNext, Refreshing, Fetch, FetchFile, StoreRecord, ChooseHistories,
                FundMissing, HistoryArrives, HistoryFails, History
  <2> QED
    BY <2>1, <2>2, <2>3
<1>2. CatalogueInv /\ [CatalogueNext]_catalogueVars => [Kept]_catalogueVars
  BY <1>1
<1>3. CatalogueSpec => [][Kept]_catalogueVars
  BY <1>2, CatalogueInvariant, PTL DEF CatalogueSpec
<1> QED
  BY <1>3 DEF NumbersGoWithCause
=============================================================================
