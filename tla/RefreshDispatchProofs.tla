----------------------- MODULE RefreshDispatchProofs -----------------------
(***************************************************************************)
(* Proofs about RefreshDispatch, for any number of API threads, any        *)
(* outcomes of the sources, any retries and any number of histories.       *)
(***************************************************************************)
EXTENDS RefreshDispatch, TLAPS

\* The providers of each mode, spelled out.
LEMMA ChainIs ==
    ASSUME TypeOK
    PROVE  /\ mode \in {"csv", "fipiran", "chain"}
           /\ mode = "csv" => Chain = <<"file">>
           /\ mode = "fipiran" => Chain = <<"fipiran">>
           /\ mode = "chain" => Chain = <<"fipiran", "file">>
BY DispatchAssumption DEF TypeOK, Chain

\* A caller that is asking a source asks one of the chain, after it has given up
\* those before; a caller that was answered keeps to the source that answered.
Tracked(c) ==
    /\ pc[c] \in {"fetch", "write", "history"} =>
          /\ call[c].at = 1 => call[c].failed = {}
          /\ call[c].at = 2 => mode = "chain" /\ call[c].failed = {"fipiran"}
          /\ call[c].raised = "none"
    /\ pc[c] = "fetch" => call[c].asked = {}
    /\ pc[c] \in {"write", "history"} =>
          /\ call[c].selected = Asked(c)
          /\ call[c].asked \subseteq {call[c].selected}
Tracks == \A c \in Callers : Tracked(c)

Inv == TypeOK /\ Tracks /\ Provenance /\ LockedByOne /\ Answered /\ FallsBack

\* The source that a tracked caller asks.
LEMMA AskedIs ==
    ASSUME TypeOK, Tracks, NEW c \in Callers, pc[c] \in {"fetch", "write", "history"}
    PROVE  /\ Asked(c) \in Sources
           /\ Asked(c) = IF mode = "csv" \/ call[c].at = 2 THEN "file" ELSE "fipiran"
<1>1. call[c].at \in {1, 2} /\ (call[c].at = 2 => mode = "chain")
  BY DEF TypeOK, Call, Tracks, Tracked
<1> QED
  BY <1>1, ChainIs DEF Asked, Sources

\* Updates of a call that keep its type.
LEMMA NoCallType == NoCall \in Call
BY DEF NoCall, Call

LEMMA RaisedType ==
    ASSUME NEW c \in Callers, call[c] \in Call, NEW kind \in Exceptions
    PROVE  [call[c] EXCEPT !.raised = kind] \in Call
BY DEF Call

LEMMA HistoryType ==
    ASSUME NEW r \in Call, r.todo > 0, NEW D \in SUBSET Sources
    PROVE  [r EXCEPT !.todo = @ - 1, !.asked = @ \cup D] \in Call
<1>1. [r EXCEPT !.todo = r.todo - 1] \in Call
  <2>1. r.todo - 1 \in Nat
    BY DEF Call
  <2> QED
    BY <2>1 DEF Call
<1>2. ASSUME NEW s \in Call, NEW E \in SUBSET Sources
      PROVE  [s EXCEPT !.asked = E] \in Call
  BY <1>2 DEF Call
<1>3. r.asked \cup D \in SUBSET Sources
  BY DEF Call
<1>4. [r EXCEPT !.todo = @ - 1, !.asked = @ \cup D]
        = [[r EXCEPT !.todo = r.todo - 1] EXCEPT !.asked = r.asked \cup D]
  BY DEF Call
<1> QED
  BY <1>1, <1>2, <1>3, <1>4

LEMMA GivenUpType ==
    ASSUME NEW r \in Call, NEW F \in SUBSET Sources
    PROVE  [r EXCEPT !.at = 2, !.failed = F] \in Call
<1>1. [r EXCEPT !.at = 2] \in Call
  BY DEF Call
<1>2. ASSUME NEW s \in Call
      PROVE  [s EXCEPT !.failed = F] \in Call
  BY <1>2 DEF Call
<1>3. [r EXCEPT !.at = 2, !.failed = F] = [[r EXCEPT !.at = 2] EXCEPT !.failed = F]
  BY DEF Call
<1> QED
  BY <1>1, <1>2, <1>3

\* The steps before the end of a call, and the location they lead to.
Raises(c) ==
    \/ Refuse(c) \/ ChainRaises(c) \/ FetchRaises(c) \/ DatabaseRaises(c) \/ HistoryRaises(c)
    \/ FallBack(c) /\ pc'[c] = "raise"
Goes(c) ==
    \/ FetchRecords(c) \/ FetchEmpty(c) \/ FetchAgain(c) \/ Write(c) \/ FetchHistory(c)
    \/ FallBack(c) /\ pc'[c] = "fetch"
Catches(c) == WorkerCatches(c) \/ ApiCatches(c) \/ CliCatches(c)

LEMMA RaisesFrame ==
    ASSUME TypeOK, Tracks, NEW c \in Callers, Raises(c)
    PROVE  /\ \E kind \in Exceptions :
                 /\ call' = [call EXCEPT ![c] = [call[c] EXCEPT !.raised = kind]]
                 /\ kind = "overlap" <=> pc[c] = "call"
                 /\ kind # "start"
           /\ pc' = [pc EXCEPT ![c] = "raise"]
           /\ pc[c] \in {"call", "fetch", "write", "history"}
           /\ pc[c] = "call" => c \in ApiCallers /\ locked
           /\ UNCHANGED <<mode, locked, lost, stored, answer>>
<1> USE DEF RaiseFrom, Goto, Update, Exceptions, Fetched
<1>1. CASE Refuse(c)
  BY <1>1 DEF Refuse
<1>2. CASE ChainRaises(c)
  <2>1. Asked(c) \in Sources /\ Outcomes[Asked(c)] \subseteq {"records", "empty"} \cup Fetched
    BY <1>2, AskedIs, DispatchAssumption DEF ChainRaises
  <2> QED
    BY <1>2, <2>1 DEF ChainRaises, Caught
<1>3. CASE FetchRaises(c)
  <2>1. Asked(c) \in Sources /\ Outcomes[Asked(c)] \subseteq {"records", "empty"} \cup Fetched
    BY <1>3, AskedIs, DispatchAssumption DEF FetchRaises
  <2> QED
    BY <1>3, <2>1 DEF FetchRaises
<1>4. CASE DatabaseRaises(c)
  BY <1>4 DEF DatabaseRaises
<1>5. CASE HistoryRaises(c)
  BY <1>5, DispatchAssumption DEF HistoryRaises
<1>6. CASE FallBack(c) /\ pc'[c] = "raise"
  BY <1>6 DEF FallBack, TypeOK
<1> QED
  BY <1>1, <1>2, <1>3, <1>4, <1>5, <1>6 DEF Raises

LEMMA GoesFrame ==
    ASSUME TypeOK, Tracks, NEW c \in Callers, Goes(c)
    PROVE  /\ pc[c] \in {"fetch", "write", "history"}
           /\ pc'[c] \in {"fetch", "write", "history"}
           /\ pc' = [pc EXCEPT ![c] = pc'[c]]
           /\ \E new \in Call : call' = [call EXCEPT ![c] = new]
           /\ Tracked(c)'
           /\ UNCHANGED <<mode, locked, lost, stored, answer>>
<1> USE DEF Goto, Update, TypeOK
<1>0. call[c] \in Call /\ Tracked(c)
  BY DEF Tracks
<1>1. CASE FetchRecords(c) \/ FetchEmpty(c)
  <2>1. Asked(c) \in Sources /\ Selected(c) \in Call /\ call'[c] = Selected(c)
    BY <1>0, <1>1, AskedIs DEF FetchRecords, FetchEmpty, Selected, Call
  <2>2. Tracked(c)'
    BY <1>0, <1>1, <2>1, ZenonT(30) DEF FetchRecords, FetchEmpty, Selected, Call, Tracked, Asked, Chain
  <2> QED
    BY <1>1, <2>1, <2>2 DEF FetchRecords, FetchEmpty
<1>2. CASE FetchAgain(c)
  <2>1. [call[c] EXCEPT !.attempt = @ + 1] \in Call
    BY <1>0, SMTT(20) DEF Call
  <2>2. Tracked(c)'
    BY <1>0, <1>2 DEF FetchAgain, Call, Tracked
  <2> QED
    BY <1>2, <2>1, <2>2 DEF FetchAgain
<1>3. CASE Write(c)
  <2>1. PICK n \in Nat : call' = [call EXCEPT ![c] = [call[c] EXCEPT !.todo = n]]
    <3>1. (IF HasHistory THEN 0..HistoryFunds ELSE {0}) \subseteq Nat
      BY DispatchAssumption
    <3> QED
      BY <1>3, <3>1 DEF Write
  <2>2. [call[c] EXCEPT !.todo = n] \in Call
    BY <1>0 DEF Call
  <2>3. Tracked(c)'
    BY <1>0, <1>3, <2>1 DEF Write, Call, Tracked, Asked, Chain
  <2> QED
    BY <1>3, <2>1, <2>2, <2>3 DEF Write
<1>4. CASE FetchHistory(c)
  <2>1. Delegate(c) \subseteq {call[c].selected} /\ Delegate(c) \subseteq Sources
    BY DEF Delegate, Sources
  <2>2. [call[c] EXCEPT !.todo = @ - 1, !.asked = @ \cup Delegate(c)] \in Call
    BY <1>0, <1>4, <2>1, HistoryType DEF FetchHistory
  <2>3. /\ pc[c] = "history" /\ pc'[c] = "history" /\ mode' = mode
        /\ call'[c] = [call[c] EXCEPT !.todo = @ - 1, !.asked = @ \cup Delegate(c)]
    BY <1>4 DEF FetchHistory
  <2>4. /\ call'[c].at = call[c].at /\ call'[c].failed = call[c].failed
        /\ call'[c].selected = call[c].selected /\ call'[c].raised = call[c].raised
        /\ call'[c].asked = call[c].asked \cup Delegate(c)
    BY <1>0, <2>3 DEF Call
  <2>5. Tracked(c)'
    BY <1>0, <2>1, <2>3, <2>4 DEF Tracked, Asked, Chain
  <2> QED
    BY <1>4, <2>2, <2>5 DEF FetchHistory
<1>5. CASE FallBack(c) /\ pc'[c] = "fetch"
  <2>1. Asked(c) \in Sources /\ mode = "chain" /\ Chain = <<"fipiran", "file">>
    BY <1>5, AskedIs, ChainIs DEF FallBack
  <2>2. /\ pc[c] = "fetch" /\ call[c].at < Len(Chain) /\ UNCHANGED pc
        /\ call' = [call EXCEPT ![c] = [call[c] EXCEPT !.at = @ + 1, !.failed = GivenUp(c)]]
    BY <1>0, <1>5 DEF FallBack, RaiseFrom
  <2>5. call[c].at = 1 /\ call[c].failed = {}
    BY <1>0, <2>1, <2>2 DEF Call, Tracked
  <2>6. GivenUp(c) = {"fipiran"}
    BY <2>1, <2>5 DEF GivenUp, Asked
  <2>7. [call[c] EXCEPT !.at = @ + 1, !.failed = GivenUp(c)] = [call[c] EXCEPT !.at = 2, !.failed = {"fipiran"}]
    BY <2>5, <2>6
  <2>3. [call[c] EXCEPT !.at = 2, !.failed = {"fipiran"}] \in Call
    BY <1>0, GivenUpType DEF Sources
  <2>8. call' = [call EXCEPT ![c] = [call[c] EXCEPT !.at = 2, !.failed = {"fipiran"}]]
    BY <2>2, <2>7
  <2>9. /\ call'[c].at = 2 /\ call'[c].failed = {"fipiran"}
        /\ call'[c].asked = call[c].asked /\ call'[c].raised = call[c].raised
        /\ mode' = mode
    BY <1>0, <1>5, <2>8 DEF FallBack, Call
  <2>4. Tracked(c)'
    BY <1>0, <2>1, <2>2, <2>9 DEF Tracked
  <2> QED
    BY <1>5, <2>2, <2>3, <2>4, <2>8 DEF FallBack
<1> QED
  BY <1>1, <1>2, <1>3, <1>4, <1>5 DEF Goes

\* A call ends, with a result or with an exception.
LEMMA EndsFrame ==
    ASSUME TypeOK, Tracks, NEW c \in Callers, Publish(c) \/ Catches(c)
    PROVE  /\ (pc[c] = "history" /\ call[c].raised = "none") \/ pc[c] = "raise"
           /\ \E l \in {"idle", "dead"} : pc' = [pc EXCEPT ![c] = l]
           /\ call' = [call EXCEPT ![c] = NoCall]
           /\ \E how \in Answers :
                 /\ answer' = [answer EXCEPT ![c] = how]
                 /\ c # Worker => how # "crashed"
           /\ Release(c)
           /\ UNCHANGED <<mode, lost>>
<1> USE DEF Over, Goto, Update, Answers
<1>1. CASE Publish(c)
  <2>1. pc[c] = "history" /\ call[c].raised = "none"
    BY <1>1 DEF Publish, Tracks, Tracked
  <2> QED
    BY <1>1, <2>1 DEF Publish
<1>2. CASE WorkerCatches(c)
  BY <1>2 DEF WorkerCatches
<1>3. CASE ApiCatches(c)
  <2>1. Wrapped(c) = "overlap" \/ Wrapped(c) = "runtime"
    BY DEF Wrapped
  <2> QED
    BY <1>3, <2>1 DEF ApiCatches
<1>4. CASE CliCatches(c)
  BY <1>4 DEF CliCatches
<1> QED
  BY <1>1, <1>2, <1>3, <1>4 DEF Catches

\* Every step is of one of these kinds.
LEMMA Kinds ==
    ASSUME TypeOK, NEW c \in Callers, Request(c) \/ Step(c)
    PROVE  \/ Request(c) \/ Begin(c) \/ BeginFails(c) \/ Raises(c) \/ Goes(c) \/ Publish(c) \/ Catches(c)
<1>1. ASSUME FallBack(c)
      PROVE  Raises(c) \/ Goes(c)
  BY <1>1 DEF FallBack, RaiseFrom, Goto, TypeOK, Raises, Goes
<1> QED
  BY <1>1 DEF Step, Fetch, Raises, Goes, Catches

LEMMA TypeStep ==
    ASSUME TypeOK, Tracks, NEW c \in Callers, Request(c) \/ Step(c)
    PROVE  TypeOK'
<1>1. CASE Request(c)
  BY <1>1 DEF Request, Goto, TypeOK, Answers
<1>2. CASE Begin(c)
  BY <1>2, NoCallType DEF Begin, Goto, Update, TypeOK
<1>7. CASE BeginFails(c)
  <2>1. [call[c] EXCEPT !.raised = "start"] \in Call
    BY RaisedType DEF TypeOK, Exceptions
  <2> QED
    BY <1>7, <2>1 DEF BeginFails, RaiseFrom, Goto, Update, TypeOK
<1>3. CASE Raises(c)
  <2>1. PICK kind \in Exceptions : call' = [call EXCEPT ![c] = [call[c] EXCEPT !.raised = kind]]
    BY <1>3, RaisesFrame
  <2>2. [call[c] EXCEPT !.raised = kind] \in Call
    BY RaisedType DEF TypeOK
  <2> QED
    BY <1>3, <2>1, <2>2, RaisesFrame DEF TypeOK
<1>4. CASE Goes(c)
  BY <1>4, GoesFrame DEF TypeOK
<1>5. CASE Publish(c)
  <2>1. stored' \in [source: Sources \cup {"none"}, failed: SUBSET Sources, asked: SUBSET Sources]
    BY <1>5 DEF Publish, TypeOK, Call
  <2>2. locked' \in BOOLEAN
    BY EndsFrame, <1>5 DEF Release, TypeOK
  <2> QED
    BY <1>5, <2>1, <2>2, EndsFrame, NoCallType DEF TypeOK
<1>6. CASE Catches(c)
  <2>1. stored' = stored
    BY <1>6 DEF Catches, WorkerCatches, ApiCatches, CliCatches
  <2>2. locked' \in BOOLEAN
    BY EndsFrame, <1>6 DEF Release, TypeOK
  <2> QED
    BY <1>6, <2>1, <2>2, EndsFrame, NoCallType DEF TypeOK
<1> QED
  BY <1>1, <1>2, <1>3, <1>4, <1>5, <1>6, <1>7, Kinds

\* A caller that is outside is tracked trivially, and the others do not move.
LEMMA TracksStep ==
    ASSUME TypeOK, Tracks, NEW c \in Callers, Request(c) \/ Step(c)
    PROVE  Tracks'
<1>1. mode' = mode
  BY Kinds, RaisesFrame, GoesFrame, EndsFrame DEF Request, Begin, BeginFails
<1>2. ASSUME NEW d \in Callers, d # c
      PROVE  pc'[d] = pc[d] /\ call'[d] = call[d]
  BY <1>2, Kinds, RaisesFrame, GoesFrame, EndsFrame DEF Request, Begin, BeginFails, RaiseFrom, Goto, Update, TypeOK
<1>3. ASSUME NEW d \in Callers, d # c
      PROVE  Tracked(d)'
  BY <1>1, <1>2, <1>3, ZenonT(30) DEF Tracks, Tracked, Asked, Chain
<1>4. Tracked(c)'
  <2>1. CASE Begin(c)
    BY <2>1 DEF Begin, Goto, Update, TypeOK, NoCall, Tracked
  <2>2. CASE Request(c) \/ BeginFails(c) \/ Raises(c) \/ Publish(c) \/ Catches(c)
    <3>1. pc'[c] \in {"call", "raise", "idle", "dead"}
      BY <2>2, RaisesFrame, EndsFrame DEF Request, BeginFails, RaiseFrom, Goto, TypeOK
    <3> QED
      BY <3>1 DEF Tracked
  <2> QED
    BY <2>1, <2>2, GoesFrame, Kinds
<1> QED
  BY <1>3, <1>4 DEF Tracks

\* Publishing stores the tracked facts.
LEMMA ProvenanceStep ==
    ASSUME TypeOK, Tracks, Provenance, NEW c \in Callers, Request(c) \/ Step(c)
    PROVE  Provenance'
<1>1. CASE Publish(c)
  <2>1. /\ pc[c] = "history" /\ mode' = mode
        /\ stored' = [source |-> call[c].selected, failed |-> call[c].failed, asked |-> call[c].asked]
    BY <1>1, EndsFrame DEF Publish
  <2>2. /\ call[c].at \in {1, 2}
        /\ call[c].at = 1 => call[c].failed = {}
        /\ call[c].at = 2 => mode = "chain" /\ call[c].failed = {"fipiran"}
        /\ call[c].selected = Asked(c)
        /\ call[c].asked \subseteq {call[c].selected}
    BY <2>1 DEF Tracks, Tracked, TypeOK, Call
  <2>3. Asked(c) = IF mode = "csv" \/ call[c].at = 2 THEN "file" ELSE "fipiran"
    BY <2>1, AskedIs
  <2> QED
    BY <2>1, <2>2, <2>3 DEF Provenance
<1>2. ASSUME ~Publish(c)
      PROVE  UNCHANGED <<stored, mode>>
  BY <1>2, Kinds, RaisesFrame, GoesFrame DEF Request, Begin, BeginFails, Catches, WorkerCatches, ApiCatches,
     CliCatches, Over
<1> QED
  BY <1>1, <1>2 DEF Provenance

LEMMA LockStep ==
    ASSUME TypeOK, Tracks, LockedByOne, NEW c \in Callers, Request(c) \/ Step(c)
    PROVE  LockedByOne'
<1>1. ASSUME NEW d \in Callers, d # c
      PROVE  Inside(d)' <=> Inside(d)
  BY <1>1, Kinds, RaisesFrame, GoesFrame, EndsFrame DEF Request, Begin, BeginFails, RaiseFrom, Goto, Update, TypeOK, Inside
<1>2. ASSUME locked' = locked, lost' = lost, Inside(c)' <=> Inside(c)
      PROVE  LockedByOne'
  BY <1>1, <1>2 DEF LockedByOne, Callers
<1>3. CASE Request(c)
  BY <1>2, <1>3 DEF Request, Goto, TypeOK, Inside
<1>4. CASE Begin(c)
  <2>1. /\ c \in ApiCallers => ~locked
        /\ locked' = (locked \/ c \in ApiCallers)
        /\ Inside(c)' /\ ~Inside(c) /\ lost' = lost
    BY <1>4 DEF Begin, Goto, TypeOK, Inside
  <2> QED
    BY <1>1, <2>1 DEF LockedByOne, Callers, TypeOK
<1>8. CASE BeginFails(c)
  <2>1. /\ c \in ApiCallers => ~locked
        /\ locked' = (locked \/ c \in ApiCallers)
        /\ lost' = (lost \/ c \in ApiCallers)
        /\ ~Inside(c)
    BY <1>8 DEF BeginFails, Inside
  <2>2. pc'[c] = "raise" /\ call'[c].raised = "start"
    BY <1>8 DEF BeginFails, RaiseFrom, Goto, Update, TypeOK, Call
  <2>3. ~Inside(c)'
    BY <2>2 DEF Inside
  <2> QED
    BY <1>1, <2>1, <2>3 DEF LockedByOne, Callers, TypeOK
<1>5. CASE Raises(c)
  <2>1. PICK kind \in Exceptions :
           /\ call' = [call EXCEPT ![c] = [call[c] EXCEPT !.raised = kind]]
           /\ kind = "overlap" <=> pc[c] = "call"
           /\ kind # "start"
    BY <1>5, RaisesFrame
  <2>2. call'[c].raised = kind /\ pc'[c] = "raise"
    BY <1>5, <2>1, RaisesFrame DEF TypeOK, Call
  <2> QED
    BY <1>2, <1>5, <2>1, <2>2, RaisesFrame DEF Inside
<1>6. CASE Goes(c)
  BY <1>2, <1>6, GoesFrame DEF Inside
<1>7. CASE Publish(c) \/ Catches(c)
  <2>1. ~Inside(c)'
    BY <1>7, EndsFrame DEF Inside, TypeOK
  <2>2. locked' = (locked /\ (c \notin ApiCallers \/ call[c].raised \in {"overlap", "start"})) /\ lost' = lost
    BY <1>7, EndsFrame DEF Release
  <2>3. Inside(c) <=> call[c].raised \notin {"overlap", "start"}
    BY <1>7, EndsFrame DEF Inside
  <2> QED
    BY <1>1, <2>1, <2>2, <2>3 DEF LockedByOne, Callers, TypeOK
<1> QED
  BY <1>3, <1>4, <1>5, <1>6, <1>7, <1>8, Kinds

LEMMA AnsweredStep ==
    ASSUME TypeOK, Tracks, Answered, NEW c \in Callers, Request(c) \/ Step(c)
    PROVE  Answered'
<1>1. \/ UNCHANGED answer
      \/ \E how \in Answers :
            /\ answer' = [answer EXCEPT ![c] = how]
            /\ c # Worker => how # "crashed"
  BY Kinds, RaisesFrame, GoesFrame, EndsFrame DEF Request, Begin, BeginFails, Answers
<1> QED
  BY <1>1 DEF Answered, TypeOK

\* FallsBack for one caller.
MayRaise(c) ==
    mode = "chain" /\ pc[c] = "raise" /\ call[c].raised \notin {"overlap", "start"} /\ call[c].selected = "none"
    => call[c].at = Len(Chain) \/ call[c].raised \in {"http", "other"}

\* Of what a source may raise, the chain lets only two kinds pass.
LEMMA ChainLetsPass ==
    ASSUME TypeOK, Tracks, NEW c \in Callers, pc[c] = "fetch"
    PROVE  Outcomes[Asked(c)] \ (Caught \cup {"records"}) \subseteq {"http", "other"}
<1>1. Asked(c) \in Sources
  BY AskedIs
<1>2. Outcomes[Asked(c)] \subseteq {"records", "empty"} \cup Fetched
  BY <1>1, DispatchAssumption
<1> QED
  BY <1>2 DEF Caught, Exceptions, Fetched

\* The exceptions that leave the coordinator, by the place they come from.
LEMMA RaisedOnCause ==
    ASSUME TypeOK, Tracks, NEW c \in Callers, Raises(c), mode = "chain"
    PROVE  MayRaise(c)'
<1> USE DEF RaiseFrom, Goto, Update, MayRaise, Exceptions, Fetched
<1>0. call[c] \in Call /\ pc \in [Callers -> {"idle", "call", "fetch", "write", "history", "raise", "dead"}]
      /\ call \in [Callers -> Call]
  BY DEF TypeOK
<1>1. ASSUME NEW kind \in Exceptions, RaiseFrom(c, kind)
      PROVE  /\ call'[c].raised = kind /\ call'[c].at = call[c].at
             /\ call'[c].selected = call[c].selected
  BY <1>0, <1>1 DEF Call
<1>2. CASE Refuse(c)
  BY <1>1, <1>2 DEF Refuse
<1>3. CASE ChainRaises(c)
  <2>1. PICK kind \in {"http", "other"} : RaiseFrom(c, kind)
    BY <1>3, ChainLetsPass DEF ChainRaises
  <2> QED
    BY <1>1, <2>1
<1>4. CASE FetchRaises(c)
  BY <1>4 DEF FetchRaises
<1>5. CASE DatabaseRaises(c)
  BY <1>1, <1>5 DEF DatabaseRaises
<1>6. CASE HistoryRaises(c)
  <2>1. PICK kind \in Exceptions : pc[c] = "history" /\ RaiseFrom(c, kind)
    BY <1>6, DispatchAssumption DEF HistoryRaises
  <2>2. call[c].selected = Asked(c) /\ Asked(c) \in {"fipiran", "file"}
    BY <2>1, AskedIs DEF Tracks, Tracked, Sources
  <2> QED
    BY <1>1, <2>1, <2>2
<1>7. CASE FallBack(c) /\ pc'[c] = "raise"
  <2>1. pc[c] = "fetch"
    BY <1>7 DEF FallBack
  <2>2. ~(call[c].at < Len(Chain)) /\ RaiseFrom(c, "runtime") /\ mode' = mode
    BY <1>0, <1>7, <2>1 DEF FallBack
  <2>3. call[c].at \in {1, 2} /\ Chain = <<"fipiran", "file">> /\ Len(Chain) = 2
    BY ChainIs DEF TypeOK, Call
  <2>4. call'[c].at = Len(Chain)
    BY <1>1, <2>2, <2>3
  <2> QED
    BY <2>2, <2>4 DEF Chain
<1> QED
  BY <1>2, <1>3, <1>4, <1>5, <1>6, <1>7 DEF Raises

\* No other step leads into an exception, and none moves another caller.
LEMMA FallsBackStep ==
    ASSUME TypeOK, Tracks, FallsBack, NEW c \in Callers, Request(c) \/ Step(c)
    PROVE  FallsBack'
<1>1. mode' = mode
  BY Kinds, RaisesFrame, GoesFrame, EndsFrame DEF Request, Begin, BeginFails
<1>2. ASSUME NEW d \in Callers, d # c
      PROVE  MayRaise(d)'
  <2>1. pc'[d] = pc[d] /\ call'[d] = call[d]
    BY <1>2, Kinds, RaisesFrame, GoesFrame, EndsFrame DEF Request, Begin, BeginFails, RaiseFrom, Goto, Update, TypeOK
  <2> QED
    BY <1>1, <2>1 DEF FallsBack, MayRaise, Chain
<1>3. MayRaise(c)'
  <2>1. CASE Raises(c) /\ mode = "chain"
    BY <2>1, RaisedOnCause
  <2>2. CASE mode # "chain"
    BY <1>1, <2>2 DEF MayRaise
  <2>4. CASE BeginFails(c)
    <3>1. call'[c].raised = "start"
      BY <2>4 DEF BeginFails, RaiseFrom, Update, TypeOK, Call
    <3> QED
      BY <3>1 DEF MayRaise
  <2>3. CASE Request(c) \/ Begin(c) \/ Goes(c) \/ Publish(c) \/ Catches(c)
    <3>1. pc'[c] # "raise"
      BY <2>3, GoesFrame, EndsFrame DEF Request, Begin, Goto, TypeOK
    <3> QED
      BY <3>1 DEF MayRaise
  <2> QED
    BY <2>1, <2>2, <2>3, <2>4, Kinds
<1> QED
  BY <1>2, <1>3 DEF FallsBack, MayRaise

LEMMA Invariance == Spec => []Inv
<1>1. Init => Inv
  <2> SUFFICES ASSUME Init PROVE Inv
    OBVIOUS
  <2>1. TypeOK
    BY NoCallType DEF Init, TypeOK, NotStored, Sources, Answers
  <2>2. Tracks /\ Provenance /\ LockedByOne /\ Answered /\ FallsBack
    BY DEF Init, Tracks, Tracked, Provenance, NotStored, LockedByOne, Inside, Callers, Answered, FallsBack
  <2> QED
    BY <2>1, <2>2 DEF Inv
<1>2. Inv /\ [Next]_vars => Inv'
  <2> SUFFICES ASSUME Inv, [Next]_vars PROVE Inv'
    OBVIOUS
  <2>1. ASSUME NEW c \in Callers, Request(c) \/ Step(c)
        PROVE  Inv'
    BY <2>1, TypeStep, TracksStep, ProvenanceStep, LockStep, AnsweredStep,
       FallsBackStep DEF Inv
  <2>2. CASE UNCHANGED vars
    BY <2>2, ZenonT(30) DEF vars, Inv, TypeOK, Tracks, Tracked, Asked, Chain, Provenance, LockedByOne, Inside,
       Answered, FallsBack
  <2> QED
    BY <2>1, <2>2 DEF Next
<1> QED
  BY <1>1, <1>2, PTL DEF Spec

\* The type invariant.
THEOREM TypeCorrect == Spec => []TypeOK
BY Invariance, PTL DEF Inv

\* What is stored has one origin, and the file stands in only for a FIPIRAN that
\* failed.
THEOREM OriginIsKept == Spec => []Provenance
BY Invariance, PTL DEF Inv

\* The API's lock is taken exactly while one of its calls is inside, or for good
\* once the insert of a run row has failed.
THEOREM LockIsExact == Spec => []LockedByOne
BY Invariance, PTL DEF Inv

\* The endpoint and the command answer whatever is raised.
THEOREM AlwaysAnswered == Spec => []Answered
BY Invariance, PTL DEF Inv

\* The chain gives up before the file was tried only on what it does not catch.
THEOREM FileIsTried == Spec => []FallsBack
BY Invariance, PTL DEF Inv
=============================================================================
