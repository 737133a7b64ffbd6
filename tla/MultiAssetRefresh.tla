-------------------------- MODULE MultiAssetRefresh --------------------------
(***************************************************************************)
(* The four file imports of src/irma/services/multi_asset_refresh.py, the  *)
(* readers of src/irma/providers/multi_asset_csv.py and the endpoint that  *)
(* runs one of them, or all in one session (routes.py, l.693-733).         *)
(*                                                                         *)
(* A session sends what was added to it only when it is flushed            *)
(* (autoflush is off), and sees what is committed and what it has sent.    *)
(* The first flush of an import writes the row of its source and keeps it  *)
(* locked until the transaction ends, so a flush is one step.  A lost      *)
(* connection and the victim of a deadlock are both LoseConnection.        *)
(***************************************************************************)
EXTENDS Integers, Sequences, FiniteSets, FiniteSetsExt

CONSTANTS
    Callers,        \* requests to the endpoint
    Requests,       \* the values of its parameter "dataset"
    Files,          \* what the file of each dataset may hold when it is read
    Before,         \* what earlier imports have stored
    Widths          \* of the column "currency": 8 on PostgreSQL, not enforced on SQLite

\* Mutant of Jobs: the import that can fail halfway comes first.
Jobs_BankFirst == <<"bank_products", "market_indices", "market_instruments", "inflation">>
Jobs == <<"market_indices", "market_instruments", "inflation", "bank_products">>
Datasets == {Jobs[n] : n \in DOMAIN Jobs}

\* The imports that flush for every record; the others only for a new entity.
FlushEach == {"market_indices", "market_instruments"}

\* Two products of a bank may have one name: no unique key is over bank and product.
Unkeyed == {"bank_products"}

\* The length of the currency of a row: INDEX_POINT, IRR, PERCENT_INDEX, TOMAN.
CurrencyLength == [d \in Datasets |->
    CASE d = "market_indices" -> 11 [] d = "market_instruments" -> 3
      [] d = "inflation" -> 13 [] d = "bank_products" -> 5]

\* What may be wrong with a row.  The readers find all of it except a bad
\* valid_until, which is parsed while the row is being stored.
Defects == {"none", "negative", "no_value", "date", "future", "status", "scheme", "valid_until"}
Refused(d) ==
    {"negative", "no_value", "date"}
        \cup (IF d = "inflation" THEN {"future"} ELSE {})
        \cup (IF d = "bank_products" THEN {"status", "scheme"} ELSE {})

\* "csv" is what the reader takes for the key of a row, "entity" and "day" what
\* the tables have as one: index, instrument, series or product, and the date,
\* period or beginning of validity.  "broken" is any other exception of the reader.
IsRow(r) == /\ DOMAIN r = {"csv", "entity", "day", "defect"}
            /\ r.defect \in Defects
IsSequence(s) == s \in Seq({s[n] : n \in DOMAIN s})
IsFile(f) == /\ DOMAIN f = {"state", "rows"}
             /\ f.state \in {"readable", "missing", "columns", "broken"}
             /\ IsSequence(f.rows) /\ \A n \in DOMAIN f.rows : IsRow(f.rows[n])
NoFile == [state |-> "missing", rows |-> <<>>]

\* Only a bank product has a valid_until.
ASSUME ImportAssumption ==
    /\ Requests \subseteq Datasets \cup {"all"}
    /\ DOMAIN Files = Datasets
    /\ \A d \in Datasets : \A f \in Files[d] :
          /\ IsFile(f)
          /\ d # "bank_products" => \A n \in DOMAIN f.rows : f.rows[n].defect # "valid_until"
    /\ \A past \in Before : DOMAIN past = Datasets /\ \A d \in Datasets : IsSequence(past[d])
    /\ Widths \subseteq Nat
    /\ "earlier" \notin Callers

VARIABLES
    stored,      \* the committed rows: their unique keys, and who imported them
    counts,      \* record_count of the sources
    width,       \* of the column "currency", as this database enforces it
    pc,          \* where each request is
    session,     \* its database session: see NewSession
    read,        \* the files it has read
    result,      \* what became of each of its imports
    answer,      \* the status code
    overlapped   \* datasets that two requests have imported at the same time

vars == <<stored, counts, width, pc, session, read, result, answer, overlapped>>

\* Entities that may be there twice are told apart by the import m that made them.
Makers(d) == IF d \in Unkeyed THEN Callers \cup {"earlier"} ELSE {"one"}
Maker(c, d) == IF d \in Unkeyed THEN c ELSE "one"
SourceKey(d) == <<"source", d>>
EntityKey(d, r, m) == <<"entity", d, r.entity, m>>
RowKey(d, r, m) == <<"row", d, r.entity, r.day, m>>
KeysOf(d, rows, m) ==
    UNION {{SourceKey(d), EntityKey(d, rows[n], m), RowKey(d, rows[n], m)} : n \in DOMAIN rows}
Earlier(past) == UNION {KeysOf(d, past[d], Maker("earlier", d)) : d \in Datasets}

\* jobs: the imports to come, the current one first; todo: its records; maker: who has
\* made the entity of the record at hand; sent and added: the keys flushed and not yet
\* flushed; twice: one was added twice;
\* loaded: the record_count of the sources it has read, as it would write it;
\* locks: the sources it has written; then: where it goes on after a flush.
NewSession(jobs) ==
    [jobs |-> jobs, todo |-> <<>>, maker |-> "one", sent |-> {}, added |-> {}, twice |-> FALSE,
     loaded |-> [d \in Datasets |-> -1], locks |-> {}, then |-> "open"]

Pending == {"open", "source", "entity", "row", "flush", "commit"}
Results == {"none", "ok", "missing", "value", "broken", "conflict", "width", "lost"}

TypeOK ==
    /\ pc \in [Callers -> {"idle", "done"} \cup Pending]
    /\ \A k \in DOMAIN stored : k[1] \in {"source", "entity", "row"} /\ k[2] \in Datasets
    /\ counts \in [Datasets -> Nat] /\ width \in Widths
    /\ \A c \in Callers : session[c].locks \subseteq Datasets
    /\ result \in [Callers -> [Datasets -> Results]]
    /\ answer \in [Callers -> {0, 200, 424, 500}]
    /\ overlapped \subseteq Datasets

Init ==
    /\ \E past \in Before :
          /\ stored = [k \in Earlier(past) |-> "earlier"]
          /\ counts = [d \in Datasets |-> Len(past[d])]
    /\ width \in Widths
    /\ pc = [c \in Callers |-> "idle"]
    /\ session = [c \in Callers |-> NewSession(<<>>)]
    /\ read = [c \in Callers |-> [d \in Datasets |-> NoFile]]
    /\ result = [c \in Callers |-> [d \in Datasets |-> "none"]]
    /\ answer = [c \in Callers |-> 0]
    /\ overlapped = {}

Current(c) == Head(session[c].jobs)
Record(c) == Head(session[c].todo)
Seen(c, k) == k \in DOMAIN stored \cup session[c].sent
Goto(c, l) == pc' = [pc EXCEPT ![c] = l]
Update(c, new) == session' = [session EXCEPT ![c] = new]
Store == <<stored, counts, width>>
Outcome == <<result, answer>>

Request(c) ==
    /\ pc[c] = "idle"
    /\ \E q \in Requests : Update(c, NewSession(IF q = "all" THEN Jobs ELSE <<q>>))
    /\ Goto(c, "open")
    /\ UNCHANGED <<Store, read, Outcome, overlapped>>

(***************************************************************************)
(* An exception.  The loop of "all" notes a ValueError or a missing file   *)
(* and goes on with the session as it is; whatever else is raised, and     *)
(* anything a single import raises, ends the request, and the session is   *)
(* closed, which rolls back.                                               *)
(***************************************************************************)
InAll(c) == Len(session[c].jobs) > 1 \/ \E d \in Datasets \ {Current(c)} : result[c][d] # "none"
Noted(kind) == kind \in {"missing", "value"}

\* Mutants of Close: a refused import is answered as one that is running; the
\* session is closed after a success only.
Close_Swapped(c, code) ==
    /\ Goto(c, "done")
    /\ Update(c, NewSession(<<>>))
    /\ answer' = [answer EXCEPT ![c] = IF code = 424 THEN 409 ELSE code]
Close_OnSuccess(c, code) ==
    /\ Goto(c, "done")
    /\ Update(c, IF code = 200 THEN NewSession(<<>>) ELSE session[c])
    /\ answer' = [answer EXCEPT ![c] = code]
Close(c, code) ==
    /\ Goto(c, "done")
    /\ Update(c, NewSession(<<>>))
    /\ answer' = [answer EXCEPT ![c] = code]

\* Go on with the next import, or answer.
NextJob(c, s) ==
    IF Len(s.jobs) > 1
    THEN Goto(c, "open") /\ Update(c, [s EXCEPT !.jobs = Tail(@), !.todo = <<>>]) /\ UNCHANGED answer
    ELSE Close(c, 200)

\* Mutant of Raise: only a missing file is noted.
Raise_MissingOnly(c, kind) ==
    /\ result' = [result EXCEPT ![c][Current(c)] = kind]
    /\ IF InAll(c) /\ kind = "missing"
       THEN NextJob(c, session[c])
       ELSE Close(c, IF Noted(kind) THEN 424 ELSE 500)
Raise(c, kind) ==
    /\ result' = [result EXCEPT ![c][Current(c)] = kind]
    /\ IF InAll(c) /\ Noted(kind)
       THEN NextJob(c, session[c])
       ELSE Close(c, IF Noted(kind) THEN 424 ELSE 500)

(***************************************************************************)
(* The reader: the whole file is read and checked before anything is       *)
(* stored.                                                                 *)
(***************************************************************************)
Repeats(rows, Key(_)) == \E m, n \in DOMAIN rows : m < n /\ Key(rows[m]) = Key(rows[n])
Unacceptable(d, rows) ==
    \/ \E n \in DOMAIN rows : rows[n].defect \in Refused(d)
    \/ Repeats(rows, LAMBDA r : r.csv)
Read(d, f) ==
    CASE f.state \in {"missing", "broken"} -> f.state
      [] f.state = "columns" -> "value"
      [] f.state = "readable" -> IF Unacceptable(d, f.rows) THEN "value" ELSE "ok"

Importing(c) == pc[c] \in Pending /\ session[c].jobs # <<>>
Open(c) ==
    /\ pc[c] = "open"
    /\ \E f \in Files[Current(c)] :
          /\ read' = [read EXCEPT ![c][Current(c)] = f]
          /\ IF Read(Current(c), f) = "ok"
             THEN /\ Update(c, [session[c] EXCEPT !.todo = f.rows])
                  /\ Goto(c, IF f.rows = <<>> THEN "commit" ELSE "source")
                  /\ UNCHANGED Outcome
             ELSE Raise(c, Read(Current(c), f))
    /\ overlapped' = overlapped \cup
          {d \in {Current(c)} : \E o \in Callers \ {c} : Importing(o) /\ Current(o) = d}
    /\ UNCHANGED Store

(***************************************************************************)
(* One record: its source, its entity, its row.                            *)
(***************************************************************************)
Loaded(c) == session[c].loaded[Current(c)] >= 0

\* Mutant of Source: a source that is known counts from zero again.
Source_Reset(c) ==
    /\ pc[c] = "source"
    /\ \/ /\ Loaded(c) \/ Seen(c, SourceKey(Current(c)))
          /\ Update(c, IF Loaded(c) THEN session[c]
                       ELSE [session[c] EXCEPT !.loaded[Current(c)] = 0])
          /\ Goto(c, "entity")
       \/ /\ ~Loaded(c) /\ ~Seen(c, SourceKey(Current(c)))
          /\ Update(c, [session[c] EXCEPT !.loaded[Current(c)] = 0,
                                          !.added = @ \cup {SourceKey(Current(c))},
                                          !.then = "entity"])
          /\ Goto(c, "flush")
    /\ UNCHANGED <<Store, read, Outcome, overlapped>>
Source(c) ==
    /\ pc[c] = "source"
    /\ \/ /\ Loaded(c) \/ Seen(c, SourceKey(Current(c)))
          /\ Update(c, IF Loaded(c) THEN session[c]
                       ELSE [session[c] EXCEPT !.loaded[Current(c)] = counts[Current(c)]])
          /\ Goto(c, "entity")
       \/ /\ ~Loaded(c) /\ ~Seen(c, SourceKey(Current(c)))
          /\ Update(c, [session[c] EXCEPT !.loaded[Current(c)] = 0,
                                          !.added = @ \cup {SourceKey(Current(c))},
                                          !.then = "entity"])
          /\ Goto(c, "flush")
    /\ UNCHANGED <<Store, read, Outcome, overlapped>>

\* Any one of the entities of the record's name, or a new one.
\* Mutant of Found: an entity that is there is made again.
Found_Never(c) == {Maker(c, Current(c))}
Found(c) ==
    LET known == {m \in Makers(Current(c)) : Seen(c, EntityKey(Current(c), Record(c), m))}
    IN  IF known = {} THEN {Maker(c, Current(c))} ELSE known

Entity(c) ==
    /\ pc[c] = "entity"
    /\ \E m \in Found(c) :
          LET key == EntityKey(Current(c), Record(c), m)
              new == {k \in {key} : ~Seen(c, k)}
          IN  /\ Update(c, [session[c] EXCEPT !.added = @ \cup new, !.then = "row", !.maker = m])
              /\ Goto(c, IF new # {} \/ Current(c) \in FlushEach THEN "flush" ELSE "row")
    /\ UNCHANGED <<Store, read, Outcome, overlapped>>

RecordKey(c) == RowKey(Current(c), Record(c), session[c].maker)
Existing(c) == Seen(c, RecordKey(c))

StoreRow(c) ==
    /\ pc[c] = "row"
    /\ LET new == {k \in {RecordKey(c)} : ~Existing(c)}
       IN  Update(c, [session[c] EXCEPT
                        !.added = @ \cup new,
                        !.twice = @ \/ new \cap session[c].added # {},
                        !.loaded[Current(c)] = @ + 1,
                        !.todo = Tail(@)])
    /\ ~Existing(c) => Record(c).defect # "valid_until"
    /\ Goto(c, IF Len(session[c].todo) = 1 THEN "commit" ELSE "source")
    /\ UNCHANGED <<Store, read, Outcome, overlapped>>

\* date.fromisoformat of a valid_until that no reader has looked at.
StoreRowFails(c) ==
    /\ pc[c] = "row"
    /\ ~Existing(c) /\ Record(c).defect = "valid_until"
    /\ Raise(c, "value")
    /\ UNCHANGED <<Store, read, overlapped>>

(***************************************************************************)
(* Flush and commit.                                                       *)
(***************************************************************************)
Touched(c) == {d \in Datasets : session[c].loaded[d] >= 0}
\* The sources that are to be written are not locked by another transaction.
MayWrite(c) == \A o \in Callers \ {c} : session[o].locks \cap Touched(c) = {}
TooWide(c) == {k \in session[c].added : k[1] = "row" /\ CurrencyLength[k[2]] > width}
Violates(c) == session[c].twice \/ session[c].added \cap (DOMAIN stored \cup session[c].sent) # {}
Flushed(c) == [session[c] EXCEPT !.sent = @ \cup session[c].added, !.added = {},
                                 !.locks = @ \cup Touched(c)]
Flushing(c) == pc[c] \in {"flush", "commit"} /\ MayWrite(c)

Flush(c) ==
    /\ pc[c] = "flush" /\ Flushing(c)
    /\ TooWide(c) = {} /\ ~Violates(c)
    /\ Update(c, Flushed(c))
    /\ Goto(c, session[c].then)
    /\ UNCHANGED <<Store, read, Outcome, overlapped>>

FlushRefused(c) ==
    /\ Flushing(c)
    /\ \/ TooWide(c) # {} /\ Raise(c, "width")
       \/ Violates(c) /\ Raise(c, "conflict")
    /\ UNCHANGED <<Store, read, overlapped>>

LoseConnection(c) ==
    /\ pc[c] \in {"flush", "commit"}
    /\ Raise(c, "lost")
    /\ UNCHANGED <<Store, read, overlapped>>

\* Commit publishes everything the session has sent, whichever import it is from.
Commit(c) ==
    /\ pc[c] = "commit" /\ Flushing(c)
    /\ TooWide(c) = {} /\ ~Violates(c)
    /\ LET new == session[c].sent \cup session[c].added
       IN  stored' = [k \in DOMAIN stored \cup new |-> IF k \in new THEN c ELSE stored[k]]
    /\ counts' = [d \in Datasets |-> IF d \in Touched(c) THEN session[c].loaded[d] ELSE counts[d]]
    /\ result' = [result EXCEPT ![c][Current(c)] = "ok"]
    /\ NextJob(c, NewSession(session[c].jobs))
    /\ UNCHANGED <<width, read, overlapped>>

Step(c) ==
    \/ Open(c) \/ Source(c) \/ Entity(c) \/ StoreRow(c) \/ StoreRowFails(c)
    \/ Flush(c) \/ FlushRefused(c) \/ Commit(c)
Answered == (\A c \in Callers : pc[c] = "done") /\ UNCHANGED vars
Next == (\E c \in Callers : Request(c) \/ Step(c) \/ LoseConnection(c)) \/ Answered

\* A thread goes on with its request and gets a lock that stays free.  Requests
\* may never come, and no connection has to be lost.
Spec == Init /\ [][Next]_vars /\ \A c \in Callers : WF_vars(Step(c))

(***************************************************************************)
(* Properties.                                                             *)
(***************************************************************************)
\* An import is all or nothing, alone, next to another one of the same dataset
\* and within "all": what is in the database comes from imports that succeeded,
\* and of those every row of the file is there (l.55-260, routes.py l.722-726).
Holds(d, rows) ==
    \A n \in DOMAIN rows :
        /\ SourceKey(d) \in DOMAIN stored
        /\ \E m \in Makers(d) :
              {EntityKey(d, rows[n], m), RowKey(d, rows[n], m)} \subseteq DOMAIN stored
WholeFiles ==
    \A c \in Callers, d \in Datasets :
        IF result[c][d] = "ok"
        THEN Holds(d, read[c][d].rows)
        ELSE \A k \in DOMAIN stored : stored[k] = c => k[2] # d

\* "Idempotent persistence" (l.1), with or without a unique key: a key is violated
\* only by two imports of a dataset at a time, or by a file that has the natural key of
\* a row twice under two CSV keys, in the two imports that do not flush every record;
\* and a bank has a product twice, which no key forbids, only after two imports of
\* the products at a time (models.py l.144-152).
RepeatsKey(d, rows) == Repeats(rows, LAMBDA r : <<r.entity, r.day>>)
Twins(k, l) == k[1] = "entity" /\ l[1] = "entity" /\ k[2] = l[2] /\ k[3] = l[3] /\ k # l
Idempotent ==
    /\ \A c \in Callers, d \in Datasets : result[c][d] = "conflict" =>
          d \in overlapped \/ (d \notin FlushEach /\ RepeatsKey(d, read[c][d].rows))
    /\ \A k, l \in DOMAIN stored : Twins(k, l) => k[2] \in overlapped

\* record_count is the number of records received (l.96, l.150, l.202, l.258) as
\* long as imports do not overlap; if they do it may fall behind, never ahead.
Received(d) ==
    MapThenSumSet(LAMBDA c : Len(read[c][d].rows), {c \in Callers : result[c][d] = "ok"})
CountsReceived ==
    \E past \in Before :
        /\ \A k \in Earlier(past) : k \in DOMAIN stored /\ stored[k] = "earlier"
        /\ \A d \in Datasets :
              /\ counts[d] <= Len(past[d]) + Received(d)
              /\ d \notin overlapped => counts[d] = Len(past[d]) + Received(d)

\* One import of "all" that is refused does not take another one with it: with a
\* report, each dataset whose own file is acceptable is imported (routes.py
\* l.722-727); and only the database or an unreadable file costs the report.  The
\* converse does not hold: a bad valid_until is not looked at if its row is there.
Acceptable(d, f) ==
    /\ Read(d, f) = "ok"
    /\ \A n \in DOMAIN f.rows : f.rows[n].defect # "valid_until"
Independent ==
    \A c \in Callers :
        LET asked == {d \in Datasets : result[c][d] # "none"}
        IN  /\ answer[c] = 200 =>
                  \A d \in asked : Acceptable(d, read[c][d]) => result[c][d] = "ok"
            /\ answer[c] = 424 => Cardinality(asked) = 1
            /\ answer[c] = 500 => \E d \in asked : result[c][d] \notin {"ok", "missing", "value"}

\* An import stores what it accepts when nothing comes between
\* (tests/test_multi_asset.py, test_multi_asset_refresh_is_idempotent).
Stores == \A c \in Callers, d \in Datasets : result[c][d] # "width"

\* Every request is answered: imports wait for one another, not in a circle.  (A caller
\* makes one request, so in the end nobody is waiting for an answer.)
RequestsEnd == <>[](\A c \in Callers : pc[c] \in {"idle", "done"})
=============================================================================
