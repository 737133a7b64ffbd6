---------------------------- MODULE FundCatalogue ----------------------------
(***************************************************************************)
(* Which row of the table "funds" a record of a catalogue is stored in.    *)
(* FipiranProvider.fetch (src/irma/providers/fipiran.py, l.244-308) makes  *)
(* records of the items it receives, CsvFundProvider.fetch (providers/     *)
(* csv_provider.py, l.29-75) of the rows of a file; refresh (data_refresh, *)
(* l.117-143, l.199-258) finds the fund of each record by registration     *)
(* number, by symbol, or by name and type, and then asks for the histories *)
(* of the funds that have the fewest rows.                                 *)
(*                                                                         *)
(* Refreshes are serialised (FundRefresh.OneWriter), so they come one      *)
(* after the other here, several on one day or one a day.  Of the rows of  *)
(* a fund the model has the days, each once (FundRefresh.NoDuplicates).    *)
(***************************************************************************)
EXTENDS Integers, Sequences, FiniteSets, Sorting

CONSTANTS
    Catalogues,     \* what FIPIRAN may send: sequences of items
    Files,          \* what the manual file may hold
    HistoryLimit,   \* history_limit
    Since,          \* the first day of the history of each number
    LastDay,        \* the bound on the days; day 1 is when the first refresh comes
    None            \* for a field without a value

\* The types FUND_TYPES knows.
KnownTypes == {"index", "gold"}

ASSUME CatalogueAssumption ==
    /\ HistoryLimit \in Nat /\ LastDay \in Nat \ {0}
    /\ DOMAIN Since \subseteq Int /\ None \notin DOMAIN Since
    /\ \A ext \in DOMAIN Since : Since[ext] \in Int
    /\ \A c \in Catalogues \cup Files :
          /\ c \in Seq({c[n] : n \in DOMAIN c})
          /\ \A n \in DOMAIN c :
                /\ c[n].ext \in DOMAIN Since \/ (c[n].ext = None /\ c \notin Catalogues)
                /\ DOMAIN c[n] = {"ext", "sym", "name", "type", "statistical", "cancel", "active"}

VARIABLES
    table,      \* the committed funds
    draft,      \* the funds as the session sees them
    today,
    catalogue,  \* the last one received
    origin,     \* from FIPIRAN, from the file alone ("csv"), or from the file after
                \* FIPIRAN had failed ("chain")
    records,    \* its records
    todo,       \* those that are still to be stored, or asked a history for
    step,       \* where the refresh is
    outcome     \* of the last refresh

catalogueVars == <<table, draft, today, catalogue, origin, records, todo, step, outcome>>

CatalogueInit ==
    /\ table = <<>> /\ draft = <<>>
    /\ catalogue = <<>> /\ records = <<>> /\ todo = <<>>
    /\ today = 1 /\ origin = "csv"
    /\ step = "idle"
    /\ outcome = "none"

(***************************************************************************)
(* fetch: a repeated registration number is skipped if it says the same    *)
(* and refused if not.  The name is not part of what is compared.          *)
(***************************************************************************)
Signature(i) == <<i.sym, i.type, i.statistical, i.cancel>>
Nav(i) == IF i.statistical \in {None, 0} THEN i.cancel ELSE i.statistical
Repeated(items, n) == \E m \in 1..(n - 1) : items[m].ext = items[n].ext

Contradicts(items) ==
    \E m, n \in DOMAIN items :
        items[m].ext = items[n].ext /\ Signature(items[m]) # Signature(items[n])

Stored(items, n) == ~Repeated(items, n) /\ items[n].type \in KnownTypes
NonPositive(items) ==
    \E n \in DOMAIN items : Stored(items, n) /\ Nav(items[n]) # None /\ Nav(items[n]) <= 0
Parsed(items) ==
    LET kept == {n \in DOMAIN items : Stored(items, n)}
        places == InOrder(kept, LAMBDA m, n : m < n)
    IN  [k \in 1..Cardinality(kept) |-> items[places[k]]]

Finish(result) ==
    /\ step' = "idle" /\ outcome' = result
    /\ todo' = <<>>

Later == today' \in {today, today + 1} /\ today' <= LastDay

Fetch(items) ==
    /\ step = "idle"
    /\ catalogue' = items /\ origin' = "fipiran"
    /\ IF Contradicts(items) \/ NonPositive(items)
       THEN Finish("refused") /\ records' = <<>>
       ELSE /\ records' = Parsed(items) /\ todo' = Parsed(items)
            /\ step' = "store" /\ outcome' = "running"
    /\ draft' = table /\ Later
    /\ UNCHANGED table

\* The file is taken as it is, unless a row cannot be read: its number is None.
\* It is the only provider, or the chain's second one (providers/chain.py l.26-45).
FetchFile(rows) ==
    /\ step = "idle"
    /\ catalogue' = rows /\ origin' \in {"csv", "chain"}
    /\ IF \E n \in DOMAIN rows : rows[n].ext = None
       THEN Finish("refused") /\ records' = <<>>
       ELSE /\ records' = rows /\ todo' = rows
            /\ step' = "store" /\ outcome' = "running"
    /\ draft' = table /\ Later
    /\ UNCHANGED table

(***************************************************************************)
(* The fund of a record.                                                   *)
(***************************************************************************)
By(funds, Test(_)) == {n \in DOMAIN funds : Test(funds[n])}

\* Mutant of Matches: the type of a fund of that name is not compared.
Matches_AnyType(funds, r) ==
    LET numbered == By(funds, LAMBDA f : f.ext = r.ext)
    IN  IF numbered # {} THEN numbered ELSE By(funds, LAMBDA f : f.name = r.name)
Matches(funds, r) ==
    LET numbered == By(funds, LAMBDA f : f.ext = r.ext)
        traded == By(funds, LAMBDA f : r.sym # None /\ f.sym = r.sym)
        named == By(funds, LAMBDA f : f.name = r.name /\ f.type = r.type)
    IN  IF numbered # {} THEN numbered ELSE IF traded # {} THEN traded ELSE named

\* The catalogue adds the NAV of the day, if the record has one.
Observed(r) == {d \in {today} : Nav(r) # None}

\* Mutant of Updated: the symbol is only written if there was none.
Updated_KeepsSymbol(rows, f, r) ==
    [ext |-> r.ext, sym |-> IF f.sym = None THEN r.sym ELSE f.sym,
     name |-> r.name, type |-> r.type, rows |-> rows]
Updated(rows, f, r) ==
    [ext |-> r.ext, sym |-> r.sym, name |-> r.name, type |-> r.type, rows |-> rows]
NewFund == [ext |-> None, sym |-> None, name |-> None, type |-> None, rows |-> {}]

\* The unique keys of Fund: external_id, and symbol if there is one.
Collides(funds, n) ==
    \E m \in DOMAIN funds \ {n} :
        funds[m].ext = funds[n].ext \/ (funds[m].sym = funds[n].sym /\ funds[n].sym # None)

\* Of several funds with that name and type the query returns any.
StoreRecord ==
    /\ step = "store" /\ todo # <<>>
    /\ LET r == Head(todo)
           found == Matches(draft, r)
           funds == IF found = {} THEN Append(draft, NewFund) ELSE draft
       IN  \E n \in IF found = {} THEN {Len(funds)} ELSE found :
              LET stored == [funds EXCEPT ![n] = Updated(@.rows \cup Observed(r), @, r)]
              IN  IF Collides(stored, n)
                  THEN Finish("conflict") /\ draft' = table
                  ELSE draft' = stored /\ todo' = Tail(todo) /\ UNCHANGED <<step, outcome>>
    /\ UNCHANGED <<table, today, catalogue, origin, records>>

(***************************************************************************)
(* The histories.                                                          *)
(***************************************************************************)
\* The join on external_id: no row of any fund if the record has none.
HistoryCount(r) ==
    LET own == By(draft, LAMBDA f : f.ext = r.ext)
    IN  IF own = {} THEN 0 ELSE Cardinality(draft[CHOOSE n \in own : TRUE].rows)

\* Records that are equal in both stay in their order.
\* Mutant of Before: the registration number alone decides.
Before_NumberOnly(m, n) == records[m].ext < records[n].ext
Before(m, n) ==
    LET a == records[m]
        b == records[n]
    IN  \/ HistoryCount(a) < HistoryCount(b)
        \/ HistoryCount(a) = HistoryCount(b) /\ (a.ext < b.ext \/ (a.ext = b.ext /\ m < n))

\* The file's provider has no histories to ask for; the chain has the method, also
\* when it is the file it has selected.
ChooseHistories ==
    /\ step = "store" /\ todo = <<>>
    /\ LET active == {n \in DOMAIN records : records[n].active}
           queue == InOrder(active, Before)
           limit == IF origin = "csv" THEN 0 ELSE HistoryLimit
           length == IF Cardinality(active) < limit THEN Cardinality(active) ELSE limit
       IN  todo' = [k \in 1..length |-> records[queue[k]]]
    /\ step' = "history"
    /\ UNCHANGED <<table, draft, today, catalogue, origin, records, outcome>>

FundMissing ==
    /\ step = "history" /\ todo # <<>>
    /\ By(draft, LAMBDA f : f.ext = Head(todo).ext) = {}
    /\ Finish("assertion") /\ draft' = table
    /\ UNCHANGED <<table, today, catalogue, origin, records>>

History(ext, rows(_)) ==
    /\ step = "history" /\ todo # <<>> /\ Head(todo).ext = ext
    /\ \E n \in By(draft, LAMBDA f : f.ext = ext) :
          draft' = [draft EXCEPT ![n].rows = rows(@)]
    /\ todo' = Tail(todo)
    /\ UNCHANGED <<table, today, catalogue, origin, records, step, outcome>>

\* All new days are added; or none, if the history could not be had or the chain has
\* selected the file, for which it returns an empty one (chain.py l.46-50).
HistoryArrives(ext) ==
    origin = "fipiran" /\ History(ext, LAMBDA rows : rows \cup (Since[ext]..today))
HistoryFails(ext) == History(ext, LAMBDA rows : rows)

Commit ==
    /\ step = "history" /\ todo = <<>>
    /\ Finish("success") /\ table' = draft
    /\ UNCHANGED <<draft, today, catalogue, origin, records>>

Numbers == DOMAIN Since
Refreshing ==
    \/ StoreRecord \/ ChooseHistories \/ FundMissing \/ Commit
    \/ \E ext \in Numbers : HistoryArrives(ext) \/ HistoryFails(ext)
CatalogueNext ==
    \/ Refreshing
    \/ \E c \in Catalogues : Fetch(c)
    \/ \E c \in Files : FetchFile(c)

\* Refreshes are started again and again (the scheduler) and go on; an upstream
\* that is asked again and again for the history of a fund sends it at last.
CatalogueSpec ==
    /\ CatalogueInit /\ [][CatalogueNext]_catalogueVars
    /\ WF_catalogueVars(CatalogueNext)
    /\ \A ext \in Numbers : SF_catalogueVars(HistoryArrives(ext))

(***************************************************************************)
(* Properties.                                                             *)
(***************************************************************************)
Pairs(seq) == {<<seq[m], seq[n]>> : m, n \in DOMAIN seq} \ {<<seq[n], seq[n]>> : n \in DOMAIN seq}

\* A catalogue that was accepted makes a refresh fail for two reasons only.  The
\* assertion that the fund of a record is there (data_refresh.py l.225) fails after
\* a catalogue in which two records share a symbol, or a name and a type, whatever
\* was in the table before.  A unique key is broken because a symbol belongs to a
\* fund with another number, before or in the same catalogue (l.117-133).
Shares(a, b) == (a.sym = b.sym /\ a.sym # None) \/ (a.name = b.name /\ a.type = b.type)
FailureHasCause ==
    /\ outcome = "assertion" => \E p \in Pairs(records) : Shares(p[1], p[2])
    /\ outcome = "conflict" =>
          \E n \in DOMAIN records : LET r == records[n] IN r.sym # None /\
              \/ \E k \in DOMAIN table : table[k].sym = r.sym /\ table[k].ext # r.ext
              \/ \E p \in Pairs(records) : p[1].sym = r.sym /\ p[2].sym = r.sym

\* A fund's row may pass to a record of another number, whose own number is then in
\* the table no more.  In the code (data_refresh.py l.117-126) that takes the symbol,
\* or the name together with the type; a name alone never does it.  docs/provider-
\* fallback.md l.14 wants more: records matched "only" by registration number, symbol
\* or official identifier, and there the branch of name and type has no place.  The
\* property is the code's rule: a number disappears with a successful refresh only if
\* a record of another number shares the symbol, or the name and the type, with its
\* row or with its own record.
Versions(ext) ==
    {table[n] : n \in By(table, LAMBDA f : f.ext = ext)}
        \cup {records[n] : n \in By(records, LAMBDA r : r.ext = ext)}
NumbersGoWithCause ==
    [][ outcome' = "success" =>
          \A n \in DOMAIN table : LET ext == table[n].ext IN
              \/ By(table', LAMBDA f : f.ext = ext) # {}
              \/ \E k \in DOMAIN records :
                    records[k].ext # ext /\ \E v \in Versions(ext) : Shares(records[k], v)
      ]_catalogueVars

\* With the fewest rows first (l.214-220) a history that keeps failing starves no
\* fund for good once it succeeds: if a catalogue keeps being accepted, each active
\* fund gets its history, unless as many funds as history_limit have theirs and
\* still no more rows than that fund has from the catalogue alone.
Complete(f) == Since[f.ext]..today \subseteq f.rows
Overtaken(f) ==
    Cardinality({n \in DOMAIN table : /\ table[n].ext # f.ext /\ Complete(table[n])
                                      /\ Cardinality(table[n].rows) <= Cardinality(f.rows)})
        >= HistoryLimit
Served(ext) == \E n \in DOMAIN table :
    table[n].ext = ext /\ (Complete(table[n]) \/ Overtaken(table[n]))
EveryoneServed ==
    \A c \in Catalogues :
        <>[](catalogue = c /\ origin = "fipiran" /\ outcome \in {"running", "success"}) =>
            \A n \in DOMAIN Parsed(c) : Parsed(c)[n].active => <>Served(Parsed(c)[n].ext)
=============================================================================
