----------------------------- MODULE MarketPages -----------------------------
(***************************************************************************)
(* The lists of market observations that are read page by page (api/       *)
(* routes.py, market_indices l.349-396 and market_instruments l.415-456),  *)
(* while imports add to them.  A page is a query of its own: it is ordered *)
(* by the day, the last one first, and by nothing else.  A reader asks for *)
(* page after page until one is not full.  It may filter by a name: the    *)
(* code of an index is unique and never changes, the symbol of an          *)
(* instrument is neither.                                                  *)
(***************************************************************************)
EXTENDS Integers, Sequences, FiniteSets, Sorting

CONSTANTS
    Entities,   \* market indices or instruments
    Names,      \* index codes or symbols
    Dates,      \* the days of observations
    PageSize    \* the parameter "limit"

All == "all"
ASSUME PagesAssumption ==
    Dates \subseteq Int /\ PageSize \in 1..500 /\ All \notin Names /\ "none" \notin Names

VARIABLES
    list,       \* which of the two lists it is
    name,       \* index_code or symbol of each entity
    history,    \* the observations: unique by entity and day
    reader,     \* its filter, where it is, and what it has got
    atFirst,    \* the observations when it began
    imported,   \* how many have been added since
    steady      \* history: its filter has stood for one entity at most, the same all along

pagesVars == <<list, name, history, reader, atFirst, imported, steady>>

NoReader == [filter |-> "none", offset |-> 0, got |-> <<>>, ended |-> FALSE]

PagesInit ==
    /\ list \in {"indices", "instruments"}
    /\ name \in [Entities -> Names]
    /\ list = "indices" => \A e, f \in Entities : name[e] = name[f] => e = f
    /\ history = {} /\ atFirst = {} /\ imported = 0
    /\ reader = NoReader /\ steady = TRUE

Selected(rows) == {r \in rows : reader.filter \in {All, name[r.entity]}}

\* The orders in which the database may return rows: by the day, and on a day
\* as it likes.
Ties == [Dates -> {p \in [Entities -> 1..Cardinality(Entities)] :
                     \A e, f \in Entities : p[e] = p[f] => e = f}]
Ordered(rows, tie) ==
    LET Precedes(r, s) ==
            r.date > s.date \/ (r.date = s.date /\ tie[r.date][r.entity] < tie[r.date][s.entity])
    IN  InOrder(rows, Precedes)

\* Mutant of Page: a page begins where the one before ended.
Smaller(m, n) == IF m < n THEN m ELSE n
Page_Overlapping(s) ==
    SubSeq(s, IF reader.offset = 0 THEN 1 ELSE reader.offset, Smaller(Len(s), reader.offset + PageSize))
Page(s) == SubSeq(s, reader.offset + 1, Smaller(Len(s), reader.offset + PageSize))

\* An import sets the symbol of an instrument whether it adds an observation or not
\* (multi_asset_refresh.py l.118); the code of an index is its key (l.55).
Renamed(e) ==
    IF list = "instruments"
    THEN \E n \in Names : name' = [name EXCEPT ![e] = n]
    ELSE UNCHANGED name
Bearers(names) == {e \in Entities : names[e] = reader.filter}

Import ==
    /\ \E e \in Entities, d \in Dates :
          LET r == [entity |-> e, date |-> d]
          IN  /\ history' = history \cup {r}
              /\ imported' = IF reader = NoReader \/ r \in history THEN imported ELSE imported + 1
              /\ Renamed(e)
    /\ steady' = (steady /\ Bearers(name') = Bearers(name))
    /\ UNCHANGED <<list, reader, atFirst>>

StartReading ==
    /\ reader = NoReader
    /\ \E f \in Names \cup {All} :
          /\ reader' = [reader EXCEPT !.filter = f]
          /\ steady' = \A d, e \in Entities : name[d] = f /\ name[e] = f => d = e
    /\ atFirst' = history
    /\ UNCHANGED <<list, name, history, imported>>

ReadPage ==
    /\ reader # NoReader /\ ~reader.ended
    /\ \E tie \in Ties :
          LET page == Page(Ordered(Selected(history), tie))
          IN  reader' = [reader EXCEPT !.offset = @ + Len(page),
                                       !.got = @ \o page,
                                       !.ended = Len(page) < PageSize]
    /\ UNCHANGED <<list, name, history, atFirst, imported, steady>>

PagesNext == Import \/ StartReading \/ ReadPage
PagesSpec == PagesInit /\ [][PagesNext]_pagesVars

(***************************************************************************)
(* Properties.                                                             *)
(***************************************************************************)
\* Who reads one index to the end gets every observation that was there when it
\* began, whatever is imported meanwhile, and no more of them twice than were added
\* since.  The same holds of an instrument as long as nobody else has its symbol and
\* no import changes who has it: otherwise rows leave the list or enter it in front of
\* the reader's place (l.431-432, models.py l.253).  Of all entities at once it need
\* not hold: those of one day have no order, and two queries may put them differently.
NothingMissed ==
    reader.filter # All /\ (list = "indices" \/ steady) =>
        LET got == {reader.got[n] : n \in DOMAIN reader.got}
        IN  /\ reader.ended => Selected(atFirst) \subseteq got
            /\ Len(reader.got) - Cardinality(got) <= imported
=============================================================================
