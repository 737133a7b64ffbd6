----------------------------- MODULE FundRanking -----------------------------
(***************************************************************************)
(* rank_funds (src/irma/services/fund_rankings.py, l.31-112), which         *)
(* recommendations read, next to the label list_funds gives a fund          *)
(* (persistence/repositories.py, l.12-79).                                  *)
(***************************************************************************)
EXTENDS Integers, Sequences, FiniteSets, Sorting

CONSTANTS
    Worlds,             \* the funds that may be stored: functions from their ids
    MinObservations,    \* MIN_OBSERVATIONS
    MaxStalenessDays    \* MAX_STALENESS_DAYS

\* "observations" counts the NAVs, "age" is the time since last_data_at in hours,
\* negative if there is none; "measured": the four metrics the ranking needs are
\* there; "score" stands for the weighted components.
IsFund(f) ==
    /\ DOMAIN f = {"type", "active", "quality", "observations", "age", "measured", "score", "api"}
    /\ f.observations \in Nat /\ f.age \in Int /\ f.score \in Int
    /\ {f.active, f.measured, f.api} \subseteq BOOLEAN

ASSUME RankingAssumption ==
    /\ MinObservations \in Nat /\ MaxStalenessDays \in Nat
    /\ \A w \in Worlds : /\ DOMAIN w \subseteq Nat /\ IsFiniteSet(DOMAIN w)
                         /\ \A id \in DOMAIN w : IsFund(w[id])

Known(w, type) == {id \in DOMAIN w : w[id].type = type /\ w[id].active}

\* Mutant of Stale: a fund is fresh for one day more.
Stale_ADayLater(f) == f.age \div 24 > MaxStalenessDays + 1
Stale(f) == f.age \div 24 > MaxStalenessDays

Reason(f) ==
    IF f.quality # "valid" THEN "invalid_quality"
    ELSE IF f.observations < MinObservations THEN "insufficient_history"
    ELSE IF f.age < 0 THEN "missing_timestamp"
    ELSE IF Stale(f) THEN "stale"
    ELSE IF ~f.measured THEN "missing_metrics"
    ELSE "none"
Eligible(w, type) == {id \in Known(w, type) : Reason(w[id]) = "none"}

\* By score, then by name; the ids follow the names here.
Better(w, a, b) == w[a].score > w[b].score \/ (w[a].score = w[b].score /\ a < b)
Ranking(w, type) == InOrder(Eligible(w, type), LAMBDA a, b : Better(w, a, b))

\* The label of list_funds.
Label(f) ==
    IF f.age < 0 THEN "unavailable"
    ELSE IF f.age > 24 * 7 THEN "stale"
    ELSE IF f.api THEN "live" ELSE "official_file"
=============================================================================
