--------------------------- MODULE Recommendations ---------------------------
(***************************************************************************)
(* create_recommendation (src/irma/services/recommendations.py, l.22-97):  *)
(* the allocation of a profile, then funds for its parts.                  *)
(***************************************************************************)
EXTENDS Allocation, FundRanking

VARIABLES
    world,          \* the stored funds
    instruments,    \* the funds suggested for each category
    warned          \* the categories for which a warning says there are none

adviceVars == <<world, instruments, warned>>

NoWorld == <<>>

\* CATEGORY_FUND_TYPES.
FundType == [c \in {"fixed_income", "gold", "equity_index", "mixed_fund"} |->
    CASE c = "equity_index" -> "index" [] c = "mixed_fund" -> "mixed" [] OTHER -> c]
\* Each part that funds are suggested for has a minimum of 100000 at least, or is the
\* fixed income, of which the least share of the least capital is more (BASE_ALLOCATIONS,
\* InvestorProfile.capital_toman); MAX_STALENESS_DAYS is the week of list_funds.
ASSUME AdviceAssumption ==
    /\ \A c \in Optional \cap DOMAIN FundType : Minimum[c] >= 100000
    /\ \A p \in Profiles : p.capital * Base[p.risk]["fixed_income"] >= 100 * 100000
    /\ MaxStalenessDays <= 7

MaxInstruments == IF profile.capital < 10000000 THEN 1 ELSE 2

AdviceInit ==
    /\ Init
    /\ world = NoWorld
    /\ instruments = [c \in Categories |-> <<>>]
    /\ warned = {}

Considered(c) == c \in DOMAIN FundType /\ allocations[c] > 0

\* Mutant of Suggestible: an amount of a million is asked for.
Suggestible_Million(w, c) == Eligible(w, FundType[c]) # {} /\ amounts[c] >= 1000000
Suggestible(w, c) == Eligible(w, FundType[c]) # {} /\ amounts[c] >= 100000

Suggest(w) ==
    /\ rule = "done" /\ world = NoWorld
    /\ world' = w
    /\ instruments' = [c \in Categories |->
          IF Considered(c) /\ Suggestible(w, c)
          THEN SubSeq(Ranking(w, FundType[c]), 1,
                      Lesser(MaxInstruments, Cardinality(Eligible(w, FundType[c]))))
          ELSE <<>>]
    /\ warned' = {c \in Categories : Considered(c) /\ ~Suggestible(w, c)}
    /\ UNCHANGED vars

AdviceNext == (Next /\ UNCHANGED adviceVars) \/ \E w \in Worlds : Suggest(w)
AdviceSpec == AdviceInit /\ [][AdviceNext]_<<vars, adviceVars>>

(***************************************************************************)
(* Properties.                                                             *)
(***************************************************************************)
Advised == rule = "done" /\ world # NoWorld

\* A fund is suggested on evidence: active, of the type of its category, with
\* enough valid and measured history, data less than eight days old, for a part that
\* has money in it; and no fund of that type with a better score is passed over
\* (fund_rankings.py l.36-99, recommendations.py l.49-74).  The docs say seven days
\* at most and stale data withheld (fund-ranking-methodology.md l.6,
\* recommendation-methodology.md l.16-19): the code compares whole days (l.53), so
\* that a fund in its eighth day, which list_funds calls stale, is suggested.
SuggestedOnEvidence ==
    Advised => \A c \in Categories : \A n \in DOMAIN instruments[c] :
        LET f == world[instruments[c][n]]
        IN  /\ f.active /\ f.type = FundType[c] /\ f.quality = "valid" /\ f.measured
            /\ f.observations >= MinObservations /\ f.age >= 0
            /\ Label(f) = "stale" => f.age \div 24 = 7
            /\ allocations[c] > 0
            /\ \A id \in Eligible(world, f.type) :
                  world[id].score > f.score => \E m \in 1..(n - 1) : instruments[c][m] = id

\* The warning tells the truth: where it says that there is no eligible fund, there
\* is none.  It is also given for an amount below 100000, but the minimums of the
\* allocation leave no such part (recommendations.py l.55-60, recommendation.py l.142).
WarningIsTrue ==
    Advised => \A c \in warned : Eligible(world, FundType[c]) = {}
=============================================================================
