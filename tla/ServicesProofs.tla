--------------------------- MODULE ServicesProofs ---------------------------
(***************************************************************************)
(* Proofs about the services that answer a request from what is stored     *)
(* (Recommendations, MarketPages) or from what is sent with it (Backtest,  *)
(* Series), and about the fractions these compute with.                    *)
(***************************************************************************)
EXTENDS AllocationProofs, Recommendations, Backtest, MarketPages, SequenceTheorems, Induction

(***************************************************************************)
(* Recommendations: what is advised follows from the allocation.           *)
(***************************************************************************)
\* No rule takes from fixed income.
Sheltered ==
    /\ allocations["fixed_income"] >= Base[profile.risk]["fixed_income"]
    /\ \A n \in DOMAIN sources : sources[n] \in Optional

Suggested(w, c) ==
    IF Considered(c) /\ Suggestible(w, c)
    THEN SubSeq(Ranking(w, FundType[c]), 1,
                Lesser(MaxInstruments, Cardinality(Eligible(w, FundType[c]))))
    ELSE <<>>
\* The advice belongs to the percentages and amounts as they are, and to stored funds.
Advice ==
    world # NoWorld =>
        /\ rule = "done" /\ world \in Worlds
        /\ instruments = [c \in Categories |-> Suggested(world, c)]
        /\ warned = {c \in Categories : Considered(c) /\ ~Suggestible(world, c)}

\* What the minimums leave is no more than what was there.
LEMMA KeptIsLess ==
    ASSUME TypeOK
    PROVE  LET kept == [c \in Categories |-> Kept(c)]
           IN  /\ Sum(kept) \in Int /\ Sum(allocations) \in Int
               /\ Sum(kept) <= Sum(allocations)
<1> DEFINE kept == [c \in Categories |-> Kept(c)]
<1>1. \A c \in Categories : allocations[c] \in 0..100 /\ Kept(c) \in {0, allocations[c]}
  BY DEF TypeOK, Allocations, Kept
<1>2. \A c \in Categories : kept[c] = Kept(c)
  OBVIOUS
<1> HIDE DEF kept
<1>3. \A c \in Categories :
         allocations[c] \in Int /\ kept[c] \in Int /\ 0 <= kept[c] /\ kept[c] <= allocations[c]
  BY <1>1, <1>2
<1>4. Sum(kept) \in Int /\ Sum(kept) <= Sum(allocations) /\ Sum(allocations) \in Int
  BY <1>3 DEF Sum, Categories
<1> QED
  BY <1>4 DEF kept

LEMMA BaseIsShare ==
    ASSUME TypeOK
    PROVE  Base[profile.risk]["fixed_income"] \in 0..100
<1>1. profile.risk \in DOMAIN Base
  BY AllocationAssumption DEF TypeOK, Profile
<1>2. Base[profile.risk] \in [Categories -> 0..100]
  BY <1>1, AllocationAssumption DEF Allocations
<1> QED
  BY <1>2 DEF Categories

LEMMA ShelteredByMove ==
    ASSUME Inv, Sheltered, NEW s \in Categories, MoveFrom(s)
    PROVE  Sheltered'
<1>1. /\ sources \in Seq(Categories) /\ sources # <<>> /\ s = Head(sources)
      /\ sources' = Tail(sources) /\ profile' = profile
      /\ \A n \in DOMAIN sources : sources[n] \in Optional
  BY DEF MoveFrom, Transferring, Inv, TypeOK, Sheltered
<1>2. s \in Optional /\ \A n \in DOMAIN sources' : sources'[n] \in Optional
  BY <1>1
<1> DEFINE m == Moved(s)
<1>3. /\ m \in Nat /\ allocations \in [Categories -> 0..100]
      /\ target \in Categories
  <2>1. allocations \in [Categories -> 0..100] /\ remaining \in 0..100 /\ target \in Categories
    BY AllocationTypes DEF Inv, TypeOK, Categories
  <2>2. allocations[s] \in 0..100
    BY <2>1
  <2> QED
    BY <2>1, <2>2 DEF Moved, Lesser
<1>4. allocations' = [allocations EXCEPT ![s] = @ - m, ![target] = @ + m]
  BY DEF MoveFrom
<1> HIDE DEF m
<1>5. "fixed_income" \in Categories /\ s # "fixed_income"
  BY <1>2 DEF Optional, Categories
<1>6. allocations'["fixed_income"] >= allocations["fixed_income"]
  BY <1>3, <1>4, <1>5
<1>7. allocations'["fixed_income"] \in Int /\ allocations["fixed_income"] \in Int
  BY <1>3, <1>4, <1>5
<1>8. allocations["fixed_income"] >= Base[profile.risk]["fixed_income"]
      /\ Base[profile.risk]["fixed_income"] \in Int
  BY BaseIsShare DEF Sheltered, Inv
<1> QED
  BY <1>1, <1>2, <1>6, <1>7, <1>8 DEF Sheltered

\* The rules take from optional categories.
LEMMA RulesTakeFromOptional ==
    /\ \A n \in DOMAIN <<"short_term", "equity_index", "gold">> :
          <<"short_term", "equity_index", "gold">>[n] \in Optional
    /\ \A n \in DOMAIN <<"short_term", "equity_index">> :
          <<"short_term", "equity_index">>[n] \in Optional
    /\ \A n \in DOMAIN <<"short_term", "equity_index", "mixed_fund">> :
          <<"short_term", "equity_index", "mixed_fund">>[n] \in Optional
    /\ \A n \in DOMAIN <<"short_term", "equity_index", "mixed_fund", "gold">> :
          <<"short_term", "equity_index", "mixed_fund", "gold">>[n] \in Optional
  BY DEF Optional, Categories

LEMMA NextSheltered == Inv /\ Sheltered /\ [Next]_vars => Sheltered'
<1> SUFFICES ASSUME Inv, Sheltered, [Next]_vars PROVE Sheltered'
  OBVIOUS
<1>1. /\ allocations \in [Categories -> 0..100] /\ "fixed_income" \in Categories
      /\ "short_term" \in Categories /\ "equity_index" \in Categories
      /\ allocations["fixed_income"] \in Int /\ allocations["short_term"] \in 0..100
      /\ Base[profile.risk]["fixed_income"] \in Int
  <2>1. allocations \in [Categories -> 0..100] /\ Base[profile.risk]["fixed_income"] \in Int
    BY AllocationTypes, BaseIsShare DEF Inv
  <2> QED
    BY <2>1 DEF Categories
<1>2. CASE LiquidityRule \/ EmergencyRule \/ IncomeRule \/ HorizonRule \/ DrawdownRule
  <2>1. profile' = profile /\ allocations' = allocations
    BY <1>2 DEF LiquidityRule, EmergencyRule, IncomeRule, HorizonRule, DrawdownRule,
                CapRisk, Transfer, NoTransfer
  <2>2. \A n \in DOMAIN sources' : sources'[n] \in Optional
    <3>1. \/ sources' = sources
          \/ sources' = <<"short_term", "equity_index", "gold">>
          \/ sources' = <<"short_term", "equity_index">>
          \/ sources' = <<"short_term", "equity_index", "mixed_fund">>
          \/ sources' = <<"short_term", "equity_index", "mixed_fund", "gold">>
      BY <1>2 DEF LiquidityRule, EmergencyRule, IncomeRule, HorizonRule, DrawdownRule,
                  CapRisk, Transfer, NoTransfer
    <3> QED
      BY <3>1, RulesTakeFromOptional DEF Sheltered
  <2> QED
    BY <2>1, <2>2 DEF Sheltered
<1>3. CASE TradingRule \/ PassiveRule \/ MinimumsRule
  <2>1. profile' = profile /\ sources' = sources
    BY <1>3 DEF TradingRule, PassiveRule, MinimumsRule, Shift, NoTransfer
  <2>2. allocations'["fixed_income"] \in Int
        /\ allocations'["fixed_income"] >= allocations["fixed_income"]
    <3>1. CASE TradingRule
      <4> DEFINE n == Excess(allocations["short_term"], TradingCap)
      <4>1. n \in Nat
        <5>1. TradingCap \in Nat
          BY CapIsBounded DEF Inv
        <5>2. n \in 0..100
          BY <1>1, <5>1, ExcessIsShare
        <5> QED
          BY <5>2
      <4>2. allocations' = [allocations EXCEPT !["short_term"] = @ - n, !["fixed_income"] = @ + n]
        BY <3>1 DEF TradingRule, Shift
      <4> HIDE DEF n
      <4>3. allocations'["fixed_income"] = allocations["fixed_income"] + n
        BY <1>1, <4>2
      <4> QED
        BY <1>1, <4>1, <4>3
    <3>2. CASE PassiveRule
      <4> DEFINE n == allocations["short_term"]
      <4>1. \/ allocations' = [allocations EXCEPT !["short_term"] = @ - n, !["equity_index"] = @ + n]
            \/ allocations' = allocations
        BY <3>2 DEF PassiveRule, Shift, NoTransfer
      <4> HIDE DEF n
      <4>2. allocations'["fixed_income"] = allocations["fixed_income"]
        BY <1>1, <4>1
      <4> QED
        BY <1>1, <4>2
    <3>3. CASE MinimumsRule
      <4> DEFINE kept == [c \in Categories |-> Kept(c)]
                 all == Sum(allocations)
                 left == Sum(kept)
      <4>1. left \in Int /\ all \in Int /\ left <= all
        BY KeptIsLess DEF Inv
      <4>2. kept["fixed_income"] = allocations["fixed_income"]
        BY <1>1 DEF Kept, Optional
      <4>3. allocations' = [kept EXCEPT !["fixed_income"] = @ + all - left]
        BY <3>3 DEF MinimumsRule
      <4>4. "fixed_income" \in DOMAIN kept
        BY <1>1
      <4> HIDE DEF kept, all, left
      <4>5. allocations'["fixed_income"] = allocations["fixed_income"] + all - left
        BY <4>2, <4>3, <4>4
      <4> QED
        BY <1>1, <4>1, <4>5
    <3> QED
      BY <1>3, <3>1, <3>2, <3>3
  <2> QED
    BY <1>1, <2>1, <2>2 DEF Sheltered
<1>4. CASE AssignAmounts \/ AmountRefused \/ UNCHANGED vars
  BY <1>4 DEF AssignAmounts, AmountRefused, NoTransfer, vars, Sheltered
<1> QED
  BY <1>2, <1>3, <1>4, ShelteredByMove DEF Next, ApplyRule, Done

\* The rules have nothing to do once they are done.
LEMMA DoneStays ==
    ASSUME Inv, rule = "done", [Next]_vars
    PROVE  UNCHANGED vars
<1>1. ~(\E s \in Categories : MoveFrom(s))
  BY DEF MoveFrom, Inv, Capped, Late
<1>2. ~(LiquidityRule \/ EmergencyRule \/ IncomeRule \/ HorizonRule \/ DrawdownRule
           \/ TradingRule \/ PassiveRule \/ MinimumsRule \/ AssignAmounts
           \/ AmountRefused)
  BY DEF LiquidityRule, EmergencyRule, IncomeRule, HorizonRule, DrawdownRule, TradingRule,
         PassiveRule, MinimumsRule, AssignAmounts, AmountRefused, At
<1> QED
  BY <1>1, <1>2 DEF Next, ApplyRule, Done

AdviceInv == Inv /\ Divided /\ Sheltered /\ Advice
adviceAll == <<vars, adviceVars>>

LEMMA AdviceInvariant == AdviceSpec => []AdviceInv
<1>1. AdviceInit => AdviceInv
  <2> SUFFICES ASSUME AdviceInit PROVE AdviceInv
    OBVIOUS
  <2>1. Inv
    BY InitInv DEF AdviceInit
  <2>2. Divided /\ Sheltered /\ Advice
    <3>1. Base[profile.risk]["fixed_income"] \in Int
      BY <2>1, BaseIsShare DEF Inv
    <3> QED
      BY <3>1 DEF AdviceInit, Init, Divided, Sheltered, Advice
  <2> QED
    BY <2>1, <2>2 DEF AdviceInv
<1>2. AdviceInv /\ [AdviceNext]_<<vars, adviceVars>> => AdviceInv'
  <2> SUFFICES ASSUME AdviceInv, [AdviceNext]_<<vars, adviceVars>> PROVE AdviceInv'
    OBVIOUS
  <2>1. [Next]_vars
    BY DEF AdviceNext, Suggest
  <2>2. Inv' /\ Divided' /\ Sheltered'
    BY <2>1, NextInv, NextDivided, NextSheltered DEF AdviceInv
  <2>3. Advice'
    <3>1. CASE \E w \in Worlds : Suggest(w)
      <4>1. PICK w \in Worlds : Suggest(w)
        BY <3>1
      <4>2. /\ rule' = "done" /\ world' = w
            /\ instruments' = [c \in Categories |-> Suggested(w, c)]
            /\ warned' = {c \in Categories : Considered(c) /\ ~Suggestible(w, c)}
            /\ UNCHANGED vars
        BY <4>1 DEF Suggest, Suggested, vars
      <4>3. \A c \in Categories : /\ Considered(c)' <=> Considered(c)
                                  /\ Suggestible(world, c)' <=> Suggestible(w, c)
                                  /\ Suggested(world, c)' = Suggested(w, c)
        BY <4>2 DEF vars, Considered, Suggestible, Suggested, MaxInstruments
      <4> QED
        BY <4>2, <4>3 DEF Advice
    <3>2. CASE ~(\E w \in Worlds : Suggest(w))
      <4>1. UNCHANGED adviceVars
        BY <3>2 DEF AdviceNext
      <4> SUFFICES ASSUME world # NoWorld
                   PROVE  /\ rule' = "done" /\ world' \in Worlds
                          /\ instruments' = [c \in Categories |-> Suggested(world, c)']
                          /\ warned' = {c \in Categories : Considered(c)' /\ ~Suggestible(world, c)'}
        BY <4>1 DEF Advice, adviceVars
      <4>2. UNCHANGED vars
        BY <2>1, DoneStays DEF AdviceInv, Advice
      <4>3. \A c \in Categories : /\ Considered(c)' <=> Considered(c)
                                  /\ Suggestible(world, c)' <=> Suggestible(world, c)
                                  /\ Suggested(world, c)' = Suggested(world, c)
        BY <4>1, <4>2 DEF vars, adviceVars, Considered, Suggestible, Suggested, MaxInstruments
      <4> QED
        BY <4>1, <4>2, <4>3 DEF AdviceInv, Advice, vars, adviceVars
    <3> QED
      BY <3>1, <3>2
  <2> QED
    BY <2>2, <2>3 DEF AdviceInv
<1> QED
  BY <1>1, <1>2, PTL DEF AdviceSpec

\* An amount is at least the whole tomans that its part holds.
LEMMA RoundedAtLeast ==
    ASSUME NEW m \in Nat, NEW k \in Nat, m >= 100 * k
    PROVE  (m + 50) \div 100 >= k
  OBVIOUS

LEMMA ProductsGrow ==
    ASSUME NEW k \in Nat, NEW m \in Nat, NEW n \in Nat, m <= n
    PROVE  k * m <= k * n
  OBVIOUS

\* The warning tells the truth: the minimums of the allocation leave no part that is
\* too small to suggest a fund for (recommendations.py l.55-60).
THEOREM WarningsAreTrue == AdviceSpec => []WarningIsTrue
<1>1. AdviceInv => WarningIsTrue
  <2> SUFFICES ASSUME AdviceInv, Advised, NEW c \in warned
               PROVE  Eligible(world, FundType[c]) = {}
    BY DEF WarningIsTrue
  <2>1. c \in Categories /\ Considered(c) /\ ~Suggestible(world, c) /\ rule = "done"
    BY DEF AdviceInv, Advice, Advised
  <2> DEFINE k == profile.capital
             part == k * allocations[c]
  <2>2. /\ k \in Nat /\ allocations[c] \in Nat /\ allocations[c] > 0
        /\ c \in {"fixed_income", "gold", "equity_index", "mixed_fund"}
    BY <2>1, ProfileTypes, AllocationTypes DEF AdviceInv, Inv, Considered, FundType
  <2>3. part \in Nat /\ part >= 100 * 100000
    <3>1. part \in Nat
      BY <2>2, ProductsAreNat
    <3>2. CASE c \in Optional
      <4>1. ~TooSmall(c)
        BY <2>1, <2>2, <3>2 DEF AdviceInv, Inv, Enforced
      <4>2. Minimum[c] \in Nat /\ Minimum[c] >= 100000
        BY <2>2, <3>2, AllocationAssumption, AdviceAssumption DEF FundType
      <4> QED
        BY <3>1, <4>1, <4>2 DEF TooSmall
    <3>3. CASE c = "fixed_income"
      <4> DEFINE base == Base[profile.risk]["fixed_income"]
      <4>1. base \in Nat /\ base <= allocations[c]
        BY <3>3, BaseIsShare DEF AdviceInv, Inv, Sheltered
      <4>2. k * base \in Nat /\ k * base >= 100 * 100000
        BY <2>2, <4>1, ProductsAreNat, AdviceAssumption DEF AdviceInv, Inv, TypeOK
      <4>3. k * base <= part
        BY <2>2, <4>1, ProductsGrow
      <4> HIDE DEF part, k, base
      <4>4. k * base \in Int /\ part \in Int
        BY <3>1, <4>2
      <4> QED
        BY <3>1, <4>2, <4>3, <4>4
    <3> QED
      BY <2>2, <3>1, <3>2, <3>3 DEF Optional, Categories
  <2>4. amounts[c] = (part + 50) \div 100
    BY <2>1, <2>2 DEF AdviceInv, Divided, Amount, Rounded
  <2> HIDE DEF part, k
  <2>5. amounts[c] >= 100000
    BY <2>3, <2>4, RoundedAtLeast
  <2> QED
    BY <2>1, <2>5 DEF Suggestible
<1> QED
  BY <1>1, AdviceInvariant, PTL

\* The ranking of the eligible funds is theirs in the order of score and name.
Prefers(w, funds) == {p \in funds \X funds : Better(w, p[1], p[2])}

LEMMA RankingIsSorted ==
    ASSUME NEW w \in Worlds, NEW type
    PROVE  LET funds == Eligible(w, type)
           IN  /\ Orders(Prefers(w, funds), funds)
               /\ Ranking(w, type) = Sorted(Prefers(w, funds), funds)
<1> DEFINE funds == Eligible(w, type)
           R == Prefers(w, funds)
<1>1. /\ IsFiniteSet(DOMAIN w)
      /\ \A a \in DOMAIN w : a \in Nat /\ w[a].score \in Int
  BY RankingAssumption DEF IsFund
<1>2. funds \in SUBSET DOMAIN w
  BY DEF Eligible, Known
<1>3. IsFiniteSet(funds)
  BY <1>1, <1>2, FS_Subset
<1>4. \A a \in funds : a \in Nat /\ w[a].score \in Int
  BY <1>1, <1>2
<1> HIDE DEF funds
<1>5. \A a, b \in funds : <<a, b>> \in R <=> Better(w, a, b)
  BY DEF Prefers
<1> HIDE DEF R
<1>6. Orders(R, funds)
  <2>1. \A a, b \in funds : <<a, b>> \in R <=>
            w[a].score > w[b].score \/ (w[a].score = w[b].score /\ a < b)
    BY <1>4, <1>5, Zenon DEF Better
  <2>2. \A a \in funds : <<a, a>> \notin R
    BY <1>4, <2>1
  <2>3. \A a, b \in funds : a # b => <<a, b>> \in R \/ <<b, a>> \in R
    BY <1>4, <2>1
  <2>4. \A a, b, c \in funds : <<a, b>> \in R /\ <<b, c>> \in R => <<a, c>> \in R
    BY <1>4, <2>1
  <2> QED
    BY <1>3, <2>2, <2>3, <2>4 DEF Orders
<1>7. \A a \in funds : {b \in funds : Better(w, b, a)} = Ahead(R, funds, a)
  BY <1>5 DEF Ahead
<1>8. Ranking(w, type) =
        [n \in 1..Cardinality(funds) |->
            CHOOSE a \in funds : Cardinality({b \in funds : Better(w, b, a)}) = n - 1]
  BY DEF Ranking, InOrder, funds
<1>9. Ranking(w, type) = Sorted(R, funds)
  BY <1>7, <1>8 DEF Sorted
<1> QED
  BY <1>6, <1>9 DEF R, funds

\* A fund at a place of the ranking is eligible, and who has a better score is before it.
LEMMA RankingRanks ==
    ASSUME NEW w \in Worlds, NEW type
    PROVE  /\ Cardinality(Eligible(w, type)) \in Nat
           /\ Ranking(w, type) \in [1..Cardinality(Eligible(w, type)) -> Eligible(w, type)]
           /\ \A n \in 1..Cardinality(Eligible(w, type)) : \A a \in Eligible(w, type) :
                 w[a].score > w[Ranking(w, type)[n]].score =>
                    \E m \in 1..(n - 1) : Ranking(w, type)[m] = a
<1> DEFINE funds == Eligible(w, type)
           R == Prefers(w, funds)
           s == Ranking(w, type)
<1>1. Orders(R, funds) /\ s = Sorted(R, funds)
  BY RankingIsSorted
<1>2. \A a, b \in funds : <<a, b>> \in R <=> Better(w, a, b)
  BY DEF Prefers
<1> HIDE DEF funds, R, s
<1>3. /\ Cardinality(funds) \in Nat
      /\ s \in [1..Cardinality(funds) -> funds]
      /\ \A n \in 1..Cardinality(funds) : PlaceOf(R, funds, s[n]) = n
      /\ \A a \in funds : s[PlaceOf(R, funds, a)] = a
  BY <1>1, SortedPlaces
<1>4. ASSUME NEW n \in 1..Cardinality(funds), NEW a \in funds, w[a].score > w[s[n]].score
      PROVE  \E m \in 1..(n - 1) : s[m] = a
  <2>1. s[n] \in funds /\ <<a, s[n]>> \in R
    BY <1>2, <1>3, <1>4 DEF Better
  <2>2. PlaceOf(R, funds, a) < n /\ PlaceOf(R, funds, a) \in 1..Cardinality(funds)
    BY <1>1, <1>3, <2>1, PlacesFollow
  <2>3. PlaceOf(R, funds, a) \in 1..(n - 1)
    BY <1>3, <2>2
  <2> QED
    BY <1>3, <2>3
<1> QED
  BY <1>3, <1>4 DEF funds, s

\* A fund is suggested on evidence, and none of its type with a better score is passed
\* over (fund_rankings.py l.38-99, recommendations.py l.49-74).
THEOREM SuggestionsHaveEvidence == AdviceSpec => []SuggestedOnEvidence
<1>1. AdviceInv => SuggestedOnEvidence
  <2> SUFFICES ASSUME AdviceInv, Advised, NEW c \in Categories, NEW n \in DOMAIN instruments[c]
               PROVE  LET f == world[instruments[c][n]]
                      IN  /\ f.active /\ f.type = FundType[c] /\ f.quality = "valid" /\ f.measured
                          /\ f.observations >= MinObservations /\ f.age >= 0
                          /\ Label(f) = "stale" => f.age \div 24 = 7
                          /\ allocations[c] > 0
                          /\ \A id \in Eligible(world, f.type) :
                                world[id].score > f.score =>
                                    \E m \in 1..(n - 1) : instruments[c][m] = id
    BY DEF SuggestedOnEvidence
  <2> DEFINE type == FundType[c]
             funds == Eligible(world, type)
             s == Ranking(world, type)
             k == Lesser(MaxInstruments, Cardinality(funds))
             id0 == instruments[c][n]
             f0 == world[id0]
  <2>1. world \in Worlds /\ instruments[c] = Suggested(world, c)
    BY DEF AdviceInv, Advice, Advised
  <2>2. Considered(c) /\ instruments[c] = SubSeq(s, 1, k)
    <3>1. Suggested(world, c) # <<>>
      BY <2>1
    <3> QED
      BY <2>1, <3>1 DEF Suggested
  <2>3. /\ Cardinality(funds) \in Nat /\ s \in [1..Cardinality(funds) -> funds]
        /\ \A m \in 1..Cardinality(funds) : \A a \in funds :
              world[a].score > world[s[m]].score => \E l \in 1..(m - 1) : s[l] = a
    BY <2>1, RankingRanks
  <2>4. k \in Nat /\ k <= Cardinality(funds)
    BY <2>3 DEF Lesser, MaxInstruments
  <2> HIDE DEF funds, s, k, type
  <2>5. /\ DOMAIN instruments[c] = 1..k
        /\ \A m \in 1..k : instruments[c][m] = s[m]
    BY <2>2, <2>3, <2>4
  <2>6. id0 \in funds /\ id0 = s[n] /\ n \in 1..Cardinality(funds)
    BY <2>3, <2>4, <2>5
  <2>7. f0.active /\ f0.type = type /\ Reason(f0) = "none"
    BY <2>6 DEF Eligible, Known, funds
  <2>8. /\ f0.quality = "valid" /\ ~(f0.observations < MinObservations) /\ ~(f0.age < 0)
        /\ ~Stale(f0) /\ f0.measured
    BY <2>7 DEF Reason
  <2>9. f0.observations \in Nat /\ f0.age \in Int /\ MinObservations \in Nat
        /\ MaxStalenessDays \in Nat /\ MaxStalenessDays <= 7
    <3>1. id0 \in DOMAIN world
      BY <2>6 DEF Eligible, Known, funds
    <3> QED
      BY <2>1, <3>1, RankingAssumption, AdviceAssumption DEF IsFund
  <2>10. /\ f0.observations >= MinObservations /\ f0.age >= 0
         /\ Label(f0) = "stale" => f0.age \div 24 = 7
    <3>1. ASSUME NEW a \in Int, a > 24 * 7, ~(a \div 24 > MaxStalenessDays)
          PROVE  a \div 24 = 7
      BY <2>9, <3>1
    <3>2. Label(f0) = "stale" => f0.age > 24 * 7
      BY DEF Label
    <3> QED
      BY <2>8, <2>9, <3>1, <3>2 DEF Stale
  <2>11. ASSUME NEW id \in Eligible(world, f0.type), world[id].score > f0.score
         PROVE  \E m \in 1..(n - 1) : instruments[c][m] = id
    <3>1. id \in funds
      BY <2>7 DEF funds
    <3>2. PICK l \in 1..(n - 1) : s[l] = id
      BY <2>3, <2>6, <2>11, <3>1
    <3>3. l \in 1..k
      BY <2>4, <2>5
    <3> QED
      BY <2>5, <3>2, <3>3
  <2> QED
    BY <2>2, <2>7, <2>8, <2>10, <2>11 DEF Considered, type
<1> QED
  BY <1>1, AdviceInvariant, PTL

(***************************************************************************)
(* MarketPages: a list of one entity has one row a day, and so one order.  *)
(***************************************************************************)
Rows == [entity: Entities, date: Dates]
OneEntity(S) ==
    S \in SUBSET Rows /\ IsFiniteSet(S) /\ \A a, b \in S : a.entity = b.entity
Newer(S) == {p \in S \X S : p[1].date > p[2].date}
Spot(S, r) == PlaceOf(Newer(S), S, r)
UpTo(S, k) == {r \in S : Spot(S, r) <= k}
Got(g) == {g[n] : n \in DOMAIN g}

\* A reader that is at k has got g, of the rows S of which F were there when it began;
\* n have been imported since.  It has seen the first k rows but for n, and those of F
\* that it has not got come later.
Reads(S, F, k, g, ended, n) ==
    /\ Len(g) = k /\ k <= Cardinality(S)
    /\ Cardinality(UpTo(S, k) \ Got(g)) <= n
    /\ \A r \in F : r \in Got(g) \/ Spot(S, r) > k
    /\ ended => F \subseteq Got(g)

Readers == [filter: Names \cup {All, "none"}, offset: Nat, got: Seq(Rows), ended: BOOLEAN]
\* A name has one bearer at most.
Alone(n) == \A d, e \in Entities : name[d] = n /\ name[e] = n => d = e
PagesInv ==
    /\ history \in SUBSET Rows /\ IsFiniteSet(history) /\ atFirst \subseteq history
    /\ imported \in Nat /\ reader \in Readers
    /\ steady \in BOOLEAN /\ name \in [Entities -> Names]
    /\ list = "indices" => steady /\ \A n \in Names : Alone(n)
    /\ reader.filter # All /\ steady =>
          /\ Alone(reader.filter)
          /\ Reads(Selected(history), Selected(atFirst), reader.offset, reader.got, reader.ended,
                   imported)

LEMMA NewerOrders ==
    ASSUME NEW S, OneEntity(S)
    PROVE  /\ Orders(Newer(S), S)
           /\ \A a \in S : Ahead(Newer(S), S, a) = {b \in S : b.date > a.date}
<1>1. \A a \in S : a \in Rows /\ a.date \in Int
  BY PagesAssumption DEF OneEntity, Rows
<1>2. \A a, b \in S : a.date = b.date => a = b
  BY <1>1 DEF OneEntity, Rows
<1>3. \A a, b \in S : <<a, b>> \in Newer(S) <=> a.date > b.date
  BY DEF Newer
<1>4. \A a \in S : <<a, a>> \notin Newer(S)
  BY <1>1, <1>3
<1>5. \A a, b \in S : a # b => <<a, b>> \in Newer(S) \/ <<b, a>> \in Newer(S)
  BY <1>1, <1>2, <1>3
<1>6. \A a, b, c \in S :
         <<a, b>> \in Newer(S) /\ <<b, c>> \in Newer(S) => <<a, c>> \in Newer(S)
  BY <1>1, <1>3
<1>7. \A a \in S : Ahead(Newer(S), S, a) = {b \in S : b.date > a.date}
  BY <1>3 DEF Ahead
<1> QED
  BY <1>4, <1>5, <1>6, <1>7 DEF Orders, OneEntity

\* The places of the rows, and how many rows the first k are.
LEMMA SpotFacts ==
    ASSUME NEW S, OneEntity(S)
    PROVE  /\ Cardinality(S) \in Nat
           /\ \A r \in S : Spot(S, r) \in 1..Cardinality(S)
           /\ Sorted(Newer(S), S) \in [1..Cardinality(S) -> S]
           /\ \A n \in 1..Cardinality(S) : Spot(S, Sorted(Newer(S), S)[n]) = n
           /\ \A r \in S : Sorted(Newer(S), S)[Spot(S, r)] = r
<1>1. Orders(Newer(S), S)
  BY NewerOrders
<1> QED
  BY <1>1, SortedPlaces, PlacesFollow DEF Spot

LEMMA UpToCount ==
    ASSUME NEW S, OneEntity(S), NEW k \in Nat, k <= Cardinality(S)
    PROVE  IsFiniteSet(UpTo(S, k)) /\ Cardinality(UpTo(S, k)) = k
<1> DEFINE s == Sorted(Newer(S), S)
           U == UpTo(S, k)
           f == [n \in 1..k |-> s[n]]
<1>1. /\ Cardinality(S) \in Nat
      /\ \A r \in S : Spot(S, r) \in 1..Cardinality(S)
      /\ s \in [1..Cardinality(S) -> S]
      /\ \A n \in 1..Cardinality(S) : Spot(S, s[n]) = n
      /\ \A r \in S : s[Spot(S, r)] = r
  BY SpotFacts
<1> HIDE DEF s
<1>2. \A n \in 1..k : s[n] \in U
  BY <1>1 DEF UpTo
<1>3. \A m, n \in 1..k : s[m] = s[n] => m = n
  <2>1. \A m \in 1..k : Spot(S, s[m]) = m
    BY <1>1
  <2> QED
    BY <2>1
<1>4. \A r \in U : Spot(S, r) \in 1..k /\ s[Spot(S, r)] = r
  BY <1>1 DEF UpTo
<1> HIDE DEF U
<1>5. f \in Bijection(1..k, U)
  BY <1>2, <1>3, <1>4 DEF Bijection, Injection, Surjection, IsInjective
<1>6. ExistsBijection(1..k, U)
  BY <1>5 DEF ExistsBijection
<1>7. Cardinality(U) = k /\ IsFiniteSet(U)
  BY <1>6, FS_CountingElements, FS_NatBijection
<1> QED
  BY <1>7 DEF U

\* What has been got is finite, and of what has been read no more is there twice than
\* has been imported.
LEMMA GotCount ==
    ASSUME NEW S, OneEntity(S), NEW F, NEW k \in Nat, NEW g \in Seq(Rows), NEW ended,
           NEW n \in Nat, Reads(S, F, k, g, ended, n)
    PROVE  Len(g) - Cardinality(Got(g)) <= n
<1> DEFINE A == UpTo(S, k) \ Got(g)
           B == Got(g)
<1>1. IsFiniteSet(UpTo(S, k)) /\ Cardinality(UpTo(S, k)) = k
  BY UpToCount DEF Reads
<1>2. IsFiniteSet(A)
  BY <1>1, FS_Subset
<1>3. IsFiniteSet(B)
  <2> DEFINE f == [m \in 1..Len(g) |-> g[m]]
  <2>1. f \in Surjection(1..Len(g), B) /\ Len(g) \in Nat
    BY DEF Surjection, Got
  <2>2. ExistsSurjection(1..Len(g), B)
    BY <2>1 DEF ExistsSurjection
  <2> QED
    BY <2>1, <2>2, FS_NatSurjection
<1>4. UpTo(S, k) \in SUBSET (A \cup B) /\ A \cap B = {}
  OBVIOUS
<1>5. A \cap B \in SUBSET A
  OBVIOUS
<1>6. Cardinality(A) <= n /\ Len(g) = k
  BY DEF Reads
<1> HIDE DEF A, B
<1>7. /\ IsFiniteSet(A \cup B)
      /\ Cardinality(A \cup B) = Cardinality(A) + Cardinality(B) - Cardinality(A \cap B)
  BY <1>2, <1>3, FS_Union
<1>8. Cardinality(A) \in Nat /\ Cardinality(B) \in Nat /\ Cardinality(A \cap B) = 0
  BY <1>2, <1>3, <1>4, FS_CardinalityType, FS_EmptySet
<1>9. k <= Cardinality(A \cup B)
  BY <1>1, <1>4, <1>7, FS_Subset
<1>10. Cardinality(A \cup B) = Cardinality(A) + Cardinality(B)
  BY <1>7, <1>8
<1>11. k - Cardinality(B) <= n
  BY <1>6, <1>8, <1>9, <1>10
<1> QED
  BY <1>6, <1>11 DEF B

\* Who has not begun has read nothing.
LEMMA ReadsNothing ==
    ASSUME NEW S, OneEntity(S), NEW F \in SUBSET S, NEW n \in Nat
    PROVE  Reads(S, F, 0, <<>>, FALSE, n)
<1>1. Cardinality(S) \in Nat /\ \A r \in S : Spot(S, r) \in 1..Cardinality(S)
  BY SpotFacts
<1>2. UpTo(S, 0) = {}
  BY <1>1 DEF UpTo
<1>3. UpTo(S, 0) \ Got(<<>>) = {}
  BY <1>2
<1>4. Cardinality(UpTo(S, 0) \ Got(<<>>)) = 0
  BY <1>3, FS_EmptySet
<1>5. \A r \in F : Spot(S, r) > 0
  BY <1>1
<1>6. Len(<<>>) = 0
  OBVIOUS
<1> QED
  BY <1>1, <1>4, <1>5, <1>6 DEF Reads

\* A row that is imported moves rows on by one place at most, and none back.
LEMMA ReadsImport ==
    ASSUME NEW S, NEW x, NEW T, T = S \cup {x}, OneEntity(T), NEW F \in SUBSET S, NEW k \in Nat,
           NEW g \in Seq(Rows), NEW ended, NEW n \in Nat, Reads(S, F, k, g, ended, n)
    PROVE  Reads(T, F, k, g, ended, n + 1)
<1>1. OneEntity(S) /\ S \in SUBSET T /\ IsFiniteSet(T)
  BY FS_Subset DEF OneEntity
<1>2. Cardinality(S) \in Nat /\ Cardinality(T) \in Nat /\ Cardinality(S) <= Cardinality(T)
  BY <1>1, FS_Subset, FS_CardinalityType
<1>3. ASSUME NEW r \in S
      PROVE  /\ Spot(S, r) <= Spot(T, r)
             /\ Spot(S, r) \in Nat /\ Spot(T, r) \in Nat
  <2> DEFINE A == Ahead(Newer(S), S, r)
             B == Ahead(Newer(T), T, r)
  <2>1. A \in SUBSET B
    BY <1>1, <1>3, NewerOrders
  <2>2. IsFiniteSet(B) /\ IsFiniteSet(A)
    BY <1>1, <1>3, NewerOrders, PlacesFollow
  <2>3. Cardinality(A) <= Cardinality(B) /\ Cardinality(A) \in Nat /\ Cardinality(B) \in Nat
    BY <2>1, <2>2, FS_Subset, FS_CardinalityType
  <2> HIDE DEF A, B
  <2>4. Spot(S, r) = Cardinality(A) + 1 /\ Spot(T, r) = Cardinality(B) + 1
    BY DEF Spot, PlaceOf, A, B
  <2> QED
    BY <2>3, <2>4
<1> DEFINE old == UpTo(S, k) \ Got(g)
           new == UpTo(T, k) \ Got(g)
<1>4. new \in SUBSET (old \cup {x})
  <2> SUFFICES ASSUME NEW r \in T, Spot(T, r) <= k, r \notin Got(g), r # x
               PROVE  r \in old
    BY DEF UpTo
  <2>1. r \in S
    OBVIOUS
  <2> DEFINE i == Spot(S, r)
             j == Spot(T, r)
  <2>2. i <= j /\ i \in Nat /\ j \in Nat /\ j <= k
    BY <1>3, <2>1
  <2> HIDE DEF i, j
  <2>3. i <= k
    BY <2>2
  <2> QED
    BY <2>1, <2>3 DEF UpTo, i
<1>5. IsFiniteSet(old) /\ Cardinality(old) <= n
  <2>1. old \in SUBSET S /\ IsFiniteSet(S)
    BY <1>1 DEF UpTo, OneEntity
  <2> QED
    BY <2>1, FS_Subset DEF Reads
<1> HIDE DEF old, new
<1>6. /\ IsFiniteSet(old \cup {x}) /\ Cardinality(old) \in Nat
      /\ Cardinality(old \cup {x}) <= Cardinality(old) + 1
  <2>1. Cardinality(old) \in Nat
    BY <1>5, FS_CardinalityType
  <2>2. /\ IsFiniteSet(old \cup {x})
        /\ Cardinality(old \cup {x}) = IF x \in old THEN Cardinality(old) ELSE Cardinality(old) + 1
    BY <1>5, FS_AddElement
  <2> QED
    BY <2>1, <2>2
<1>7. Cardinality(new) <= n + 1
  <2>1. /\ Cardinality(new) <= Cardinality(old \cup {x}) /\ IsFiniteSet(new)
    BY <1>4, <1>6, FS_Subset
  <2>2. Cardinality(new) \in Nat /\ Cardinality(old \cup {x}) \in Nat
    BY <1>6, <2>1, FS_CardinalityType
  <2> QED
    BY <1>5, <1>6, <2>1, <2>2
<1>8. ASSUME NEW r \in F, r \notin Got(g)
      PROVE  Spot(T, r) > k
  <2> DEFINE i == Spot(S, r)
             j == Spot(T, r)
  <2>1. i <= j /\ i \in Nat /\ j \in Nat
    BY <1>3
  <2>2. i > k
    BY <1>8 DEF Reads
  <2> HIDE DEF i, j
  <2>3. j > k
    BY <2>1, <2>2
  <2> QED
    BY <2>3 DEF j
<1>9. Len(g) = k /\ k <= Cardinality(T) /\ (ended => F \subseteq Got(g))
  BY <1>2 DEF Reads
<1> QED
  BY <1>7, <1>8, <1>9 DEF Reads, new

\* A page has the rows from k + 1 to m.
IsPage(page, s, k, m) ==
    /\ page \in Seq(Rows) /\ Len(page) = m - k
    /\ \A i \in 1..(m - k) : page[i] = s[k + i]

LEMMA SubSeqIsPage ==
    ASSUME NEW s, NEW k \in Nat, NEW m \in Nat, k <= m, \A i \in (k + 1)..m : s[i] \in Rows
    PROVE  IsPage(SubSeq(s, k + 1, m), s, k, m)
<1> DEFINE a == k + 1
<1>1. a \in Int /\ m \in Int /\ \A i \in a..m : s[i] \in Rows
  OBVIOUS
<1> HIDE DEF a
<1>2. /\ SubSeq(s, a, m) \in Seq(Rows)
      /\ Len(SubSeq(s, a, m)) = IF a <= m THEN m - a + 1 ELSE 0
      /\ \A i \in 1..(m - a + 1) : SubSeq(s, a, m)[i] = s[a + i - 1]
  <2>1. SubSeq(s, a, m) \in Seq(Rows)
    BY <1>1, SubSeqProperties, Zenon
  <2>2. Len(SubSeq(s, a, m)) = IF a <= m THEN m - a + 1 ELSE 0
    BY <1>1, SubSeqProperties, Zenon
  <2>3. \A i \in 1..(m - a + 1) : SubSeq(s, a, m)[i] = s[a + i - 1]
    BY <1>1
  <2> QED
    BY <2>1, <2>2, <2>3, Zenon
<1> DEFINE page == SubSeq(s, a, m)
<1>2a. /\ page \in Seq(Rows)
       /\ Len(page) = IF a <= m THEN m - a + 1 ELSE 0
       /\ \A i \in 1..(m - a + 1) : page[i] = s[a + i - 1]
  BY <1>2, Zenon
<1> HIDE DEF page
<1>3. m - a + 1 = m - k /\ \A i \in Int : a + i - 1 = k + i
  BY DEF a
<1>4. Len(page) = m - k
  BY <1>2a, <1>3 DEF a
<1>5. \A i \in 1..(m - k) : page[i] = s[k + i]
  BY <1>2a, <1>3
<1> QED
  BY <1>2a, <1>4, <1>5 DEF IsPage, page, a

\* A page that is read after the first k rows has the rows that come next, up to the
\* last one if it is not full.
LEMMA ReadsPage ==
    ASSUME NEW S, OneEntity(S), NEW F \in SUBSET S, NEW k \in Nat, NEW g \in Seq(Rows),
           NEW ended, NEW n \in Nat, Reads(S, F, k, g, ended, n), NEW size \in 1..500,
           NEW page, page = SubSeq(Sorted(Newer(S), S), k + 1, Smaller(Cardinality(S), k + size))
    PROVE  Reads(S, F, k + Len(page), g \o page, Len(page) < size, n)
<1> DEFINE s == Sorted(Newer(S), S)
           c == Cardinality(S)
           m == Smaller(c, k + size)
           h == g \o page
<1>1. /\ c \in Nat
      /\ \A r \in S : Spot(S, r) \in 1..c
      /\ s \in [1..c -> S]
      /\ \A r \in S : s[Spot(S, r)] = r
  BY SpotFacts
<1>2. k <= c /\ Len(g) = k
  BY DEF Reads
<1>3. m \in Nat /\ k <= m /\ m <= c /\ (m - k < size => m = c)
  BY <1>1, <1>2 DEF Smaller
<1>4. page = SubSeq(s, k + 1, m) /\ S \subseteq Rows
  BY DEF OneEntity
<1> HIDE DEF s, c, m
<1>5. \A i \in (k + 1)..m : s[i] \in Rows
  BY <1>1, <1>3, <1>4
<1>6. /\ page \in Seq(Rows) /\ Len(page) = m - k
      /\ \A i \in 1..(m - k) : page[i] = s[k + i]
  <2>1. IsPage(SubSeq(s, k + 1, m), s, k, m)
    BY <1>3, <1>5, SubSeqIsPage
  <2>2. IsPage(page, s, k, m)
    BY <1>4, <2>1, Zenon
  <2> QED
    BY <2>2, Zenon DEF IsPage
<1>7. /\ h \in Seq(Rows) /\ Len(h) = m /\ DOMAIN h = 1..m /\ DOMAIN g = 1..k
      /\ \A i \in 1..k : h[i] = g[i]
      /\ \A i \in 1..(m - k) : h[k + i] = page[i]
  <2>1. Len(g) \in Nat /\ Len(page) \in Nat
    BY <1>6
  <2>2. /\ g \o page \in Seq(Rows) /\ Len(g \o page) = Len(g) + Len(page)
        /\ \A i \in 1..(Len(g) + Len(page)) :
              (g \o page)[i] = IF i <= Len(g) THEN g[i] ELSE page[i - Len(g)]
    BY <1>6, ConcatProperties, ZenonT(30)
  <2>2a. /\ h \in Seq(Rows) /\ Len(h) = Len(g) + Len(page)
         /\ \A i \in 1..(Len(g) + Len(page)) :
               h[i] = IF i <= Len(g) THEN g[i] ELSE page[i - Len(g)]
    BY <2>2, Zenon DEF h
  <2>2b. Len(g) + Len(page) = m
    <3>1. Len(g) = k /\ Len(page) = m - k
      BY <1>2, <1>6, Zenon
    <3>2. k + (m - k) = m
      BY <1>3
    <3> QED
      BY <3>1, <3>2, Zenon
  <2>2c. Len(g) = k
    BY <1>2, Zenon
  <2> HIDE DEF h
  <2>3. h \in Seq(Rows) /\ Len(h) = m
    BY <2>2a, <2>2b, Zenon
  <2>4. \A i \in 1..m : h[i] = IF i <= k THEN g[i] ELSE page[i - k]
    BY <2>2a, <2>2b, <2>2c, Zenon
  <2>5. \A i \in 1..k : i \in 1..m
    BY <1>3
  <2>6. \A i \in 1..(m - k) : k + i \in 1..m /\ ~(k + i <= k) /\ (k + i) - k = i
    BY <1>3
  <2>7. \A i \in 1..k : h[i] = g[i]
    BY <2>4, <2>5
  <2>8. \A i \in 1..(m - k) : h[k + i] = page[i]
    BY <2>4, <2>6
  <2>9. DOMAIN h = 1..m
    BY <2>3
  <2>10. DOMAIN g = 1..k
    BY <1>2
  <2> QED
    BY <2>3, <2>7, <2>8, <2>9, <2>10
<1> HIDE DEF h
<1>8. Got(g) \subseteq Got(h)
  BY <1>3, <1>7 DEF Got
<1>9. ASSUME NEW r \in S, Spot(S, r) <= m, ~(Spot(S, r) <= k)
      PROVE  r \in Got(h)
  <2> DEFINE i == Spot(S, r)
  <2>1. i \in 1..c /\ s[i] = r
    BY <1>1
  <2> HIDE DEF i
  <2>2. i <= m /\ ~(i <= k)
    BY <1>9 DEF i
  <2>3. i - k \in 1..(m - k) /\ k + (i - k) = i /\ i \in 1..m
    BY <1>3, <2>1, <2>2
  <2>4. h[i] = r
    BY <1>6, <1>7, <2>1, <2>3
  <2> QED
    BY <1>7, <2>3, <2>4 DEF Got
<1>10. Cardinality(UpTo(S, m) \ Got(h)) <= n
  <2> DEFINE new == UpTo(S, m) \ Got(h)
             old == UpTo(S, k) \ Got(g)
  <2>1. new \in SUBSET old
    <3> SUFFICES ASSUME NEW r \in S, Spot(S, r) <= m, r \notin Got(h)
                 PROVE  r \in old
      BY DEF UpTo
    <3> QED
      BY <1>8, <1>9 DEF UpTo
  <2>2. IsFiniteSet(old) /\ Cardinality(old) <= n
    <3>1. old \in SUBSET S /\ IsFiniteSet(S)
      BY DEF UpTo, OneEntity
    <3> QED
      BY <3>1, FS_Subset DEF Reads
  <2> HIDE DEF new, old
  <2>3. IsFiniteSet(new) /\ Cardinality(new) <= Cardinality(old)
    BY <2>1, <2>2, FS_Subset
  <2>4. Cardinality(new) \in Nat /\ Cardinality(old) \in Nat
    BY <2>2, <2>3, FS_CardinalityType
  <2>5. Cardinality(new) <= n
    BY <2>2, <2>3, <2>4
  <2> QED
    BY <2>5 DEF new
<1>11. ASSUME NEW r \in F, r \notin Got(h)
       PROVE  Spot(S, r) > m
  <2> DEFINE i == Spot(S, r)
  <2>1. i \in 1..c
    BY <1>1
  <2>2. i > k
    BY <1>8, <1>11 DEF Reads
  <2> HIDE DEF i
  <2>3. ~(i <= k)
    BY <1>3, <2>1, <2>2
  <2>4. ~(i <= m)
    BY <1>9, <1>11, <2>3 DEF i
  <2>5. i > m
    BY <1>3, <2>1, <2>4
  <2> QED
    BY <2>5 DEF i
<1>12. ASSUME Len(page) < size
       PROVE  F \subseteq Got(h)
  <2> SUFFICES ASSUME NEW r \in F, r \notin Got(h)
               PROVE  FALSE
    OBVIOUS
  <2> DEFINE i == Spot(S, r)
  <2>1. i \in 1..c /\ i > m
    BY <1>1, <1>11
  <2> HIDE DEF i
  <2> QED
    BY <1>1, <1>3, <1>6, <1>12, <2>1
<1>13. k + Len(page) = m
  BY <1>3, <1>6
<1>14. Reads(S, F, m, h, Len(page) < size, n)
  BY <1>3, <1>7, <1>10, <1>11, <1>12 DEF Reads, c
<1> QED
  BY <1>13, <1>14 DEF h

\* Of a page that is sorted anyhow it is known only that it has rows.
LEMMA PageIsRows ==
    ASSUME NEW S \in SUBSET Rows, IsFiniteSet(S), NEW s \in [1..Cardinality(S) -> S],
           NEW k \in Nat, NEW size \in 1..500
    PROVE  SubSeq(s, k + 1, Smaller(Cardinality(S), k + size)) \in Seq(Rows)
<1> DEFINE m == Smaller(Cardinality(S), k + size)
           a == k + 1
<1>1. Cardinality(S) \in Nat
  BY FS_CardinalityType
<1>2. m \in Int /\ a \in Int /\ m <= Cardinality(S) /\ a >= 1
  BY <1>1 DEF Smaller
<1> HIDE DEF m, a
<1>3. \A i \in a..m : s[i] \in Rows
  BY <1>1, <1>2
<1>4. SubSeq(s, a, m) \in Seq(Rows)
  BY <1>2, <1>3, SubSeqProperties, Zenon
<1> QED
  BY <1>4 DEF m, a

\* What is imported elsewhere changes nothing that has been read.
LEMMA ReadsLonger ==
    ASSUME NEW S, OneEntity(S), NEW F \in SUBSET S, NEW k \in Nat, NEW g \in Seq(Rows),
           NEW ended, NEW n \in Nat, Reads(S, F, k, g, ended, n)
    PROVE  Reads(S, F, k, g, ended, n + 1)
<1> DEFINE c == Cardinality(UpTo(S, k) \ Got(g))
<1>1. IsFiniteSet(UpTo(S, k))
  BY UpToCount DEF Reads
<1>2. c \in Nat /\ c <= n
  <2>1. IsFiniteSet(UpTo(S, k) \ Got(g))
    BY <1>1, FS_Subset
  <2> QED
    BY <2>1, FS_CardinalityType DEF Reads
<1> HIDE DEF c
<1>3. c <= n + 1
  BY <1>2
<1> QED
  BY <1>3 DEF Reads, c

\* Whatever the database does with the rows of a day, a page is sorted.
Tied(S, tie) ==
    {p \in S \X S : \/ p[1].date > p[2].date
                    \/ /\ p[1].date = p[2].date
                       /\ tie[p[1].date][p[1].entity] < tie[p[2].date][p[2].entity]}

LEMMA OrderedIsSorted ==
    ASSUME NEW S \in SUBSET Rows, IsFiniteSet(S), NEW tie \in Ties
    PROVE  Orders(Tied(S, tie), S) /\ Ordered(S, tie) = Sorted(Tied(S, tie), S)
<1> DEFINE R == Tied(S, tie)
           rank(r) == tie[r.date][r.entity]
<1>1. \A r \in S : r.date \in Dates /\ r.date \in Int /\ r.entity \in Entities
  BY PagesAssumption DEF Rows
<1>2. \A d \in Dates : tie[d] \in [Entities -> 1..Cardinality(Entities)]
  BY DEF Ties
<1>3. \A d \in Dates : \A e, f \in Entities : tie[d][e] = tie[d][f] => e = f
  BY DEF Ties
<1>4. \A r \in S : rank(r) \in Int
  BY <1>1, <1>2
<1>5. \A r, q \in S : r.date = q.date /\ rank(r) = rank(q) => r = q
  <2>1. \A r, q \in S : r.date = q.date /\ rank(r) = rank(q) => r.entity = q.entity
    BY <1>1, <1>3
  <2> QED
    BY <2>1 DEF Rows
<1>6. \A r, q \in S : <<r, q>> \in R <=>
          r.date > q.date \/ (r.date = q.date /\ rank(r) < rank(q))
  BY DEF Tied
<1> DEFINE ahead(r) == {q \in S : q.date > r.date
                \/ (q.date = r.date /\ tie[q.date][q.entity] < tie[q.date][r.entity])}
<1>7. Ordered(S, tie) =
        [n \in 1..Cardinality(S) |-> CHOOSE r \in S : Cardinality(ahead(r)) = n - 1]
  BY DEF Ordered, InOrder
<1>7a. \A r \in S : ahead(r) = {q \in S : q.date > r.date \/ (q.date = r.date /\ rank(q) < rank(r))}
  OBVIOUS
<1> HIDE DEF R, rank, ahead
<1>8. \A r \in S : <<r, r>> \notin R
  BY <1>1, <1>4, <1>6
<1>9. \A r, q \in S : r # q => <<r, q>> \in R \/ <<q, r>> \in R
  BY <1>1, <1>4, <1>5, <1>6
<1>10. \A r, q, p \in S : <<r, q>> \in R /\ <<q, p>> \in R => <<r, p>> \in R
  BY <1>1, <1>4, <1>6
<1>11. Orders(R, S)
  BY <1>8, <1>9, <1>10 DEF Orders
<1>12. \A r \in S : ahead(r) = Ahead(R, S, r)
  BY <1>6, <1>7a DEF Ahead
<1>13. Ordered(S, tie) = Sorted(R, S)
  BY <1>7, <1>12 DEF Sorted
<1> QED
  BY <1>11, <1>13 DEF R

LEMMA NoTies ==
    ASSUME NEW S, OneEntity(S), NEW tie \in Ties
    PROVE  Tied(S, tie) = Newer(S)
<1> SUFFICES ASSUME NEW r \in S, NEW q \in S, r.date = q.date
             PROVE  ~(tie[r.date][r.entity] < tie[q.date][q.entity])
  BY DEF Tied, Newer
<1>1. r.entity = q.entity /\ r.date \in Dates /\ r.entity \in Entities
  BY DEF OneEntity, Rows
<1>2. tie[r.date][r.entity] \in 1..Cardinality(Entities)
  <2>1. tie[r.date] \in [Entities -> 1..Cardinality(Entities)]
    BY <1>1 DEF Ties
  <2> QED
    BY <1>1, <2>1
<1> QED
  BY <1>1, <1>2

\* The rows of a name that stands for one entity are rows of one entity.
LEMMA SelectedRows ==
    ASSUME PagesInv, NEW rows, rows \in SUBSET Rows, IsFiniteSet(rows)
    PROVE  /\ Selected(rows) \in SUBSET rows /\ IsFiniteSet(Selected(rows))
           /\ reader.filter # All /\ Alone(reader.filter) => OneEntity(Selected(rows))
<1>1. Selected(rows) \in SUBSET rows
  BY DEF Selected
<1>2. IsFiniteSet(Selected(rows))
  BY <1>1, FS_Subset
<1>3. ASSUME reader.filter # All, Alone(reader.filter)
      PROVE  \A a, b \in Selected(rows) : a.entity = b.entity
  BY <1>3 DEF Selected, Alone, Rows
<1> QED
  BY <1>1, <1>2, <1>3 DEF OneEntity

\* What a step of an import does to the names, and what it leaves alone.
LEMMA ImportNames ==
    ASSUME PagesInv, Import
    PROVE  /\ name' \in [Entities -> Names] /\ steady' \in BOOLEAN
           /\ list = "indices" => name' = name /\ steady' = steady
           /\ list' = list
           /\ steady' => steady /\ Bearers(name') = Bearers(name)
<1>1. PICK e \in Entities : Renamed(e)
  BY DEF Import
<1>2. /\ name' \in [Entities -> Names]
      /\ list = "indices" => name' = name
  <2>1. name \in [Entities -> Names]
    BY DEF PagesInv
  <2>2. CASE list = "instruments"
    <3>1. PICK n \in Names : name' = [name EXCEPT ![e] = n]
      BY <1>1, <2>2 DEF Renamed
    <3> QED
      BY <2>1, <2>2, <3>1
  <2>3. CASE list # "instruments"
    BY <1>1, <2>1, <2>3 DEF Renamed
  <2> QED
    BY <2>2, <2>3
<1>3. list' = list /\ steady' = (steady /\ Bearers(name') = Bearers(name))
  BY DEF Import
<1> QED
  BY <1>2, <1>3 DEF PagesInv

LEMMA PagesInvariant == PagesSpec => []PagesInv
<1>1. PagesInit => PagesInv
  <2> SUFFICES ASSUME PagesInit
               PROVE  PagesInv
    OBVIOUS
  <2>1. /\ history = {} /\ atFirst = {} /\ imported = 0 /\ reader = NoReader /\ steady = TRUE
        /\ name \in [Entities -> Names]
    BY DEF PagesInit
  <2>2. reader \in Readers
    BY <2>1 DEF Readers, NoReader
  <2>3. Selected({}) = {} /\ IsFiniteSet({}) /\ OneEntity({})
    BY FS_EmptySet DEF Selected, OneEntity
  <2>4. Reads({}, {}, 0, <<>>, FALSE, 0)
    BY <2>3, ReadsNothing
  <2>5. Alone("none") /\ (list = "indices" => \A n \in Names : Alone(n))
    BY <2>1, PagesAssumption DEF Alone, PagesInit
  <2> QED
    BY <2>1, <2>2, <2>3, <2>4, <2>5 DEF PagesInv, NoReader
<1>2. ASSUME PagesInv, Import
      PROVE  PagesInv'
  <2>1. PICK r \in Rows :
           /\ history' = history \cup {r}
           /\ imported' = IF reader = NoReader \/ r \in history THEN imported ELSE imported + 1
    BY <1>2 DEF Import, Rows
  <2>2. reader' = reader /\ atFirst' = atFirst
    BY <1>2 DEF Import
  <2>3. /\ history \in SUBSET Rows /\ IsFiniteSet(history) /\ atFirst \subseteq history
        /\ imported \in Nat /\ reader \in Readers /\ name \in [Entities -> Names]
    BY <1>2 DEF PagesInv
  <2>4. /\ history' \in SUBSET Rows /\ IsFiniteSet(history') /\ atFirst' \subseteq history'
        /\ imported' \in Nat /\ reader' \in Readers
    BY <2>1, <2>2, <2>3, FS_AddElement
  <2>5. /\ name' \in [Entities -> Names] /\ steady' \in BOOLEAN
        /\ list' = list
        /\ list' = "indices" => steady' /\ \A n \in Names : Alone(n)'
    BY <1>2, ImportNames DEF PagesInv, Alone
  <2> DEFINE S == Selected(history)
             T == Selected(history \cup {r})
             F == Selected(atFirst)
             k == reader.offset
             g == reader.got
  <2>6. F \in SUBSET S /\ k \in Nat /\ g \in Seq(Rows)
    BY <2>3 DEF Selected, Readers
  <2>7. ASSUME reader.filter # All, steady'
        PROVE  /\ Alone(reader.filter)'
               /\ Selected(history)' = T /\ Selected(atFirst)' = F
               /\ Reads(T, F, k, g, reader.ended, imported')
    <3>0. /\ steady /\ Alone(reader.filter)
          /\ \A e \in Entities : name'[e] = reader.filter <=> name[e] = reader.filter
      BY <1>2, <2>7, ImportNames DEF PagesInv, Bearers
    <3>a. Alone(reader.filter)'
      BY <2>2, <3>0 DEF Alone
    <3>b. Selected(history)' = T /\ Selected(atFirst)' = F
      <4>1. ASSUME NEW q \in Rows
            PROVE  reader.filter \in {All, name'[q.entity]} <=> reader.filter \in {All, name[q.entity]}
        BY <2>7, <3>0, <4>1 DEF Rows
      <4> QED
        BY <2>1, <2>2, <2>3, <4>1 DEF Selected
    <3>1. OneEntity(S) /\ OneEntity(T)
      BY <1>2, <2>1, <2>3, <2>4, <2>7, <3>0, SelectedRows
    <3>2. Reads(S, F, k, g, reader.ended, imported)
      BY <1>2, <2>7, <3>0 DEF PagesInv
    <3>3. F \in SUBSET T /\ (T = S \/ (T = S \cup {r} /\ r \notin history))
      BY <2>6 DEF Selected
    <3> HIDE DEF S, T, F
    <3>4. ASSUME reader = NoReader
          PROVE  Reads(T, F, k, g, reader.ended, imported')
      <4>1. k = 0 /\ g = <<>> /\ reader.ended = FALSE /\ imported' = imported
        BY <2>1, <3>4 DEF NoReader
      <4>2. Reads(T, F, 0, <<>>, FALSE, imported)
        BY <2>3, <3>1, <3>3, ReadsNothing
      <4> QED
        BY <4>1, <4>2
    <3>5. ASSUME reader # NoReader, T = S \cup {r}, r \notin history
          PROVE  Reads(T, F, k, g, reader.ended, imported')
      <4>1. imported' = imported + 1
        BY <2>1, <3>5
      <4>2. Reads(T, F, k, g, reader.ended, imported + 1)
        BY <2>3, <2>6, <3>1, <3>2, <3>5, ReadsImport
      <4> QED
        BY <4>1, <4>2
    <3>6. ASSUME T = S
          PROVE  Reads(T, F, k, g, reader.ended, imported')
      <4>1. imported' = imported \/ imported' = imported + 1
        BY <2>1
      <4>2. Reads(S, F, k, g, reader.ended, imported + 1)
        BY <2>3, <2>6, <3>1, <3>2, ReadsLonger
      <4> QED
        BY <3>2, <3>6, <4>1, <4>2
    <3> QED
      BY <3>3, <3>4, <3>5, <3>6, <3>a, <3>b
  <2> QED
    BY <2>2, <2>4, <2>5, <2>7 DEF PagesInv
<1>3. ASSUME PagesInv, StartReading
      PROVE  PagesInv'
  <2>1. PICK f \in Names \cup {All} :
           /\ reader' = [reader EXCEPT !.filter = f]
           /\ steady' = \A d, e \in Entities : name[d] = f /\ name[e] = f => d = e
    BY <1>3 DEF StartReading
  <2>2. /\ reader = NoReader /\ atFirst' = history /\ history' = history /\ imported' = imported
        /\ list' = list /\ name' = name
    BY <1>3 DEF StartReading
  <2>3. /\ history \in SUBSET Rows /\ IsFiniteSet(history) /\ imported \in Nat
        /\ reader \in Readers /\ name \in [Entities -> Names]
    BY <1>3 DEF PagesInv
  <2>4. /\ reader' \in Readers /\ reader'.filter = f /\ reader'.offset = 0
        /\ reader'.got = <<>> /\ reader'.ended = FALSE
    BY <2>1, <2>2, <2>3 DEF NoReader, Readers
  <2>7. /\ steady' \in BOOLEAN /\ steady' = Alone(f)
        /\ list' = "indices" => steady' /\ \A n \in Names : Alone(n)'
    <3>1. steady' = Alone(f)
      BY <2>1 DEF Alone
    <3>2. Alone(All)
      BY <2>3, PagesAssumption DEF Alone
    <3>3. \A n \in Names : Alone(n)' = Alone(n)
      BY <2>2 DEF Alone
    <3>4. Alone(f) \in BOOLEAN
      BY DEF Alone
    <3>5. list = "indices" => \A n \in Names : Alone(n)
      BY <1>3 DEF PagesInv
    <3> QED
      BY <2>2, <3>1, <3>2, <3>3, <3>4, <3>5
  <2> DEFINE S == {r \in history : f \in {All, name[r.entity]}}
  <2>5. Selected(history)' = S /\ Selected(atFirst)' = S
    BY <2>2, <2>4 DEF Selected
  <2>6. ASSUME f # All, steady'
        PROVE  Alone(f)' /\ Reads(S, S, 0, <<>>, FALSE, imported)
    <3>1. S \in SUBSET history
      OBVIOUS
    <3>2. IsFiniteSet(S)
      BY <2>3, <3>1, FS_Subset
    <3>0. Alone(f) /\ Alone(f)'
      BY <2>2, <2>6, <2>7 DEF Alone
    <3>3. OneEntity(S)
      BY <2>3, <2>6, <3>0, <3>1, <3>2 DEF OneEntity, Alone, Rows
    <3> HIDE DEF S
    <3> QED
      BY <2>3, <3>0, <3>3, ReadsNothing
  <2> QED
    BY <2>2, <2>3, <2>4, <2>5, <2>6, <2>7 DEF PagesInv
<1>4. ASSUME PagesInv, ReadPage
      PROVE  PagesInv'
  <2>1. PICK tie \in Ties :
           LET page == Page(Ordered(Selected(history), tie))
           IN  reader' = [reader EXCEPT !.offset = @ + Len(page),
                                        !.got = @ \o page,
                                        !.ended = Len(page) < PageSize]
    BY <1>4 DEF ReadPage
  <2>2. /\ history' = history /\ atFirst' = atFirst /\ imported' = imported
        /\ list' = list /\ name' = name /\ steady' = steady
    BY <1>4 DEF ReadPage
  <2>3. /\ history \in SUBSET Rows /\ IsFiniteSet(history) /\ atFirst \subseteq history
        /\ imported \in Nat /\ reader \in Readers
    BY <1>4 DEF PagesInv
  <2> DEFINE S == Selected(history)
             F == Selected(atFirst)
             k == reader.offset
             g == reader.got
             s == Ordered(S, tie)
             page == Page(s)
  <2>4. /\ reader' = [reader EXCEPT !.offset = k + Len(page), !.got = g \o page,
                                    !.ended = Len(page) < PageSize]
        /\ k \in Nat /\ g \in Seq(Rows) /\ F \in SUBSET S
    BY <2>1, <2>3 DEF Readers, Selected
  <2>5. S \in SUBSET Rows /\ IsFiniteSet(S)
    BY <1>4, <2>3, SelectedRows
  <2>6. Orders(Tied(S, tie), S) /\ s = Sorted(Tied(S, tie), S)
    BY <2>5, OrderedIsSorted
  <2>7. Cardinality(S) \in Nat /\ s \in [1..Cardinality(S) -> S]
    BY <2>5, <2>6, SortedPlaces, FS_CardinalityType
  <2>8. page = SubSeq(s, k + 1, Smaller(Cardinality(S), k + PageSize))
    <3>1. Len(s) = Cardinality(S)
      BY <2>7
    <3> QED
      BY <3>1 DEF Page
  <2>9. page \in Seq(Rows)
    <3> HIDE DEF S, F, k, g, s, page
    <3>1. PageSize \in 1..500
      BY PagesAssumption
    <3>2. SubSeq(s, k + 1, Smaller(Cardinality(S), k + PageSize)) \in Seq(Rows)
      BY <2>4, <2>5, <2>7, <3>1, PageIsRows, ZenonT(60)
    <3> QED
      BY <2>8, <3>2, Zenon
  <2> HIDE DEF page
  <2>10. Len(page) \in Nat /\ g \o page \in Seq(Rows)
    BY <2>4, <2>9
  <2>11. /\ reader' \in Readers /\ reader'.filter = reader.filter
         /\ reader'.offset = k + Len(page) /\ reader'.got = g \o page
         /\ reader'.ended = (Len(page) < PageSize)
    <3> HIDE DEF S, F, k, g, s
    <3>1. k + Len(page) \in Nat /\ (Len(page) < PageSize) \in BOOLEAN
      BY <2>4, <2>10
    <3> DEFINE o == k + Len(page)
               h == g \o page
               e == Len(page) < PageSize
    <3>2. /\ reader' = [reader EXCEPT !.offset = o, !.got = h, !.ended = e]
          /\ o \in Nat /\ h \in Seq(Rows) /\ e \in BOOLEAN /\ reader \in Readers
      BY <2>3, <2>4, <2>10, <3>1, Zenon
    <3> HIDE DEF o, h, e
    <3>3. /\ reader' \in Readers /\ reader'.filter = reader.filter /\ reader'.offset = o
          /\ reader'.got = h /\ reader'.ended = e
      BY <3>2 DEF Readers
    <3> QED
      BY <3>3 DEF o, h, e
  <2>12. Selected(history)' = S /\ Selected(atFirst)' = F
    BY <2>2, <2>11 DEF Selected
  <2>13. ASSUME reader.filter # All, steady
         PROVE  Reads(S, F, k + Len(page), g \o page, Len(page) < PageSize, imported)
    <3>1. OneEntity(S)
      BY <1>4, <2>3, <2>13, SelectedRows DEF PagesInv
    <3>2. Reads(S, F, k, g, reader.ended, imported)
      BY <1>4, <2>13 DEF PagesInv
    <3>3. s = Sorted(Newer(S), S)
      BY <2>6, <3>1, NoTies
    <3> HIDE DEF S, F, k, g, s
    <3>4. page = SubSeq(Sorted(Newer(S), S), k + 1, Smaller(Cardinality(S), k + PageSize))
      BY <2>8, <3>3
    <3>5. PageSize \in 1..500
      BY PagesAssumption
    <3>6. k \in Nat /\ g \in Seq(Rows) /\ F \in SUBSET S /\ imported \in Nat
      BY <2>3, <2>4, Zenon
    <3> QED
      BY <3>1, <3>2, <3>4, <3>5, <3>6, ReadsPage, ZenonT(60)
  <2> QED
    <3>1. /\ steady \in BOOLEAN /\ name \in [Entities -> Names]
          /\ list = "indices" => steady /\ \A n \in Names : Alone(n)
          /\ reader.filter # All /\ steady => Alone(reader.filter)
      BY <1>4 DEF PagesInv
    <3>2. \A n : Alone(n)' <=> Alone(n)
      BY <2>2 DEF Alone
    <3>3. /\ steady' \in BOOLEAN /\ name' \in [Entities -> Names]
          /\ list' = "indices" => steady' /\ \A n \in Names : Alone(n)'
      BY <2>2, <3>1, <3>2
    <3>4. Alone(reader.filter)' <=> Alone(reader.filter)
      BY <2>2, <2>11 DEF Alone
    <3> HIDE DEF S, F, k, g, s
    <3>5. reader'.filter # All /\ steady' =>
             /\ Alone(reader.filter)'
             /\ Reads(Selected(history)', Selected(atFirst)', reader'.offset, reader'.got,
                      reader'.ended, imported')
      BY <2>2, <2>11, <2>12, <2>13, <3>1, <3>4
    <3> QED
      BY <2>2, <2>3, <2>11, <3>3, <3>5 DEF PagesInv
<1>5. ASSUME PagesInv, UNCHANGED pagesVars
      PROVE  PagesInv'
  BY <1>5 DEF PagesInv, pagesVars, Selected, Alone
<1> QED
  BY <1>1, <1>2, <1>3, <1>4, <1>5, PTL DEF PagesSpec, PagesNext

\* Who reads one index to the end gets all that was there when it began, and gets no
\* more rows twice than were imported meanwhile; and so does who reads an instrument
\* whose symbol keeps its one bearer (api/routes.py l.376-396, l.431-456).
THEOREM ReadersMissNothing == PagesSpec => []NothingMissed
<1>1. PagesInv => NothingMissed
  <2> SUFFICES ASSUME PagesInv, reader.filter # All, list = "indices" \/ steady
               PROVE  /\ reader.ended => Selected(atFirst) \subseteq Got(reader.got)
                      /\ Len(reader.got) - Cardinality(Got(reader.got)) <= imported
    BY DEF NothingMissed, Got
  <2>1. /\ Alone(reader.filter)
        /\ Reads(Selected(history), Selected(atFirst), reader.offset, reader.got, reader.ended, imported)
    BY DEF PagesInv
  <2>2. OneEntity(Selected(history))
    BY <2>1, SelectedRows DEF PagesInv
  <2>3. reader.offset \in Nat /\ reader.got \in Seq(Rows) /\ imported \in Nat
    BY DEF PagesInv, Readers
  <2>4. Len(reader.got) - Cardinality(Got(reader.got)) <= imported
    BY <2>1, <2>2, <2>3, GotCount
  <2>5. reader.ended => Selected(atFirst) \subseteq Got(reader.got)
    BY <2>1 DEF Reads
  <2> QED
    BY <2>4, <2>5
<1> QED
  BY <1>1, PagesInvariant, PTL

(***************************************************************************)
(* Backtest: what is done at a bar.  A book is a record with these fields.  *)
(***************************************************************************)
Fields == {"cash", "position", "closes", "curve", "returns", "costs", "invested", "gain"}
IsBook(b) == DOMAIN b = Fields

\* A position that is bought is a record, and so there is one.
LEMMA BoughtIsHeld ==
    ASSUME NEW b, IsBook(b), NEW bar
    PROVE  IsBook(Buy(b, bar)) /\ Holds(Buy(b, bar))
<1> DEFINE price == Fill(bar, 1)
           fee == Times(b.cash, Fee)
           quantity == Over(Minus(b.cash, fee), price)
           p == [price |-> price, quantity |-> quantity, cost |-> fee]
           x == Zero
           y == Plus(b.costs, Plus(fee, Times(quantity, Minus(price, Whole(bar.close)))))
<1>1. Buy(b, bar) = [b EXCEPT !.position = p, !.cash = x, !.costs = y]
  BY DEF Buy
<1>2. p # NoPosition
  <2> HIDE DEF price, quantity, fee
  <2>1. "price" \in DOMAIN p /\ "price" \notin DOMAIN <<>>
    OBVIOUS
  <2> QED
    BY <2>1 DEF NoPosition
<1> HIDE DEF p, x, y
<1>3. /\ DOMAIN [b EXCEPT !.position = p, !.cash = x, !.costs = y] = DOMAIN b
      /\ [b EXCEPT !.position = p, !.cash = x, !.costs = y].position = p
  BY DEF IsBook, Fields
<1> QED
  BY <1>1, <1>2, <1>3 DEF IsBook, Holds

\* What is sold is gone.
LEMMA SoldIsGone ==
    ASSUME NEW b, IsBook(b), NEW bar
    PROVE  IsBook(Sell(b, bar)) /\ ~Holds(Sell(b, bar))
<1> DEFINE price == Fill(bar, -1)
           gross == Times(b.position.quantity, price)
           fee == Times(gross, Fee)
           x == Minus(gross, fee)
           y == Plus(b.costs, Plus(fee, Times(b.position.quantity,
                                              Minus(Whole(bar.close), price))))
           z == Append(b.returns, Minus(Over(x, Paid(b.position)), One))
<1>1. Sell(b, bar) = [b EXCEPT !.cash = x, !.position = NoPosition, !.costs = y, !.returns = z]
  BY DEF Sell
<1> HIDE DEF x, y, z
<1>2. ASSUME NEW p
      PROVE  /\ DOMAIN [b EXCEPT !.cash = x, !.position = p, !.costs = y, !.returns = z] = DOMAIN b
             /\ [b EXCEPT !.cash = x, !.position = p, !.costs = y, !.returns = z].position = p
  BY DEF IsBook, Fields
<1> QED
  BY <1>1, <1>2 DEF IsBook, Holds

\* Whether something is held after a bar depends on the bar only by its liquidity.
LEMMA BarDecides ==
    ASSUME NEW b, IsBook(b), NEW bar, bar.liquid \in BOOLEAN
    PROVE  /\ IsBook(OnBar(b, bar))
           /\ Holds(OnBar(b, bar)) <=> IF bar.liquid THEN Signal(b.closes) ELSE Holds(b)
<1> DEFINE desired == Signal(b.closes)
           t == Traded(b, bar, desired)
           w == t.invested + (IF Holds(t) THEN 1 ELSE 0)
           x == Append(t.curve, Equity(t, bar))
           y == Append(t.closes, bar.close)
           z == Plus(t.gain, Drift(b, bar))
<1>1. IsBook(t) /\ (Holds(t) <=> IF bar.liquid THEN desired ELSE Holds(b))
  <2> HIDE DEF desired
  <2> QED
    BY BoughtIsHeld, SoldIsGone DEF Traded
<1>2. OnBar(b, bar) = [t EXCEPT !.invested = w, !.curve = x, !.closes = y, !.gain = z]
  BY DEF OnBar
<1> HIDE DEF t, w, x, y, z
<1>3. /\ DOMAIN [t EXCEPT !.invested = w, !.curve = x, !.closes = y, !.gain = z] = DOMAIN t
      /\ [t EXCEPT !.invested = w, !.curve = x, !.closes = y, !.gain = z].position = t.position
  BY <1>1 DEF IsBook, Fields
<1> QED
  BY <1>1, <1>2, <1>3 DEF IsBook, Holds

\* The decision at a bar is made without its close (trading_engine/backtest.py l.106-142).
THEOREM DecisionsLookBack == BacktestSpec => []NoLookAhead
<1>1. BacktestInit => IsBook(book)
  BY DEF BacktestInit, NewBook, IsBook, Fields
<1>2. ASSUME IsBook(book), [BacktestNext]_backtestVars
      PROVE  IsBook(book)'
  <2>1. ASSUME NEW b, IsBook(b), NEW bar
        PROVE  IsBook(Liquidated(b, bar))
    <3>1. ASSUME NEW c, IsBook(c), NEW n, NEW x
          PROVE  IsBook([c EXCEPT !.curve[n] = x])
      BY <3>1 DEF IsBook
    <3> QED
      BY <2>1, <3>1, SoldIsGone DEF Liquidated
  <2>2. CASE UNCHANGED book
    BY <1>2, <2>2 DEF IsBook
  <2>3. ASSUME NEW bar \in Bars, book' = OnBar(book, bar)
        PROVE  IsBook(book)'
    BY <1>2, <2>3, BarDecides, BacktestAssumption DEF IsBook
  <2>4. ASSUME NEW bar \in Bars, book' = Liquidated(OnBar(book, bar), bar)
        PROVE  IsBook(book)'
    BY <1>2, <2>1, <2>4, BarDecides, BacktestAssumption DEF IsBook
  <2> QED
    BY <1>2, <2>2, <2>3, <2>4 DEF BacktestNext, backtestVars, StartBacktest, TurnLoop, LastBar
<1>3. IsBook(book) => NoLookAhead
  <2> SUFFICES ASSUME IsBook(book), NEW x \in Bars, NEW y \in Bars, [x EXCEPT !.close = y.close] = y
               PROVE  Holds(OnBar(book, x)) = Holds(OnBar(book, y))
    BY DEF NoLookAhead
  <2>1. x.liquid = y.liquid
    <3>1. "liquid" \in DOMAIN x
      BY BacktestAssumption
    <3>2. [x EXCEPT !.close = y.close].liquid = x.liquid
      BY <3>1
    <3> QED
      BY <3>2
  <2>2. Holds(OnBar(book, x)) <=> Holds(OnBar(book, y))
    BY <2>1, BarDecides, BacktestAssumption
  <2> QED
    BY <2>2 DEF Holds
<1> QED
  BY <1>1, <1>2, <1>3, PTL DEF BacktestSpec

(***************************************************************************)
(* Fractions.                                                              *)
(***************************************************************************)
LEMMA DivisionWorks ==
    ASSUME NEW a \in Nat, NEW b \in Nat, b > 0
    PROVE  /\ a % b \in Nat /\ a % b < b /\ a \div b \in Nat
           /\ a = b * (a \div b) + (a % b)
OBVIOUS

\* A multiple of g is divided by it without a rest.
LEMMA ExactDivision ==
    ASSUME NEW g \in Nat, g > 0, NEW x \in Int
    PROVE  (g * x) \div g = x
OBVIOUS

\* Euclid's algorithm is defined for all numbers.
LEMMA DivisorRuns ==
    \A m, n \in Nat :
        Divisor[<<m, n>>] = IF n = 0 THEN m ELSE Divisor[<<n, m % n>>]
<1> DEFINE V == [Nat \X Nat -> Nat]
           v == [p \in Nat \X Nat |-> p[1]]
           row(k, x) == [p \in Nat \X Nat |->
                            IF p[2] = k + 1 THEN x[<<k + 1, p[1] % (k + 1)>>] ELSE x[p]]
           h == [q \in Nat \X V |-> row(q[1], q[2])]
<1>1. IsLoop(V, v, h)
  <2>1. v \in V
    OBVIOUS
  <2>2. ASSUME NEW k \in Nat, NEW x \in V
        PROVE  row(k, x) \in V
    <3>1. ASSUME NEW p \in Nat \X Nat
          PROVE  <<k + 1, p[1] % (k + 1)>> \in Nat \X Nat
      OBVIOUS
    <3> QED
      BY <3>1
  <2> HIDE DEF row, V, v
  <2>3. h \in [Nat \X V -> V]
    BY <2>2
  <2> QED
    BY <2>1, <2>3 DEF IsLoop
<1>2. PICK f \in [Nat -> V] : f[0] = v /\ \A k \in Nat : f[k + 1] = h[<<k, f[k]>>]
  <2> HIDE DEF V, v, row, h
  <2> QED
    BY <1>1, Recursion
<1>3. ASSUME NEW k \in Nat
      PROVE  f[k] \in V /\ f[k + 1] = row(k, f[k])
  <2> HIDE DEF V, v, row
  <2> QED
    BY <1>2
<1>4. ASSUME NEW k \in Nat, NEW p \in Nat \X Nat
      PROVE  f[k + 1][p] = IF p[2] = k + 1 THEN f[k][<<k + 1, p[1] % (k + 1)>>] ELSE f[k][p]
  <2>1. ASSUME NEW x
        PROVE  row(k, x)[p] = IF p[2] = k + 1 THEN x[<<k + 1, p[1] % (k + 1)>>] ELSE x[p]
    <3> HIDE DEF V, v, h
    <3> QED
      OBVIOUS
  <2> HIDE DEF V, v, h, row
  <2> QED
    BY <1>3, <2>1
<1> HIDE DEF v, h
<1>5. ASSUME NEW p \in Nat \X Nat
      PROVE  \A k \in Nat : k >= p[2] => f[k][p] = f[p[2]][p]
  <2> DEFINE S == {k \in Nat : k >= p[2] => f[k][p] = f[p[2]][p]}
  <2>1. 0 \in S
    OBVIOUS
  <2>2. ASSUME NEW k \in S \cap Nat
        PROVE  k + 1 \in S
    <3>1. p[2] \in Nat
      OBVIOUS
    <3>2. CASE k + 1 > p[2]
      <4>1. k >= p[2] /\ p[2] # k + 1
        BY <3>1, <3>2
      <4>2. f[k + 1][p] = f[k][p]
        BY <1>4, <4>1
      <4> QED
        BY <4>1, <4>2
    <3>3. CASE ~(k + 1 > p[2])
      <4>1. k + 1 >= p[2] => k + 1 = p[2]
        BY <3>1, <3>3
      <4> QED
        BY <4>1
    <3> QED
      BY <3>2, <3>3
  <2> HIDE DEF S
  <2>3. Nat \subseteq S
    BY <2>1, <2>2, SetInduction
  <2> QED
    BY <2>3 DEF S
<1> DEFINE D == [p \in Nat \X Nat |-> f[p[2]][p]]
           Body(d, p) == IF p[2] = 0 THEN p[1] ELSE d[<<p[2], p[1] % p[2]>>]
<1>6. ASSUME NEW p \in Nat \X Nat
      PROVE  D[p] = Body(D, p)
  <2>1. CASE p[2] = 0
    <3>1. f[0][p] = p[1]
      BY <1>2 DEF v
    <3> QED
      BY <2>1, <3>1
  <2>2. CASE p[2] # 0
    <3>1. PICK k \in Nat : k + 1 = p[2]
      <4>1. p[2] - 1 \in Nat /\ (p[2] - 1) + 1 = p[2]
        BY <2>2
      <4> QED
        BY <4>1
    <3> DEFINE q == <<k + 1, p[1] % (k + 1)>>
    <3>2. q \in Nat \X Nat /\ q[2] = p[1] % (k + 1) /\ k >= q[2]
      <4>1. p[1] \in Nat /\ k + 1 \in Nat /\ k + 1 > 0
        OBVIOUS
      <4>2. p[1] % (k + 1) \in Nat /\ p[1] % (k + 1) < k + 1
        BY <4>1, DivisionWorks
      <4> QED
        BY <4>1, <4>2
    <3>3. f[k + 1][p] = f[k][q]
      BY <1>4, <3>1
    <3>4. f[k][q] = f[q[2]][q]
      <4> HIDE DEF q
      <4> QED
        BY <1>5, <3>2
    <3>5. D[p] = f[k + 1][p]
      BY <3>1
    <3>6. D[q] = f[q[2]][q]
      <4> HIDE DEF q
      <4> QED
        BY <3>2
    <3>7. Body(D, p) = D[q]
      <4> HIDE DEF D
      <4> QED
        BY <2>2, <3>1
    <3> HIDE DEF q, D
    <3> QED
      BY <3>3, <3>4, <3>5, <3>6, <3>7
  <2> HIDE DEF D
  <2> QED
    BY <2>1, <2>2
<1>7. D = [p \in Nat \X Nat |-> Body(D, p)]
  <2>1. D = [p \in Nat \X Nat |-> D[p]]
    OBVIOUS
  <2> HIDE DEF D, Body
  <2> QED
    BY <1>6, <2>1
<1> HIDE DEF D
<1>8. Divisor = [p \in Nat \X Nat |-> Body(Divisor, p)]
  BY <1>7 DEF Divisor
<1> QED
  <2> SUFFICES ASSUME NEW m \in Nat, NEW n \in Nat
               PROVE  Divisor[<<m, n>>] = IF n = 0 THEN m ELSE Divisor[<<n, m % n>>]
    OBVIOUS
  <2>1. <<m, n>> \in Nat \X Nat
    OBVIOUS
  <2>2. Divisor[<<m, n>>] = Body(Divisor, <<m, n>>)
    BY <1>8, <2>1
  <2> QED
    BY <2>2

\* What the algorithm finds divides both numbers.
Divides(g, m) == \E p \in Nat : m = g * p

LEMMA DividesSum ==
    ASSUME NEW g \in Nat, NEW b \in Nat, NEW r \in Nat, NEW q \in Nat,
           Divides(g, b), Divides(g, r)
    PROVE  Divides(g, b * q + r)
<1>1. PICK x \in Nat : b = g * x
  BY DEF Divides
<1>2. PICK y \in Nat : r = g * y
  BY DEF Divides
<1>3. x * q + y \in Nat
  OBVIOUS
<1>4. b * q + r = g * (x * q + y)
  <2>1. (g * x) * q + g * y = g * (x * q + y)
    OBVIOUS
  <2> QED
    BY <1>1, <1>2, <2>1
<1> QED
  BY <1>3, <1>4 DEF Divides

LEMMA DivisorDivides ==
    ASSUME NEW m \in Nat, NEW n \in Nat, m > 0 \/ n > 0
    PROVE  /\ Divisor[<<m, n>>] \in Nat /\ Divisor[<<m, n>>] > 0
           /\ Divides(Divisor[<<m, n>>], m) /\ Divides(Divisor[<<m, n>>], n)
<1> DEFINE Good(a, b) == /\ Divisor[<<a, b>>] \in Nat /\ Divisor[<<a, b>>] > 0
                         /\ Divides(Divisor[<<a, b>>], a) /\ Divides(Divisor[<<a, b>>], b)
           S == {k \in Nat : \A b \in 0..k : \A a \in Nat : a > 0 \/ b > 0 => Good(a, b)}
<1>1. ASSUME NEW a \in Nat, a > 0
      PROVE  Good(a, 0)
  <2>1. Divisor[<<a, 0>>] = a
    BY DivisorRuns
  <2>2. a = a * 1 /\ 0 = a * 0
    OBVIOUS
  <2>3. Divides(a, a) /\ Divides(a, 0)
    BY <2>2 DEF Divides
  <2> QED
    BY <1>1, <2>1, <2>3
<1>2. 0 \in S
  <2>1. 0..0 = {0}
    OBVIOUS
  <2> HIDE DEF Good
  <2> QED
    BY <1>1, <2>1
<1>3. ASSUME NEW k \in S \cap Nat
      PROVE  k + 1 \in S
  <2>1. ASSUME NEW a \in Nat
        PROVE  Good(a, k + 1)
    <3> DEFINE b == k + 1
               r == a % b
               q == a \div b
    <3>1. b \in Nat /\ b > 0
      OBVIOUS
    <3>2. r \in Nat /\ r < b /\ q \in Nat /\ a = b * q + r
      <4> HIDE DEF b
      <4> QED
        BY <3>1, DivisionWorks
    <3>3. r \in 0..k
      BY <3>2
    <3>4. Good(b, r)
      <4> HIDE DEF r, Good
      <4> QED
        BY <3>1, <3>3
    <3>5. Divisor[<<a, b>>] = Divisor[<<b, r>>]
      <4>1. b # 0
        BY <3>1
      <4> HIDE DEF b
      <4> QED
        BY <3>1, <4>1, DivisorRuns
    <3> HIDE DEF r, q, b
    <3>6. Divides(Divisor[<<b, r>>], b * q + r)
      BY <3>1, <3>2, <3>4, DividesSum
    <3>7. Good(a, b)
      BY <3>2, <3>4, <3>5, <3>6
    <3> QED
      BY <3>7 DEF b
  <2> HIDE DEF Good
  <2>2. ASSUME NEW b \in 0..(k + 1), b \notin 0..k
        PROVE  b = k + 1
    BY <2>2
  <2>3. k + 1 \in Nat
    OBVIOUS
  <2> QED
    BY <2>1, <2>2, <2>3
<1> HIDE DEF S
<1>4. n \in S
  BY <1>2, <1>3, SetInduction
<1>5. n \in 0..n
  OBVIOUS
<1>6. Good(m, n)
  <2> HIDE DEF Good
  <2> QED
    BY <1>4, <1>5 DEF S
<1> QED
  BY <1>6

\* A fraction is that of two integers.
IsFraction(a) == a \in Int \X (Nat \ {0})

\* Frac reduces its arguments by a factor.
LEMMA FracReduces ==
    ASSUME NEW n \in Int, NEW d \in Nat, d > 0
    PROVE  /\ Frac(n, d)[1] \in Int /\ Frac(n, d)[2] \in Nat /\ Frac(n, d)[2] > 0
           /\ \E g \in Nat : g > 0 /\ n = g * Frac(n, d)[1] /\ d = g * Frac(n, d)[2]
<1> DEFINE m == Magnitude(n)
           g == Divisor[<<m, d>>]
<1>1. m \in Nat /\ (n = m \/ n = -m)
  BY DEF Magnitude
<1>2. g \in Nat /\ g > 0 /\ Divides(g, m) /\ Divides(g, d)
  <2> HIDE DEF m
  <2> QED
    BY <1>1, DivisorDivides
<1>3. Frac(n, d) = <<n \div g, d \div g>>
  BY DEF Frac
<1> HIDE DEF m, g
<1>4. PICK p \in Nat : m = g * p
  BY <1>2 DEF Divides
<1>5. PICK q \in Nat : d = g * q
  BY <1>2 DEF Divides
<1>6. PICK x \in Int : n = g * x
  <2>1. p \in Int /\ -p \in Int /\ g * (-p) = -(g * p)
    BY <1>2
  <2> QED
    BY <1>1, <1>4, <2>1
<1>7. n \div g = x /\ d \div g = q
  BY <1>2, <1>5, <1>6, ExactDivision
<1>8. q > 0
  <2>1. q = 0 => g * q = 0
    BY <1>2
  <2> QED
    BY <1>5, <2>1
<1>9. Frac(n, d)[1] = x /\ Frac(n, d)[2] = q
  BY <1>3, <1>7
<1> QED
  BY <1>2, <1>5, <1>6, <1>8, <1>9

\* What the operations compute, without the factor it is reduced by.
LEMMA PlusAdds ==
    ASSUME NEW a, NEW b, IsFraction(a), IsFraction(b)
    PROVE  /\ IsFraction(Plus(a, b))
           /\ Plus(a, b)[1] * (a[2] * b[2]) = (a[1] * b[2] + b[1] * a[2]) * Plus(a, b)[2]
<1> DEFINE g == Divisor[<<a[2], b[2]>>]
<1>1. a[1] \in Int /\ b[1] \in Int /\ a[2] \in Nat /\ b[2] \in Nat /\ a[2] > 0 /\ b[2] > 0
  BY DEF IsFraction
<1>2. g \in Nat /\ g > 0 /\ Divides(g, a[2]) /\ Divides(g, b[2])
  BY <1>1, DivisorDivides
<1>3. Plus(a, b) = Frac(a[1] * (b[2] \div g) + b[1] * (a[2] \div g), a[2] * (b[2] \div g))
  BY DEF Plus
<1> HIDE DEF g
<1>4. PICK e \in Nat : a[2] = g * e
  BY <1>2 DEF Divides
<1>5. PICK d \in Nat : b[2] = g * d
  BY <1>2 DEF Divides
<1>6. a[2] \div g = e /\ b[2] \div g = d
  BY <1>2, <1>4, <1>5, ExactDivision
<1>7. d > 0
  <2>1. d = 0 => g * d = 0
    BY <1>2
  <2> QED
    BY <1>1, <1>5, <2>1
<1> DEFINE n == a[1] * d + b[1] * e
           m == a[2] * d
<1>8. n \in Int /\ m \in Nat /\ m > 0
  BY <1>1, <1>7
<1>9. Plus(a, b) = Frac(n, m)
  BY <1>3, <1>6
<1> HIDE DEF n, m
<1>10. PICK k \in Nat : k > 0 /\ n = k * Plus(a, b)[1] /\ m = k * Plus(a, b)[2]
  <2>1. \E z \in Nat : z > 0 /\ n = z * Frac(n, m)[1] /\ m = z * Frac(n, m)[2]
    BY <1>8, FracReduces
  <2> QED
    BY <1>9, <2>1, Zenon
<1>11. Plus(a, b) \in Int \X (Nat \ {0})
  <2>1. Plus(a, b)[1] \in Int /\ Plus(a, b)[2] \in Nat /\ Plus(a, b)[2] > 0
    BY <1>8, <1>9, FracReduces
  <2>2. Plus(a, b) = <<Plus(a, b)[1], Plus(a, b)[2]>>
    BY <1>9 DEF Frac
  <2> QED
    BY <2>1, <2>2
<1> DEFINE u == Plus(a, b)[1]
           v == Plus(a, b)[2]
<1>12. u \in Int /\ v \in Nat
  BY <1>11
<1>13. n = k * u /\ m = k * v
  BY <1>10
<1> HIDE DEF u, v
<1>14. u * (a[2] * b[2]) = u * (g * m)
  <2>1. a[2] * (g * d) = g * (a[2] * d)
    BY <1>1, <1>2
  <2> QED
    BY <1>5, <2>1 DEF m
<1>15. a[1] * b[2] + b[1] * a[2] = g * n
  <2>1. a[1] * (g * d) + b[1] * (g * e) = g * (a[1] * d + b[1] * e)
    BY <1>1, <1>2
  <2> QED
    BY <1>4, <1>5, <2>1 DEF n
<1>16. u * (g * (k * v)) = (g * (k * u)) * v
  BY <1>2, <1>12
<1>17. u * (a[2] * b[2]) = (a[1] * b[2] + b[1] * a[2]) * v
  BY <1>13, <1>14, <1>15, <1>16
<1> QED
  BY <1>11, <1>17 DEF u, v, IsFraction

LEMMA FactorLess ==
    ASSUME NEW x \in Int, NEW y \in Int, NEW k \in Nat, k > 0
    PROVE  (x <= y <=> k * x <= k * y) /\ (x < y <=> k * x < k * y)
OBVIOUS

LEMMA FactorEqual ==
    ASSUME NEW x \in Int, NEW y \in Int, NEW k \in Nat, k > 0, k * x = k * y
    PROVE  x = y
OBVIOUS

\* a is the fraction n / d, reduced or not.
IsRatio(a, n, d) ==
    /\ IsFraction(a) /\ n \in Int /\ d \in Nat /\ d > 0
    /\ a[1] * d = n * a[2]

LEMMA FractionIs ==
    ASSUME NEW a, IsFraction(a)
    PROVE  /\ a[1] \in Int /\ a[2] \in Nat /\ a[2] > 0 /\ a = <<a[1], a[2]>>
           /\ IsRatio(a, a[1], a[2])
BY DEF IsRatio, IsFraction

LEMMA FracIs ==
    ASSUME NEW n \in Int, NEW d \in Nat, d > 0
    PROVE  IsRatio(Frac(n, d), n, d)
<1>1. PICK g \in Nat : g > 0 /\ n = g * Frac(n, d)[1] /\ d = g * Frac(n, d)[2]
  BY FracReduces
<1>2. Frac(n, d)[1] \in Int /\ Frac(n, d)[2] \in Nat /\ Frac(n, d)[2] > 0
  BY FracReduces
<1>3. Frac(n, d) = <<Frac(n, d)[1], Frac(n, d)[2]>>
  BY DEF Frac
<1> DEFINE x == Frac(n, d)[1]
           y == Frac(n, d)[2]
<1>4. IsFraction(Frac(n, d))
  BY <1>2, <1>3 DEF IsFraction
<1>5. x \in Int /\ y \in Nat /\ n = g * x /\ d = g * y
  BY <1>1, <1>2
<1> HIDE DEF x, y
<1>6. x * (g * y) = (g * x) * y
  BY <1>5
<1>7. x * d = n * y
  BY <1>5, <1>6
<1> QED
  BY <1>4, <1>7 DEF x, y, IsRatio

LEMMA PlusIs ==
    ASSUME NEW a, NEW n, NEW d, IsRatio(a, n, d), NEW b, NEW m, NEW e, IsRatio(b, m, e)
    PROVE  IsRatio(Plus(a, b), n * e + m * d, d * e)
<1> DEFINE p == a[1]
           q == a[2]
           r == b[1]
           s == b[2]
           u == Plus(a, b)[1]
           v == Plus(a, b)[2]
<1>1. /\ p \in Int /\ q \in Nat /\ q > 0 /\ r \in Int /\ s \in Nat /\ s > 0
      /\ n \in Int /\ d \in Nat /\ d > 0 /\ m \in Int /\ e \in Nat /\ e > 0
      /\ p * d = n * q /\ r * e = m * s
  BY FractionIs DEF IsRatio
<1>2. IsFraction(Plus(a, b)) /\ u * (q * s) = (p * s + r * q) * v
  BY PlusAdds DEF IsRatio
<1>3. u \in Int /\ v \in Nat
  BY <1>2, FractionIs
<1> HIDE DEF p, q, r, s, u, v
<1>4. (q * s) * (u * (d * e)) = (u * (q * s)) * (d * e)
  BY <1>1, <1>3
<1>5. ((p * s + r * q) * v) * (d * e) = ((p * d) * (s * e) + (r * e) * (q * d)) * v
  BY <1>1, <1>3
<1>6. ((n * q) * (s * e) + (m * s) * (q * d)) * v = (q * s) * ((n * e + m * d) * v)
  BY <1>1, <1>3
<1>7. (q * s) * (u * (d * e)) = (q * s) * ((n * e + m * d) * v)
  BY <1>1, <1>2, <1>4, <1>5, <1>6
<1>8. q * s \in Nat /\ q * s > 0 /\ u * (d * e) \in Int /\ (n * e + m * d) * v \in Int
      /\ n * e + m * d \in Int /\ d * e \in Nat /\ d * e > 0
  BY <1>1, <1>3
<1>9. u * (d * e) = (n * e + m * d) * v
  <2> DEFINE k == q * s
             x == u * (d * e)
             y == (n * e + m * d) * v
  <2>1. k \in Nat /\ k > 0 /\ x \in Int /\ y \in Int /\ k * x = k * y
    BY <1>7, <1>8
  <2> HIDE DEF k, x, y
  <2>2. x = y
    BY <2>1, FactorEqual
  <2> QED
    BY <2>2 DEF x, y
<1> QED
  BY <1>2, <1>8, <1>9 DEF IsRatio, u, v

LEMMA MinusIs ==
    ASSUME NEW a, NEW n, NEW d, IsRatio(a, n, d), NEW b, NEW m, NEW e, IsRatio(b, m, e)
    PROVE  IsRatio(Minus(a, b), n * e - m * d, d * e)
<1> DEFINE c == <<-b[1], b[2]>>
<1>1. /\ n \in Int /\ d \in Nat /\ m \in Int /\ e \in Nat /\ e > 0 /\ b[1] * e = m * b[2]
      /\ b[1] \in Int /\ b[2] \in Nat /\ b[2] > 0
  BY FractionIs DEF IsRatio
<1>2. IsFraction(c) /\ c[1] = -b[1] /\ c[2] = b[2]
  BY <1>1 DEF IsFraction
<1>3. (-b[1]) * e = (-m) * b[2] /\ -m \in Int
  <2>1. (-b[1]) * e = -(b[1] * e) /\ (-m) * b[2] = -(m * b[2])
    BY <1>1
  <2> QED
    BY <1>1, <2>1
<1>4. Minus(a, b) = Plus(a, c)
  BY DEF Minus
<1> HIDE DEF c
<1>5. IsRatio(c, -m, e)
  BY <1>1, <1>2, <1>3 DEF IsRatio
<1>6. IsRatio(Plus(a, c), n * e + (-m) * d, d * e)
  BY <1>5, PlusIs
<1>7. n * e + (-m) * d = n * e - m * d
  BY <1>1
<1> QED
  BY <1>4, <1>6, <1>7

LEMMA TimesIs ==
    ASSUME NEW a, NEW n, NEW d, IsRatio(a, n, d), NEW b, NEW m, NEW e, IsRatio(b, m, e)
    PROVE  IsRatio(Times(a, b), n * m, d * e)
<1> DEFINE x == Frac(a[1], b[2])
           y == Frac(b[1], a[2])
           p == a[1]
           q == a[2]
           r == b[1]
           s == b[2]
           g == x[1]
           h == x[2]
           i == y[1]
           j == y[2]
           u == Times(a, b)[1]
           v == Times(a, b)[2]
<1>1. /\ p \in Int /\ q \in Nat /\ q > 0 /\ r \in Int /\ s \in Nat /\ s > 0
      /\ n \in Int /\ d \in Nat /\ d > 0 /\ m \in Int /\ e \in Nat /\ e > 0
      /\ p * d = n * q /\ r * e = m * s
  BY FractionIs DEF IsRatio
<1>2. IsRatio(x, p, s) /\ IsRatio(y, r, q)
  BY <1>1, FracIs
<1>3. /\ g \in Int /\ h \in Nat /\ h > 0 /\ i \in Int /\ j \in Nat /\ j > 0
      /\ g * s = p * h /\ i * q = r * j
  BY <1>2, FractionIs DEF IsRatio
<1>4. Times(a, b) = Frac(g * i, h * j)
  BY DEF Times
<1>5. g * i \in Int /\ h * j \in Nat /\ h * j > 0
  BY <1>3
<1>6. IsRatio(Times(a, b), g * i, h * j)
  BY <1>4, <1>5, FracIs
<1>7. u \in Int /\ v \in Nat /\ u * (h * j) = (g * i) * v
  BY <1>6, FractionIs DEF IsRatio
<1> HIDE DEF p, q, r, s, g, h, i, j, u, v
<1> DEFINE k == (h * j) * (q * s)
<1>8. k \in Nat /\ k > 0
  <2>1. q * s \in Nat /\ q * s > 0
    BY <1>1
  <2> QED
    BY <1>5, <2>1
<1>9. k * (u * (d * e)) = k * ((n * m) * v)
  <2>1. k * (u * (d * e)) = (u * (h * j)) * ((q * s) * (d * e))
    BY <1>1, <1>3, <1>7
  <2>2. ((g * i) * v) * ((q * s) * (d * e)) = ((g * s) * (i * q)) * (v * (d * e))
    BY <1>1, <1>3, <1>7
  <2>3. ((p * h) * (r * j)) * (v * (d * e)) = ((p * d) * (r * e)) * (v * (h * j))
    BY <1>1, <1>3, <1>7
  <2>4. ((n * q) * (m * s)) * (v * (h * j)) = k * ((n * m) * v)
    BY <1>1, <1>3, <1>7
  <2> QED
    BY <1>1, <1>3, <1>7, <2>1, <2>2, <2>3, <2>4
<1>10. u * (d * e) = (n * m) * v /\ n * m \in Int /\ d * e \in Nat /\ d * e > 0
  <2> DEFINE y1 == u * (d * e)
             z1 == (n * m) * v
  <2>1. y1 \in Int /\ z1 \in Int /\ n * m \in Int /\ d * e \in Nat /\ d * e > 0
    BY <1>1, <1>7
  <2>2. k * y1 = k * z1
    BY <1>9
  <2> HIDE DEF k, y1, z1
  <2>3. y1 = z1
    BY <1>8, <2>1, <2>2, FactorEqual
  <2> QED
    BY <2>1, <2>3 DEF y1, z1
<1> QED
  BY <1>6, <1>10 DEF IsRatio, u, v

LEMMA OverIs ==
    ASSUME NEW a, NEW n, NEW d, IsRatio(a, n, d), NEW b, NEW m, NEW e, IsRatio(b, m, e), m > 0
    PROVE  IsRatio(Over(a, b), n * e, d * m)
<1> DEFINE c == <<b[2], b[1]>>
<1>1. /\ m \in Int /\ m > 0 /\ e \in Nat /\ e > 0 /\ b[1] * e = m * b[2]
      /\ b[1] \in Int /\ b[2] \in Nat /\ b[2] > 0
  BY FractionIs DEF IsRatio
<1>2. b[1] > 0
  <2>1. m * b[2] > 0
    BY <1>1
  <2>2. b[1] <= 0 => b[1] * e <= 0
    BY <1>1
  <2> QED
    BY <1>1, <2>1, <2>2
<1>3. IsFraction(c) /\ c[1] = b[2] /\ c[2] = b[1]
  BY <1>1, <1>2 DEF IsFraction
<1>4. Over(a, b) = Times(a, c)
  BY DEF Over
<1> HIDE DEF c
<1>5. b[2] * m = e * b[1] /\ e \in Int /\ m \in Nat
  <2>1. b[2] * m = m * b[2] /\ e * b[1] = b[1] * e
    BY <1>1
  <2> QED
    BY <1>1, <2>1
<1>6. IsRatio(c, e, m)
  BY <1>1, <1>3, <1>5 DEF IsRatio
<1> QED
  BY <1>4, <1>6, TimesIs

\* Less is the order of fractions.
LEMMA LessIs ==
    ASSUME NEW a, NEW n, NEW d, IsRatio(a, n, d), NEW b, NEW m, NEW e, IsRatio(b, m, e)
    PROVE  Less(a, b) <=> n * e < m * d
<1> DEFINE u == Minus(a, b)[1]
           v == Minus(a, b)[2]
           x == n * e - m * d
           y == d * e
<1>1. IsRatio(Minus(a, b), x, y)
  BY MinusIs
<1>2. /\ u \in Int /\ v \in Nat /\ v > 0 /\ x \in Int /\ y \in Nat /\ y > 0 /\ u * y = x * v
      /\ Less(a, b) <=> u < 0
  BY <1>1, FractionIs DEF IsRatio, Less
<1>3. x < 0 <=> n * e < m * d
  BY DEF IsRatio
<1> HIDE DEF u, v, x, y
<1>4. ASSUME NEW i \in Int, NEW j \in Nat, j > 0
      PROVE  i < 0 <=> i * j < 0
  BY <1>4
<1> QED
  BY <1>2, <1>3, <1>4

(***************************************************************************)
(* Fractions in lowest terms: two that are equal are the same.             *)
(***************************************************************************)
LEMMA ModIs ==
    ASSUME NEW a \in Nat, NEW b \in Nat, b > 0, NEW q \in Nat, NEW r \in Nat, r < b, a = b * q + r
    PROVE  a % b = r
<1>1. a % b \in Nat /\ a % b < b /\ a \div b \in Nat /\ a = b * (a \div b) + (a % b)
  BY DivisionWorks
<1> DEFINE p == a \div b
           s == a % b
<1>2. p \in Nat /\ s \in Nat /\ s < b /\ b * q + r = b * p + s
  BY <1>1
<1> HIDE DEF p, s
<1>3. b * (q - p) = s - r
  <2>1. b * (q - p) = b * q - b * p /\ b * q \in Nat /\ b * p \in Nat
    BY <1>2
  <2> QED
    BY <1>2, <2>1
<1>4. q = p
  <2>1. CASE q > p
    <3>1. b * (q - p) >= b
      BY <1>2, <2>1
    <3> QED
      BY <1>2, <1>3, <3>1
  <2>2. CASE q < p
    <3>1. b * (q - p) <= -b
      BY <1>2, <2>2
    <3> QED
      BY <1>2, <1>3, <3>1
  <2> QED
    BY <1>2, <2>1, <2>2
<1>5. s = r
  BY <1>2, <1>4
<1> QED
  BY <1>5 DEF s

LEMMA DivisorScales ==
    ASSUME NEW k \in Nat, k > 0, NEW m \in Nat, NEW n \in Nat
    PROVE  Divisor[<<k * m, k * n>>] = k * Divisor[<<m, n>>]
<1> DEFINE Good(a, b) == Divisor[<<k * a, k * b>>] = k * Divisor[<<a, b>>]
           S == {l \in Nat : \A b \in 0..l : \A a \in Nat : Good(a, b)}
<1>1. 0 \in S
  <2>1. ASSUME NEW a \in Nat
        PROVE  Good(a, 0)
    <3>1. k * a \in Nat /\ k * 0 = 0
      OBVIOUS
    <3>2. Divisor[<<k * a, 0>>] = k * a /\ Divisor[<<a, 0>>] = a
      BY <3>1, DivisorRuns
    <3> QED
      BY <3>1, <3>2
  <2>2. 0..0 = {0}
    OBVIOUS
  <2> HIDE DEF Good
  <2> QED
    BY <2>1, <2>2
<1>2. ASSUME NEW l \in S \cap Nat
      PROVE  l + 1 \in S
  <2>1. ASSUME NEW a \in Nat
        PROVE  Good(a, l + 1)
    <3> DEFINE b == l + 1
               r == a % b
               q == a \div b
    <3>1. b \in Nat /\ b > 0
      OBVIOUS
    <3>2. r \in Nat /\ r < b /\ q \in Nat /\ a = b * q + r
      <4> HIDE DEF b
      <4> QED
        BY <3>1, DivisionWorks
    <3>3. r \in 0..l
      BY <3>2
    <3>4. Good(b, r)
      <4> HIDE DEF r, Good
      <4> QED
        BY <3>1, <3>3
    <3> HIDE DEF b
    <3>5. Divisor[<<a, b>>] = Divisor[<<b, r>>]
      <4>1. b # 0
        BY <3>1
      <4> QED
        BY <3>1, <4>1, DivisorRuns
    <3> HIDE DEF r, q
    <3>6. (k * a) % (k * b) = k * r
      <4>1. k * a = (k * b) * q + k * r
        <5>1. k * (b * q + r) = (k * b) * q + k * r
          BY <3>1, <3>2
        <5> QED
          BY <3>2, <5>1
      <4>2. k * a \in Nat /\ k * b \in Nat /\ k * b > 0 /\ k * r \in Nat
        BY <3>1, <3>2
      <4>3. k * r < k * b
        BY <3>1, <3>2
      <4> DEFINE x == k * a
                 y == k * b
                 z == k * r
      <4> HIDE DEF x, y, z
      <4>4. x % y = z
        BY <3>2, <4>1, <4>2, <4>3, ModIs DEF x, y, z
      <4> QED
        BY <4>4 DEF x, y, z
    <3>7. Divisor[<<k * a, k * b>>] = Divisor[<<k * b, k * r>>]
      <4>1. k * a \in Nat /\ k * b \in Nat /\ k * b # 0
        BY <3>1
      <4> QED
        BY <3>6, <4>1, DivisorRuns
    <3>8. Good(a, b)
      BY <3>4, <3>5, <3>7
    <3> QED
      BY <3>8 DEF b
  <2> HIDE DEF Good
  <2>2. ASSUME NEW b \in 0..(l + 1), b \notin 0..l
        PROVE  b = l + 1
    BY <2>2
  <2>3. l + 1 \in Nat
    OBVIOUS
  <2> QED
    BY <2>1, <2>2, <2>3
<1> HIDE DEF S
<1>3. n \in S
  BY <1>1, <1>2, SetInduction
<1>4. n \in 0..n
  OBVIOUS
<1>5. Good(m, n)
  <2> HIDE DEF Good
  <2> QED
    BY <1>3, <1>4 DEF S
<1> QED
  BY <1>5

LEMMA FracScales ==
    ASSUME NEW k \in Nat, k > 0, NEW n \in Int, NEW d \in Nat, d > 0
    PROVE  Frac(k * n, k * d) = Frac(n, d)
<1> DEFINE m == Magnitude(n)
           g == Divisor[<<m, d>>]
<1>1. m \in Nat /\ (n = m \/ n = -m)
  BY DEF Magnitude
<1>2. Magnitude(k * n) = k * m
  <2>1. n >= 0 => k * n >= 0
    OBVIOUS
  <2>2. n < 0 => k * n < 0 /\ -(k * n) = k * (-n)
    OBVIOUS
  <2>3. k * n \in Int
    OBVIOUS
  <2> QED
    BY <2>1, <2>2, <2>3 DEF Magnitude
<1>3. Frac(n, d) = <<n \div g, d \div g>>
  BY DEF Frac
<1> HIDE DEF m
<1>4. g \in Nat /\ g > 0 /\ Divides(g, m) /\ Divides(g, d)
  BY <1>1, DivisorDivides
<1>5. Divisor[<<k * m, k * d>>] = k * g
  BY <1>1, DivisorScales
<1>6. Frac(k * n, k * d) = <<(k * n) \div (k * g), (k * d) \div (k * g)>>
  BY <1>2, <1>5 DEF Frac
<1> HIDE DEF g
<1>7. PICK p \in Nat : m = g * p
  BY <1>4 DEF Divides
<1>8. PICK q \in Nat : d = g * q
  BY <1>4 DEF Divides
<1>9. PICK x \in Int : n = g * x
  <2>1. p \in Int /\ -p \in Int /\ g * (-p) = -(g * p)
    BY <1>4
  <2> QED
    BY <1>1, <1>7, <2>1
<1>10. n \div g = x /\ d \div g = q
  BY <1>4, <1>8, <1>9, ExactDivision
<1>11. k * g \in Nat /\ k * g > 0 /\ k * n = (k * g) * x /\ k * d = (k * g) * q
  <2>1. k * (g * x) = (k * g) * x /\ k * (g * q) = (k * g) * q
    BY <1>4
  <2> QED
    BY <1>4, <1>8, <1>9, <2>1
<1>12. (k * n) \div (k * g) = x /\ (k * d) \div (k * g) = q
  <2> DEFINE h == k * g
  <2> HIDE DEF h
  <2>1. (h * x) \div h = x /\ (h * q) \div h = q
    BY <1>11, ExactDivision DEF h
  <2> QED
    BY <1>11, <2>1 DEF h
<1> QED
  BY <1>3, <1>6, <1>10, <1>12

LEMMA SameFracs ==
    ASSUME NEW n \in Int, NEW d \in Nat, d > 0, NEW m \in Int, NEW e \in Nat, e > 0, n * e = m * d
    PROVE  Frac(n, d) = Frac(m, e)
<1>1. Frac(e * n, e * d) = Frac(n, d) /\ Frac(d * m, d * e) = Frac(m, e)
  BY FracScales
<1>2. e * n = d * m /\ e * d = d * e
  <2>1. e * n = n * e /\ d * m = m * d
    OBVIOUS
  <2> QED
    BY <2>1
<1> QED
  BY <1>1, <1>2

InLowest(a) == IsFraction(a) /\ a = Frac(a[1], a[2])

LEMMA FracInLowest ==
    ASSUME NEW n \in Int, NEW d \in Nat, d > 0
    PROVE  InLowest(Frac(n, d))
<1> DEFINE x == Frac(n, d)
<1>1. IsRatio(x, n, d)
  BY FracIs
<1>2. IsFraction(x) /\ x[1] \in Int /\ x[2] \in Nat /\ x[2] > 0 /\ x[1] * d = n * x[2]
  BY <1>1, FractionIs DEF IsRatio
<1> DEFINE p == x[1]
           q == x[2]
<1>3. p \in Int /\ q \in Nat /\ q > 0 /\ p * d = n * q
  BY <1>2
<1> HIDE DEF p, q
<1>4. Frac(p, q) = Frac(n, d)
  BY <1>3, SameFracs
<1> QED
  BY <1>2, <1>4 DEF InLowest, p, q

LEMMA SameIfEqual ==
    ASSUME NEW a, NEW n, NEW d, IsRatio(a, n, d), NEW b, NEW m, NEW e, IsRatio(b, m, e),
           InLowest(a), InLowest(b), n * e = m * d
    PROVE  a = b
<1> DEFINE p == a[1]
           q == a[2]
           r == b[1]
           s == b[2]
<1>1. /\ p \in Int /\ q \in Nat /\ q > 0 /\ r \in Int /\ s \in Nat /\ s > 0
      /\ n \in Int /\ d \in Nat /\ d > 0 /\ m \in Int /\ e \in Nat /\ e > 0
      /\ p * d = n * q /\ r * e = m * s
  BY FractionIs DEF IsRatio
<1>2. a = Frac(p, q) /\ b = Frac(r, s)
  BY DEF InLowest
<1> HIDE DEF p, q, r, s
<1>3. Frac(p, q) = Frac(n, d) /\ Frac(r, s) = Frac(m, e) /\ Frac(n, d) = Frac(m, e)
  <2>1. Frac(p, q) = Frac(n, d)
    BY <1>1, SameFracs
  <2>2. Frac(r, s) = Frac(m, e)
    BY <1>1, SameFracs
  <2>3. Frac(n, d) = Frac(m, e)
    BY <1>1, SameFracs
  <2> QED
    BY <2>1, <2>2, <2>3
<1> QED
  BY <1>2, <1>3

\* Everything that is computed is in lowest terms.
LEMMA ComputedInLowest ==
    ASSUME NEW a, NEW b, IsFraction(a), IsFraction(b)
    PROVE  /\ InLowest(Plus(a, b)) /\ InLowest(Minus(a, b)) /\ InLowest(Times(a, b))
           /\ b[1] > 0 => InLowest(Over(a, b))
<1>1. ASSUME NEW x, NEW y, IsFraction(x), IsFraction(y)
      PROVE  InLowest(Plus(x, y))
  <2> DEFINE g == Divisor[<<x[2], y[2]>>]
             n == x[1] * (y[2] \div g) + y[1] * (x[2] \div g)
             d == x[2] * (y[2] \div g)
  <2>1. /\ x[1] \in Int /\ x[2] \in Nat /\ x[2] > 0 /\ y[1] \in Int /\ y[2] \in Nat /\ y[2] > 0
    BY <1>1, FractionIs
  <2>2. g \in Nat /\ g > 0 /\ Divides(g, x[2]) /\ Divides(g, y[2])
    BY <2>1, DivisorDivides
  <2>3. Plus(x, y) = Frac(n, d)
    BY DEF Plus
  <2> HIDE DEF g
  <2>4. PICK i \in Nat : x[2] = g * i
    BY <2>2 DEF Divides
  <2>5. PICK j \in Nat : y[2] = g * j
    BY <2>2 DEF Divides
  <2>6. x[2] \div g = i /\ y[2] \div g = j
    BY <2>2, <2>4, <2>5, ExactDivision
  <2>7. j > 0
    <3>1. j = 0 => g * j = 0
      BY <2>2
    <3> QED
      BY <2>1, <2>5, <3>1
  <2>8. n \in Int /\ d \in Nat /\ d > 0
    <3>1. n = x[1] * j + y[1] * i /\ d = x[2] * j
      BY <2>6
    <3> HIDE DEF n, d
    <3>2. x[1] * j + y[1] * i \in Int /\ x[2] * j \in Nat /\ x[2] * j > 0
      BY <2>1, <2>7
    <3> QED
      BY <3>1, <3>2
  <2> HIDE DEF n, d
  <2> QED
    BY <2>3, <2>8, FracInLowest
<1>2. ASSUME NEW x, NEW y, IsFraction(x), IsFraction(y)
      PROVE  InLowest(Times(x, y))
  <2> DEFINE f == Frac(x[1], y[2])
             h == Frac(y[1], x[2])
             n == f[1] * h[1]
             d == f[2] * h[2]
  <2>1. /\ x[1] \in Int /\ x[2] \in Nat /\ x[2] > 0 /\ y[1] \in Int /\ y[2] \in Nat /\ y[2] > 0
    BY <1>2, FractionIs
  <2>2. IsFraction(f) /\ IsFraction(h)
    BY <2>1, FracIs DEF IsRatio
  <2>3. Times(x, y) = Frac(n, d)
    BY DEF Times
  <2> HIDE DEF f, h
  <2>4. n \in Int /\ d \in Nat /\ d > 0
    BY <2>2, FractionIs
  <2> HIDE DEF n, d
  <2> QED
    BY <2>3, <2>4, FracInLowest
<1>3. /\ a[1] \in Int /\ a[2] \in Nat /\ a[2] > 0 /\ b[1] \in Int /\ b[2] \in Nat /\ b[2] > 0
  BY FractionIs
<1>4. InLowest(Minus(a, b))
  <2>1. IsFraction(<<-b[1], b[2]>>)
    BY <1>3 DEF IsFraction
  <2> QED
    BY <1>1, <2>1 DEF Minus
<1>5. b[1] > 0 => InLowest(Over(a, b))
  <2>1. b[1] > 0 => IsFraction(<<b[2], b[1]>>)
    BY <1>3 DEF IsFraction
  <2> QED
    BY <1>2, <2>1 DEF Over
<1> QED
  BY <1>1, <1>2, <1>4, <1>5

LEMMA LessCompares ==
    ASSUME NEW a, NEW b, IsFraction(a), IsFraction(b)
    PROVE  Less(a, b) <=> a[1] * b[2] < b[1] * a[2]
BY FractionIs, LessIs

LEMMA LessOrders ==
    ASSUME NEW a, NEW b, NEW c, IsFraction(a), IsFraction(b), IsFraction(c)
    PROVE  /\ ~Less(a, a)
           /\ Less(a, b) => ~Less(b, a)
           /\ ~Less(b, a) /\ ~Less(c, b) => ~Less(c, a)
           /\ ~Less(b, a) /\ Less(b, c) => Less(a, c)
<1>1. /\ a[1] \in Int /\ b[1] \in Int /\ c[1] \in Int
      /\ a[2] \in Nat /\ b[2] \in Nat /\ c[2] \in Nat
      /\ a[2] > 0 /\ b[2] > 0 /\ c[2] > 0
  BY DEF IsFraction
<1>2. /\ ~Less(a, a)
      /\ Less(a, b) <=> a[1] * b[2] < b[1] * a[2]
      /\ Less(b, a) <=> b[1] * a[2] < a[1] * b[2]
      /\ Less(b, c) <=> b[1] * c[2] < c[1] * b[2]
      /\ Less(c, b) <=> c[1] * b[2] < b[1] * c[2]
      /\ Less(a, c) <=> a[1] * c[2] < c[1] * a[2]
      /\ Less(c, a) <=> c[1] * a[2] < a[1] * c[2]
  <2>1. ~(a[1] * a[2] < a[1] * a[2])
    BY <1>1
  <2> QED
    BY <2>1, LessCompares
<1> DEFINE ab == a[1] * b[2]
           ba == b[1] * a[2]
           bc == b[1] * c[2]
           cb == c[1] * b[2]
           ac == a[1] * c[2]
           ca == c[1] * a[2]
<1>3. ab \in Int /\ ba \in Int /\ bc \in Int /\ cb \in Int /\ ac \in Int /\ ca \in Int
  BY <1>1
<1>4. /\ c[2] * ab = b[2] * ac /\ c[2] * ba = a[2] * bc
      /\ a[2] * cb = b[2] * ca
  BY <1>1
<1> HIDE DEF ab, ba, bc, cb, ac, ca
<1>5. ab <= ba <=> c[2] * ab <= c[2] * ba
  BY <1>1, <1>3, FactorLess
<1>6. (bc <= cb <=> a[2] * bc <= a[2] * cb) /\ (bc < cb <=> a[2] * bc < a[2] * cb)
  BY <1>1, <1>3, FactorLess
<1>7. (ac <= ca <=> b[2] * ac <= b[2] * ca) /\ (ac < ca <=> b[2] * ac < b[2] * ca)
  BY <1>1, <1>3, FactorLess
<1> DEFINE x == c[2] * ab
           y == a[2] * bc
           z == a[2] * cb
<1>8. x \in Int /\ y \in Int /\ z \in Int
  BY <1>1, <1>3
<1>9. (ab <= ba <=> x <= y) /\ (bc <= cb <=> y <= z) /\ (bc < cb <=> y < z)
      /\ (ac <= ca <=> x <= z) /\ (ac < ca <=> x < z)
  BY <1>4, <1>5, <1>6, <1>7
<1> HIDE DEF x, y, z
<1>10. (ab <= ba /\ bc <= cb => ac <= ca) /\ (ab <= ba /\ bc < cb => ac < ca)
  BY <1>8, <1>9
<1>11. /\ Less(a, b) <=> ab < ba
       /\ Less(b, a) <=> ba < ab
       /\ Less(b, c) <=> bc < cb
       /\ Less(c, b) <=> cb < bc
       /\ Less(a, c) <=> ac < ca
       /\ Less(c, a) <=> ca < ac
  BY <1>2 DEF ab, ba, bc, cb, ac, ca
<1> QED
  BY <1>2, <1>3, <1>10, <1>11

(***************************************************************************)
(* Series: the fall from a price to a later one.                           *)
(***************************************************************************)
\* Prices are positive.
Prices == {a \in Int \X (Nat \ {0}) : a[1] > 0}

LEMMA PriceIs ==
    ASSUME NEW a
    PROVE  /\ a \in Prices <=> IsFraction(a) /\ a[1] > 0
           /\ a \in Prices => a[1] \in Nat /\ a[2] \in Nat /\ a[2] > 0 /\ IsRatio(a, a[1], a[2])
<1>1. a \in Prices <=> IsFraction(a) /\ a[1] > 0
  BY DEF Prices, IsFraction
<1> QED
  BY <1>1, FractionIs

LEMMA WholesCompare ==
    ASSUME NEW a \in Int
    PROVE  IsRatio(Whole(a), a, 1) /\ ~Less(Whole(a), Whole(a))
<1>1. IsRatio(Whole(a), a, 1)
  BY DEF IsFraction, Whole, IsRatio
<1> QED
  BY <1>1, LessIs

LEMMA FallIs ==
    ASSUME NEW a \in Prices, NEW b \in Prices
    PROVE  IsRatio(Fall(a, b), (a[1] * b[2] - b[1] * a[2]) * a[2], (a[2] * b[2]) * a[1])
<1>1. IsRatio(a, a[1], a[2]) /\ IsRatio(b, b[1], b[2]) /\ a[1] > 0
  BY PriceIs
<1>2. IsRatio(Minus(a, b), a[1] * b[2] - b[1] * a[2], a[2] * b[2])
  BY <1>1, MinusIs
<1> QED
  BY <1>1, <1>2, OverIs DEF Fall

\* A fall is one if the price is lower, and it is deeper from a higher peak.
LEMMA FallsCompare ==
    ASSUME NEW a \in Prices, NEW b \in Prices, NEW c \in Prices
    PROVE  /\ IsFraction(a) /\ IsFraction(Fall(a, b))
           /\ Less(Whole(0), Fall(a, b)) <=> Less(b, a)
           /\ ~Less(c, a) => ~Less(Fall(c, b), Fall(a, b))
<1> DEFINE f == Fall(a, b)
           g == Fall(c, b)
           p == a[1]
           q == a[2]
           r == b[1]
           s == b[2]
           u == c[1]
           v == c[2]
<1>1. /\ p \in Nat /\ p > 0 /\ q \in Nat /\ q > 0 /\ r \in Nat /\ r > 0 /\ s \in Nat /\ s > 0
      /\ u \in Nat /\ u > 0 /\ v \in Nat /\ v > 0
  BY PriceIs
<1>2. IsRatio(f, (p * s - r * q) * q, (q * s) * p) /\ IsRatio(g, (u * s - r * v) * v, (v * s) * u)
  BY FallIs
<1>3. IsFraction(a) /\ IsFraction(b) /\ IsFraction(c) /\ IsFraction(f)
  BY <1>2, PriceIs DEF IsRatio
<1>4. IsRatio(Whole(0), 0, 1)
  BY WholesCompare
<1>5. Less(b, a) <=> r * q < p * s
  BY <1>3, LessCompares
<1>6. Less(c, a) <=> u * q < p * v
  BY <1>3, LessCompares
<1> HIDE DEF f, g, p, q, r, s, u, v
<1>7. Less(Whole(0), f) <=> 0 * ((q * s) * p) < ((p * s - r * q) * q) * 1
  BY <1>2, <1>4, LessIs
<1>8. Less(Whole(0), f) <=> Less(b, a)
  <2> DEFINE x == p * s - r * q
  <2>1. x \in Int /\ (0 < x <=> r * q < p * s) /\ 0 * ((q * s) * p) = 0 /\ (x * q) * 1 = q * x
    BY <1>1
  <2> HIDE DEF x
  <2>2. 0 < x <=> q * 0 < q * x
    BY <1>1, <2>1, FactorLess
  <2>3. q * 0 = 0
    BY <1>1
  <2>4. Less(Whole(0), f) <=> 0 < (x * q) * 1
    BY <1>7, <2>1 DEF x
  <2> QED
    BY <1>5, <2>1, <2>2, <2>3, <2>4
<1>9. Less(g, f) <=> ((u * s - r * v) * v) * ((q * s) * p) < ((p * s - r * q) * q) * ((v * s) * u)
  BY <1>2, LessIs
<1>10. ASSUME p * v <= u * q
       PROVE  ((p * s - r * q) * q) * ((v * s) * u) <= ((u * s - r * v) * v) * ((q * s) * p)
  <2> DEFINE k == (q * v) * s
             x == (p * s - r * q) * u
             y == (u * s - r * v) * p
  <2>1. /\ ((p * s - r * q) * q) * ((v * s) * u) = k * x
        /\ ((u * s - r * v) * v) * ((q * s) * p) = k * y
    BY <1>1
  <2>2. k \in Nat /\ k > 0
    <3>1. q * v \in Nat /\ q * v > 0
      BY <1>1
    <3> QED
      BY <1>1, <3>1
  <2>3. x \in Int /\ y \in Int
    BY <1>1
  <2>4. x <= y
    <3>1. x = (p * s) * u - r * (u * q) /\ y = (p * s) * u - r * (p * v)
      BY <1>1
    <3> DEFINE i == p * v
               j == u * q
               l == (p * s) * u
    <3>2. i \in Int /\ j \in Int /\ i <= j /\ l \in Int /\ x = l - r * j /\ y = l - r * i
      BY <1>1, <1>10, <3>1
    <3> HIDE DEF x, y, i, j, l
    <3>3. r * i <= r * j
      BY <1>1, <3>2, FactorLess
    <3>4. r * i \in Int /\ r * j \in Int
      BY <1>1, <3>2
    <3> QED
      BY <3>2, <3>3, <3>4
  <2> HIDE DEF k, x, y
  <2>5. k * x <= k * y
    BY <2>2, <2>3, <2>4, FactorLess
  <2> QED
    BY <2>1, <2>5
<1>11. ~Less(c, a) => ~Less(g, f)
  <2> DEFINE i == ((p * s - r * q) * q) * ((v * s) * u)
             j == ((u * s - r * v) * v) * ((q * s) * p)
             k == p * v
             l == u * q
  <2>1. i \in Int /\ j \in Int /\ k \in Int /\ l \in Int
    BY <1>1
  <2>2. (k <= l => i <= j) /\ (Less(g, f) <=> j < i) /\ (Less(c, a) <=> l < k)
    BY <1>6, <1>9, <1>10
  <2> HIDE DEF i, j, k, l
  <2> QED
    BY <2>1, <2>2
<1> QED
  BY <1>3, <1>8, <1>11 DEF f, g

LEMMA GreaterIsOne ==
    ASSUME NEW a, NEW b
    PROVE  Greater(a, b) = IF Less(a, b) THEN b ELSE a
BY DEF Greater

(***************************************************************************)
(* The two loops over a series.                                            *)
(***************************************************************************)
LEMMA DeepestRuns ==
    ASSUME NEW values \in Seq(Prices), values # <<>>
    PROVE  \E t : /\ t[0] = Unfallen
                  /\ \A n \in 1..Len(values) : t[n] = Turn(values, t[n - 1], n)
                  /\ Deepest(values) = t[Len(values)]
<1> DEFINE N == Len(values)
           Ratios == Int \X (Nat \ {0})
           V == [peak : 1..N, worst : Ratios, from : 1..N, at : 1..N]
           step(k, x) == IF k + 1 \in 1..N THEN Turn(values, x, k + 1) ELSE x
           h == [q \in Nat \X V |-> step(q[1], q[2])]
           Body(t, n) == IF n = 0 THEN Unfallen ELSE Turn(values, t[n - 1], n)
           after == CHOOSE t : t = [n \in 0..N |-> Body(t, n)]
<1>1. N \in Nat /\ N > 0 /\ \A n \in 1..N : values[n] \in Prices
  OBVIOUS
<1>2. Unfallen \in V
  BY <1>1 DEF Unfallen, Whole
<1>3. ASSUME NEW k \in Nat, NEW x \in V
      PROVE  step(k, x) \in V
  <2>1. CASE k + 1 \in 1..N
    <3> DEFINE peak == IF Less(values[x.peak], values[k + 1]) THEN k + 1 ELSE x.peak
               fall == Fall(values[peak], values[k + 1])
    <3>1. peak \in 1..N
      BY <2>1
    <3>2. fall \in Ratios
      <4> HIDE DEF peak
      <4> QED
        BY <1>1, <2>1, <3>1, FallsCompare DEF IsFraction
    <3>3. Turn(values, x, k + 1) =
             IF Less(x.worst, fall)
             THEN [peak |-> peak, worst |-> fall, from |-> peak, at |-> k + 1]
             ELSE [x EXCEPT !.peak = peak]
      BY DEF Turn
    <3> HIDE DEF peak, fall, Ratios
    <3> QED
      BY <2>1, <3>1, <3>2, <3>3
  <2>2. CASE ~(k + 1 \in 1..N)
    BY <2>2
  <2> QED
    BY <2>1, <2>2
<1>4. IsLoop(V, Unfallen, h)
  <2> HIDE DEF V, step
  <2> QED
    BY <1>2, <1>3 DEF IsLoop
<1>5. PICK t : LoopsTo(t, V, Unfallen, h, N)
  <2>1. N \in Nat
    BY <1>1
  <2> HIDE DEF V, h, N
  <2> QED
    BY <1>4, <2>1, LoopDefined
<1> USE DEF LoopsTo
<1>6. \A n \in 0..N : t[n] = Body(t, n)
  <2> SUFFICES ASSUME NEW n \in 0..N
               PROVE  t[n] = Body(t, n)
    OBVIOUS
  <2>1. CASE n = 0
    BY <1>5, <2>1
  <2>2. CASE n # 0
    <3>1. n - 1 \in Nat /\ n - 1 \in 0..N /\ (n - 1) + 1 = n /\ n \in 1..N
      BY <1>1, <2>2
    <3>2. t[n - 1] \in V
      <4> HIDE DEF V
      <4> QED
        BY <1>5, <3>1
    <3>3. h[<<n - 1, t[n - 1]>>] = step(n - 1, t[n - 1])
      <4> HIDE DEF V, step
      <4> QED
        BY <3>1, <3>2
    <3> QED
      BY <1>5, <2>2, <3>1, <3>3
  <2> QED
    BY <2>1, <2>2
<1>7. t = [n \in 0..N |-> t[n]]
  <2> HIDE DEF V, N
  <2> QED
    BY <1>5
<1>8. t = [n \in 0..N |-> Body(t, n)]
  <2> HIDE DEF Body, N
  <2> QED
    BY <1>6, <1>7
<1>9. after = [n \in 0..N |-> Body(after, n)]
  <2> HIDE DEF Body, N
  <2> QED
    BY <1>8
<1>10. Deepest(values) = after[N]
  BY DEF Deepest
<1>11. \A n \in 0..N : after[n] = Body(after, n)
  <2> HIDE DEF Body, after, N
  <2> QED
    BY <1>9
<1> HIDE DEF after
<1> QED
  BY <1>1, <1>10, <1>11

LEMMA DrawdownRuns ==
    ASSUME NEW values \in Seq(Prices), values # <<>>
    PROVE  \E t : /\ t[0] = [peak |-> values[1], worst |-> Whole(0)]
                  /\ \A n \in 1..Len(values) :
                        LET peak == Greater(t[n - 1].peak, values[n])
                        IN  t[n] = [peak |-> peak,
                                    worst |-> Greater(t[n - 1].worst, Fall(peak, values[n]))]
                  /\ MaximumDrawdown(values) = t[Len(values)].worst
<1> DEFINE N == Len(values)
           Ratios == Int \X (Nat \ {0})
           V == [peak : Prices, worst : Ratios]
           First == [peak |-> values[1], worst |-> Whole(0)]
           Next1(x, n) == LET peak == Greater(x.peak, values[n])
                          IN  [peak |-> peak, worst |-> Greater(x.worst, Fall(peak, values[n]))]
           step(k, x) == IF k + 1 \in 1..N THEN Next1(x, k + 1) ELSE x
           h == [q \in Nat \X V |-> step(q[1], q[2])]
           Body(t, n) == IF n = 0 THEN First ELSE Next1(t[n - 1], n)
           after == CHOOSE t : t = [n \in 0..N |-> Body(t, n)]
<1>1. N \in Nat /\ N > 0 /\ \A n \in 1..N : values[n] \in Prices
  OBVIOUS
<1>2. First \in V
  BY <1>1 DEF Whole
<1>3. ASSUME NEW k \in Nat, NEW x \in V
      PROVE  step(k, x) \in V
  <2>1. CASE k + 1 \in 1..N
    <3> DEFINE peak == Greater(x.peak, values[k + 1])
               fall == Fall(peak, values[k + 1])
    <3>1. peak \in Prices
      BY <1>1, <2>1, GreaterIsOne
    <3>2. fall \in Ratios
      <4> HIDE DEF peak
      <4> QED
        BY <1>1, <2>1, <3>1, FallsCompare DEF IsFraction
    <3>3. Greater(x.worst, fall) \in Ratios
      <4> HIDE DEF fall, Ratios
      <4> QED
        BY <3>2, GreaterIsOne
    <3>4. Next1(x, k + 1) = [peak |-> peak, worst |-> Greater(x.worst, fall)]
      OBVIOUS
    <3> HIDE DEF peak, fall, Ratios, Next1
    <3> QED
      BY <2>1, <3>1, <3>3, <3>4
  <2>2. CASE ~(k + 1 \in 1..N)
    BY <2>2
  <2> QED
    BY <2>1, <2>2
<1>4. IsLoop(V, First, h)
  <2> HIDE DEF V, step, First
  <2> QED
    BY <1>2, <1>3 DEF IsLoop
<1>5. PICK t : LoopsTo(t, V, First, h, N)
  <2>1. N \in Nat
    BY <1>1
  <2> HIDE DEF V, h, N, First
  <2> QED
    BY <1>4, <2>1, LoopDefined
<1> USE DEF LoopsTo
<1>6. \A n \in 0..N : t[n] = Body(t, n)
  <2> SUFFICES ASSUME NEW n \in 0..N
               PROVE  t[n] = Body(t, n)
    OBVIOUS
  <2>1. CASE n = 0
    BY <1>5, <2>1
  <2>2. CASE n # 0
    <3>1. n - 1 \in Nat /\ n - 1 \in 0..N /\ (n - 1) + 1 = n /\ n \in 1..N
      BY <1>1, <2>2
    <3>2. t[n - 1] \in V
      <4> HIDE DEF V
      <4> QED
        BY <1>5, <3>1
    <3>3. h[<<n - 1, t[n - 1]>>] = step(n - 1, t[n - 1])
      <4> HIDE DEF V, step
      <4> QED
        BY <3>1, <3>2
    <3> HIDE DEF h, First, Next1
    <3> QED
      BY <1>5, <2>2, <3>1, <3>3
  <2> QED
    BY <2>1, <2>2
<1>7. t = [n \in 0..N |-> t[n]]
  <2> HIDE DEF V, N
  <2> QED
    BY <1>5
<1>8. t = [n \in 0..N |-> Body(t, n)]
  <2> HIDE DEF Body, N
  <2> QED
    BY <1>6, <1>7
<1>9. after = [n \in 0..N |-> Body(after, n)]
  <2> HIDE DEF Body, N
  <2> QED
    BY <1>8
<1>10. MaximumDrawdown(values) = after[N].worst
  BY DEF MaximumDrawdown
<1>11. \A n \in 0..N : after[n] = Body(after, n)
  <2> HIDE DEF Body, after, N
  <2> QED
    BY <1>9
<1> HIDE DEF after
<1>12. after[0] = First /\ \A n \in 1..N : after[n] = Next1(after[n - 1], n)
  <2> HIDE DEF First, Next1
  <2> QED
    BY <1>1, <1>11
<1> QED
  BY <1>10, <1>12

\* What the loop knows after n values: its peak is the first of the highest, no fall so
\* far is deeper than the worst one, and the worst one is the first that deep and starts
\* from the first of the highest values.
FirstHighest(values, p) == \A k \in 1..(p - 1) : Less(values[k], values[p])
Highest(values, p, n) == \A k \in 1..n : ~Less(values[p], values[k])
Bounded(values, worst, n) ==
    \A k \in 1..n : \A j \in 1..k : ~Less(worst, Fall(values[j], values[k]))
FirstDeepest(values, d) ==
    /\ d.from < d.at /\ d.worst = Fall(values[d.from], values[d.at])
    /\ Less(Whole(0), d.worst) /\ FirstHighest(values, d.from)
    /\ \A k \in 1..(d.at - 1) : \A j \in 1..k : Less(Fall(values[j], values[k]), d.worst)
DeepInv(values, d, n) ==
    /\ d = [peak |-> d.peak, worst |-> d.worst, from |-> d.from, at |-> d.at]
    /\ d.peak \in 1..Len(values) /\ d.from \in 1..Len(values) /\ d.at \in 1..Len(values)
    /\ d.peak = 1 \/ d.peak <= n
    /\ IsFraction(d.worst) /\ ~Less(d.worst, Whole(0))
    /\ FirstHighest(values, d.peak) /\ Highest(values, d.peak, n)
    /\ d.worst = Whole(0) \/ (FirstDeepest(values, d) /\ d.at <= n)
    /\ Bounded(values, d.worst, n)

LEMMA StartsUnfallen ==
    ASSUME NEW values \in Seq(Prices), values # <<>>
    PROVE  DeepInv(values, Unfallen, 0)
<1>1. Len(values) \in Nat /\ Len(values) > 0
  OBVIOUS
<1>2. IsFraction(Whole(0)) /\ ~Less(Whole(0), Whole(0))
  BY WholesCompare DEF IsRatio
<1> QED
  BY <1>1, <1>2 DEF DeepInv, Unfallen, FirstHighest, Highest, Bounded

LEMMA TurnKeeps ==
    ASSUME NEW values \in Seq(Prices), NEW n \in Nat, n + 1 \in 1..Len(values),
           NEW d, DeepInv(values, d, n)
    PROVE  DeepInv(values, Turn(values, d, n + 1), n + 1)
<1> DEFINE N == Len(values)
           m == n + 1
           p == IF Less(values[d.peak], values[m]) THEN m ELSE d.peak
           fall == Fall(values[p], values[m])
           e == Turn(values, d, m)
<1>0. N \in Nat /\ m \in 1..N /\ m \in Nat /\ \A k \in 1..N : values[k] \in Prices
  OBVIOUS
<1>1. ASSUME NEW k \in 1..N
      PROVE  /\ values[k] \in Prices /\ IsFraction(values[k])
             /\ \A j \in 1..N : IsFraction(Fall(values[k], values[j]))
  BY <1>0, FallsCompare
<1>2. /\ d = [peak |-> d.peak, worst |-> d.worst, from |-> d.from, at |-> d.at]
      /\ d.peak \in 1..N /\ d.from \in 1..N /\ d.at \in 1..N
      /\ d.peak = 1 \/ d.peak <= n
      /\ IsFraction(d.worst) /\ ~Less(d.worst, Whole(0))
      /\ FirstHighest(values, d.peak) /\ Highest(values, d.peak, n)
      /\ d.worst = Whole(0) \/ (FirstDeepest(values, d) /\ d.at <= n)
      /\ Bounded(values, d.worst, n)
  BY DEF DeepInv
<1>3. IsFraction(Whole(0))
  BY WholesCompare DEF IsRatio
<1>4. e = IF Less(d.worst, fall)
          THEN [peak |-> p, worst |-> fall, from |-> p, at |-> m]
          ELSE [d EXCEPT !.peak = p]
  BY DEF Turn
<1>5. p \in 1..N /\ p <= m
  <2>1. d.peak <= m
    BY <1>0, <1>2
  <2> QED
    BY <1>0, <1>2, <2>1
<1>6. FirstHighest(values, p) /\ Highest(values, p, m)
  <2>1. CASE Less(values[d.peak], values[m])
    <3>1. p = m
      BY <2>1
    <3>2. ASSUME NEW k \in 1..n
          PROVE  Less(values[k], values[m]) /\ ~Less(values[m], values[k])
      <4>1. k \in 1..N
        BY <1>0
      <4>2. ~Less(values[d.peak], values[k])
        BY <1>2 DEF Highest
      <4>3. IsFraction(values[k]) /\ IsFraction(values[m]) /\ IsFraction(values[d.peak])
        BY <1>0, <1>1, <1>2, <4>1
      <4> HIDE DEF m
      <4>4. Less(values[k], values[m])
        BY <2>1, <4>2, <4>3, LessOrders
      <4> QED
        BY <4>3, <4>4, LessOrders
    <3>3. ~Less(values[m], values[m])
      BY <1>0, <1>1, LessOrders
    <3>4. \A k \in 1..(m - 1) : k \in 1..n
      OBVIOUS
    <3>5. \A k \in 1..m : k \in 1..n \/ k = m
      OBVIOUS
    <3> HIDE DEF m, p
    <3> QED
      BY <3>1, <3>2, <3>3, <3>4, <3>5 DEF FirstHighest, Highest
  <2>2. CASE ~Less(values[d.peak], values[m])
    <3>1. p = d.peak
      BY <2>2
    <3>2. \A k \in 1..m : k \in 1..n \/ k = m
      OBVIOUS
    <3> HIDE DEF m, p
    <3> QED
      BY <1>2, <2>2, <3>1, <3>2 DEF Highest
  <2> QED
    BY <2>1, <2>2
<1> HIDE DEF m, p
<1>7. IsFraction(fall)
  BY <1>0, <1>1, <1>5
<1>8. ASSUME NEW j \in 1..m
      PROVE  ~Less(fall, Fall(values[j], values[m]))
  <2>1. j \in 1..N
    BY <1>0
  <2>2. ~Less(values[p], values[j])
    BY <1>6 DEF Highest
  <2> QED
    BY <1>0, <1>5, <2>1, <2>2, FallsCompare
<1>9. \A k \in 1..m : k \in 1..n \/ k = m
  BY DEF m
<1> HIDE DEF fall, e
<1>10. CASE Less(d.worst, fall)
  <2>1. e = [peak |-> p, worst |-> fall, from |-> p, at |-> m]
    BY <1>4, <1>10
  <2>2. Less(Whole(0), fall)
    BY <1>2, <1>3, <1>7, <1>10, LessOrders
  <2>3. p < m
    <3>1. Less(values[m], values[p])
      BY <1>0, <1>5, <2>2, FallsCompare DEF fall
    <3>2. p # m
      <4>1. ~Less(values[m], values[m])
        BY <1>0, <1>1, LessOrders
      <4> QED
        BY <3>1, <4>1
    <3> QED
      BY <1>0, <1>5, <3>2
  <2>4. ASSUME NEW k \in 1..n, NEW j \in 1..k
        PROVE  Less(Fall(values[j], values[k]), fall) /\ ~Less(fall, Fall(values[j], values[k]))
    <3>1. k \in 1..N /\ j \in 1..N
      BY <1>0 DEF m
    <3>2. IsFraction(Fall(values[j], values[k]))
      BY <1>1, <3>1
    <3>3. ~Less(d.worst, Fall(values[j], values[k]))
      BY <1>2 DEF Bounded
    <3>4. Less(Fall(values[j], values[k]), fall)
      BY <1>2, <1>7, <1>10, <3>2, <3>3, LessOrders
    <3> QED
      BY <1>7, <3>2, <3>4, LessOrders
  <2>5. Bounded(values, fall, m)
    BY <1>8, <1>9, <2>4 DEF Bounded
  <2>6. /\ e.peak = p /\ e.worst = fall /\ e.from = p /\ e.at = m
        /\ e = [peak |-> e.peak, worst |-> e.worst, from |-> e.from, at |-> e.at]
    BY <2>1
  <2>7. FirstDeepest(values, e)
    <3>1. \A k \in 1..(m - 1) : k \in 1..n
      BY DEF m
    <3>2. \A k \in 1..(m - 1) : \A j \in 1..k : Less(Fall(values[j], values[k]), fall)
      BY <2>4, <3>1
    <3> QED
      BY <1>6, <2>2, <2>3, <2>6, <3>2 DEF FirstDeepest, fall
  <2>8. ~Less(fall, Whole(0))
    BY <1>3, <1>7, <2>2, LessOrders
  <2>9. m <= m
    BY <1>0
  <2> QED
    BY <1>0, <1>5, <1>6, <1>7, <2>5, <2>6, <2>7, <2>8, <2>9 DEF DeepInv, m, e
<1>11. CASE ~Less(d.worst, fall)
  <2>1. /\ e.peak = p /\ e.worst = d.worst /\ e.from = d.from /\ e.at = d.at
        /\ e = [peak |-> e.peak, worst |-> e.worst, from |-> e.from, at |-> e.at]
    <3>1. e = [d EXCEPT !.peak = p]
      BY <1>4, <1>11
    <3>2. [d EXCEPT !.peak = p] = [peak |-> p, worst |-> d.worst, from |-> d.from, at |-> d.at]
      BY <1>2
    <3> QED
      BY <3>1, <3>2
  <2>2. ASSUME NEW j \in 1..m
        PROVE  ~Less(d.worst, Fall(values[j], values[m]))
    <3>1. ~Less(fall, Fall(values[j], values[m]))
      BY <1>8
    <3>2. IsFraction(Fall(values[j], values[m]))
      BY <1>0, <1>1
    <3> QED
      BY <1>2, <1>7, <1>11, <3>1, <3>2, LessOrders
  <2>3. Bounded(values, d.worst, m)
    BY <1>2, <1>9, <2>2 DEF Bounded
  <2>4. d.worst = Whole(0) \/ (FirstDeepest(values, e) /\ e.at <= m)
    <3>1. d.at <= n => d.at <= m
      BY <1>0, <1>2 DEF m
    <3>2. FirstDeepest(values, d) => FirstDeepest(values, e)
      BY <2>1 DEF FirstDeepest
    <3> QED
      BY <1>2, <2>1, <3>1, <3>2
  <2> QED
    BY <1>2, <1>5, <1>6, <2>1, <2>3, <2>4 DEF DeepInv, m, e
<1> QED
  BY <1>10, <1>11 DEF m, e

LEMMA DeepestFound ==
    ASSUME NEW values \in Seq(Prices), values # <<>>
    PROVE  /\ DeepInv(values, Deepest(values), Len(values))
           /\ MaximumDrawdown(values) = Deepest(values).worst
<1> DEFINE N == Len(values)
<1>0. N \in Nat /\ N > 0
  OBVIOUS
<1>1. PICK t : /\ t[0] = Unfallen
               /\ \A n \in 1..N : t[n] = Turn(values, t[n - 1], n)
               /\ Deepest(values) = t[N]
  BY DeepestRuns
<1>2. PICK u : /\ u[0] = [peak |-> values[1], worst |-> Whole(0)]
               /\ \A n \in 1..N :
                     LET peak == Greater(u[n - 1].peak, values[n])
                     IN  u[n] = [peak |-> peak,
                                 worst |-> Greater(u[n - 1].worst, Fall(peak, values[n]))]
               /\ MaximumDrawdown(values) = u[N].worst
  BY DrawdownRuns
<1> DEFINE S == {n \in Nat : n <= N => /\ DeepInv(values, t[n], n)
                                       /\ u[n].worst = t[n].worst
                                       /\ u[n].peak = values[t[n].peak]}
<1>3. 0 \in S
  <2>1. Unfallen.worst = Whole(0) /\ Unfallen.peak = 1
    BY DEF Unfallen
  <2> QED
    BY <1>1, <1>2, <2>1, StartsUnfallen
<1>4. ASSUME NEW n \in S \cap Nat
      PROVE  n + 1 \in S
  <2> SUFFICES ASSUME n + 1 <= N
               PROVE  /\ DeepInv(values, t[n + 1], n + 1)
                      /\ u[n + 1].worst = t[n + 1].worst
                      /\ u[n + 1].peak = values[t[n + 1].peak]
    OBVIOUS
  <2>1. n + 1 \in 1..N /\ (n + 1) - 1 = n /\ n <= N
    BY <1>0
  <2>2. /\ DeepInv(values, t[n], n)
        /\ u[n].worst = t[n].worst /\ u[n].peak = values[t[n].peak]
    BY <2>1
  <2>3. t[n + 1] = Turn(values, t[n], n + 1)
    BY <1>1, <2>1
  <2>4. DeepInv(values, t[n + 1], n + 1)
    BY <2>1, <2>2, <2>3, TurnKeeps
  <2> DEFINE p == IF Less(values[t[n].peak], values[n + 1]) THEN n + 1 ELSE t[n].peak
             high == Greater(u[n].peak, values[n + 1])
             fall == Fall(values[p], values[n + 1])
  <2>5. u[n + 1] = [peak |-> high, worst |-> Greater(u[n].worst, Fall(high, values[n + 1]))]
    BY <1>2, <2>1
  <2>6. high = values[p]
    BY <2>2, GreaterIsOne
  <2>7. Greater(u[n].worst, fall) = IF Less(t[n].worst, fall) THEN fall ELSE t[n].worst
    BY <2>2, GreaterIsOne
  <2>8. t[n + 1] = IF Less(t[n].worst, fall)
                   THEN [peak |-> p, worst |-> fall, from |-> p, at |-> n + 1]
                   ELSE [t[n] EXCEPT !.peak = p]
    BY <2>3 DEF Turn
  <2>9. t[n] = [peak |-> t[n].peak, worst |-> t[n].worst, from |-> t[n].from, at |-> t[n].at]
    BY <2>2 DEF DeepInv
  <2> HIDE DEF p, high, fall
  <2>10. t[n + 1].peak = p /\ t[n + 1].worst = IF Less(t[n].worst, fall) THEN fall ELSE t[n].worst
    <3>1. CASE Less(t[n].worst, fall)
      BY <2>8, <3>1
    <3>2. CASE ~Less(t[n].worst, fall)
      <4>1. t[n + 1] = [t[n] EXCEPT !.peak = p]
        BY <2>8, <3>2
      <4> QED
        BY <2>9, <3>2, <4>1
    <3> QED
      BY <3>1, <3>2
  <2>11. u[n + 1].peak = high /\ u[n + 1].worst = Greater(u[n].worst, fall)
    BY <2>5, <2>6 DEF fall
  <2> QED
    BY <2>4, <2>6, <2>7, <2>10, <2>11
<1> HIDE DEF S
<1>5. N \in S
  BY <1>0, <1>3, <1>4, SetInduction
<1>6. N <= N
  BY <1>0
<1> QED
  BY <1>1, <1>2, <1>5, <1>6 DEF S

LEMMA RecoveryFound ==
    ASSUME series \in Seq(Prices), series # <<>>
    PROVE  RecoveryFromPeak
<1> DEFINE N == Len(series)
           d == Deepest(series)
           worst == MaximumDrawdown(series)
           r == RecoveryPeriod(series)
           back == {n \in (d.at + 1)..N : ~Less(series[n], series[d.from])}
<1>1. N \in Nat /\ N > 0 /\ DOMAIN series = 1..N /\ \A n \in 1..N : series[n] \in Prices
  OBVIOUS
<1>2. /\ d.from \in 1..N /\ d.at \in 1..N /\ IsFraction(d.worst)
      /\ d.worst = Whole(0) \/ FirstDeepest(series, d)
      /\ Bounded(series, d.worst, N) /\ worst = d.worst
  BY DeepestFound DEF DeepInv
<1>3. r = IF N < 2 \/ d.worst = Whole(0) THEN 0
          ELSE IF back = {} THEN NotRecovered
          ELSE (CHOOSE n \in back : \A m \in back : n <= m) - d.from
  BY DEF RecoveryPeriod
<1> HIDE DEF r, worst, d, back
<1>4. \A m, n \in DOMAIN series : m <= n => ~Less(worst, Fall(series[m], series[n]))
  <2> SUFFICES ASSUME NEW m \in 1..N, NEW n \in 1..N, m <= n
               PROVE  ~Less(worst, Fall(series[m], series[n]))
    BY <1>1
  <2>1. m \in 1..n
    BY <1>1
  <2> QED
    BY <1>2, <2>1 DEF Bounded
<1> DEFINE Right(m, n) ==
               /\ Deep(m, n)
               /\ \A k \in 1..(n - 1) : \A j \in 1..k : ~Deep(j, k)
               /\ \A k \in 1..(m - 1) : Less(series[k], series[m])
               /\ \A k \in (n + 1)..N : (r = NotRecovered \/ k < m + r) => Less(series[k], series[m])
               /\ r # NotRecovered => m + r \in (n + 1)..N /\ ~Less(series[m + r], series[m])
<1>5. CASE d.worst = Whole(0)
  <2>1. worst = Whole(0) /\ r = 0
    BY <1>2, <1>3, <1>5
  <2> QED
    BY <1>4, <2>1 DEF RecoveryFromPeak, r, worst
<1>6. CASE d.worst # Whole(0)
  <2>1. /\ d.from < d.at /\ d.worst = Fall(series[d.from], series[d.at])
        /\ Less(Whole(0), d.worst) /\ FirstHighest(series, d.from)
        /\ \A k \in 1..(d.at - 1) : \A j \in 1..k : Less(Fall(series[j], series[k]), d.worst)
    BY <1>2, <1>6 DEF FirstDeepest
  <2>2. ~(N < 2)
    BY <1>1, <1>2, <2>1
  <2>3. Deep(d.from, d.at)
    BY <1>2, <2>1 DEF Deep, worst
  <2>4. ASSUME NEW k \in 1..(d.at - 1), NEW j \in 1..k
        PROVE  ~Deep(j, k)
    <3>1. Less(Fall(series[j], series[k]), d.worst)
      BY <2>1
    <3>2. ~Less(d.worst, d.worst)
      BY <1>2, LessOrders
    <3>3. Fall(series[j], series[k]) # worst
      BY <1>2, <3>1, <3>2
    <3> QED
      BY <3>3 DEF Deep, worst
  <2>5. \A k \in 1..(d.from - 1) : Less(series[k], series[d.from])
    BY <2>1 DEF FirstHighest
  <2>6. CASE back = {}
    <3>1. r = NotRecovered
      BY <1>3, <1>6, <2>2, <2>6
    <3>2. \A k \in (d.at + 1)..N : Less(series[k], series[d.from])
      BY <2>6 DEF back
    <3>3. Right(d.from, d.at)
      BY <2>3, <2>4, <2>5, <3>1, <3>2
    <3> HIDE DEF Right
    <3>4. \E m, n \in DOMAIN series : Right(m, n)
      BY <1>1, <1>2, <3>3
    <3> USE DEF Right
    <3> QED
      BY <1>4, <3>4, Zenon DEF RecoveryFromPeak, r, worst
  <2>7. CASE back # {}
    <3> DEFINE least == CHOOSE n \in back : \A m \in back : n <= m
    <3>1. back \subseteq Nat
      BY <1>1, <1>2 DEF back
    <3>2. least \in back /\ \A m \in back : least <= m
      <4>1. \E n \in back : \A m \in back : n <= m
        BY <2>7, <3>1, LeastNatural
      <4> QED
        BY <4>1
    <3>3. r = least - d.from
      BY <1>3, <1>6, <2>2, <2>7
    <3> HIDE DEF least
    <3>4. least \in (d.at + 1)..N /\ ~Less(series[least], series[d.from])
      BY <3>2 DEF back
    <3>5. d.from + r = least /\ r # NotRecovered
      BY <1>1, <1>2, <2>1, <3>3, <3>4 DEF NotRecovered
    <3>6. ASSUME NEW k \in (d.at + 1)..N, k < least
          PROVE  Less(series[k], series[d.from])
      <4>1. k \notin back
        BY <1>1, <1>2, <3>2, <3>4, <3>6
      <4> QED
        BY <4>1 DEF back
    <3>7. Right(d.from, d.at)
      BY <2>3, <2>4, <2>5, <3>4, <3>5, <3>6
    <3> HIDE DEF Right
    <3>8. \E m, n \in DOMAIN series : Right(m, n)
      BY <1>1, <1>2, <3>7
    <3> USE DEF Right
    <3> QED
      BY <1>4, <3>8, Zenon DEF RecoveryFromPeak, r, worst
  <2> QED
    BY <2>6, <2>7
<1> QED
  BY <1>5, <1>6

\* The drawdown and the recovery of any series of positive prices are those of its first
\* deepest fall: what maximum_drawdown and recovery_period compute in one pass over the
\* values is what comparing every pair of them would give (finance.py l.84-94, l.134-157).
THEOREM RecoveryIsFromPeak == SeriesSpec => []RecoveryFromPeak
<1>1. SeriesInit => series \in Seq(Prices)
  BY DEF SeriesInit
<1>2. series \in Seq(Prices) /\ [SeriesNext]_seriesVars => (series \in Seq(Prices))'
  <2> SUFFICES ASSUME series \in Seq(Prices), [SeriesNext]_seriesVars
               PROVE  series' \in Seq(Prices)
    OBVIOUS
  <2>1. CASE Observe
    <3>1. PICK v \in Values : series' = Append(series, Whole(v))
      BY <2>1 DEF Observe
    <3>2. Whole(v) \in Prices
      BY SeriesAssumption DEF Prices, Whole
    <3> QED
      BY <3>1, <3>2
  <2>2. CASE UNCHANGED seriesVars
    BY <2>2 DEF seriesVars
  <2> QED
    BY <2>1, <2>2 DEF SeriesNext
<1>3. series \in Seq(Prices) => RecoveryFromPeak
  <2>1. CASE series = <<>>
    BY <2>1 DEF RecoveryFromPeak
  <2> QED
    BY <2>1, RecoveryFound
<1> QED
  BY <1>1, <1>2, <1>3, PTL DEF SeriesSpec

(***************************************************************************)
(* Backtest: the money adds up.  What is computed with fractions obeys the *)
(* laws of arithmetic, since equal fractions in lowest terms are the same. *)
(***************************************************************************)
LEMMA PlusCommutes ==
    ASSUME NEW a, NEW b, IsFraction(a), IsFraction(b)
    PROVE  Plus(a, b) = Plus(b, a)
<1>1. IsRatio(Plus(a, b), a[1] * b[2] + b[1] * a[2], a[2] * b[2])
  BY FractionIs, PlusIs
<1>2. IsRatio(Plus(b, a), b[1] * a[2] + a[1] * b[2], b[2] * a[2])
  BY FractionIs, PlusIs
<1>3. (a[1] * b[2] + b[1] * a[2]) * (b[2] * a[2]) = (b[1] * a[2] + a[1] * b[2]) * (a[2] * b[2])
  BY FractionIs
<1>4. InLowest(Plus(a, b)) /\ InLowest(Plus(b, a))
  BY ComputedInLowest
<1> QED
  BY <1>1, <1>2, <1>3, <1>4, SameIfEqual

LEMMA PlusAssociates ==
    ASSUME NEW a, NEW b, NEW c, IsFraction(a), IsFraction(b), IsFraction(c)
    PROVE  Plus(Plus(a, b), c) = Plus(a, Plus(b, c))
<1> DEFINE p == a[1]
           q == a[2]
           r == b[1]
           s == b[2]
           u == c[1]
           v == c[2]
<1>1. IsRatio(a, p, q) /\ IsRatio(b, r, s) /\ IsRatio(c, u, v)
      /\ p \in Int /\ q \in Nat /\ r \in Int /\ s \in Nat /\ u \in Int /\ v \in Nat
  BY FractionIs
<1> HIDE DEF p, q, r, s, u, v
<1>2. IsRatio(Plus(a, b), p * s + r * q, q * s) /\ IsRatio(Plus(b, c), r * v + u * s, s * v)
  BY <1>1, PlusIs
<1>3. IsRatio(Plus(Plus(a, b), c), (p * s + r * q) * v + u * (q * s), (q * s) * v)
  BY <1>1, <1>2, PlusIs
<1>4. IsRatio(Plus(a, Plus(b, c)), p * (s * v) + (r * v + u * s) * q, q * (s * v))
  BY <1>1, <1>2, PlusIs
<1>5. ((p * s + r * q) * v + u * (q * s)) * (q * (s * v))
      = (p * (s * v) + (r * v + u * s) * q) * ((q * s) * v)
  BY <1>1
<1>6. InLowest(Plus(Plus(a, b), c)) /\ InLowest(Plus(a, Plus(b, c)))
  BY <1>2, ComputedInLowest DEF IsRatio
<1> QED
  BY <1>3, <1>4, <1>5, <1>6, SameIfEqual

\* What is taken away and given back makes no difference.
LEMMA MinusReturns ==
    ASSUME NEW a, NEW b, InLowest(a), IsFraction(b)
    PROVE  Plus(b, Minus(a, b)) = a
<1> DEFINE p == a[1]
           q == a[2]
           r == b[1]
           s == b[2]
<1>1. IsRatio(a, p, q) /\ IsRatio(b, r, s)
      /\ p \in Int /\ q \in Nat /\ r \in Int /\ s \in Nat
  BY FractionIs DEF InLowest
<1> HIDE DEF p, q, r, s
<1>2. IsRatio(Minus(a, b), p * s - r * q, q * s)
  BY <1>1, MinusIs
<1>3. IsRatio(Plus(b, Minus(a, b)), r * (q * s) + (p * s - r * q) * s, s * (q * s))
  BY <1>1, <1>2, PlusIs
<1>4. (r * (q * s) + (p * s - r * q) * s) * q = p * (s * (q * s))
  BY <1>1
<1>5. InLowest(Plus(b, Minus(a, b)))
  BY <1>2, ComputedInLowest DEF IsRatio
<1> QED
  BY <1>1, <1>3, <1>4, <1>5, SameIfEqual

\* A quantity at one price is worth what it is at another and the difference.
LEMMA PriceMoves ==
    ASSUME NEW q, NEW a, NEW b, IsFraction(q), IsFraction(a), IsFraction(b)
    PROVE  Plus(Times(q, b), Times(q, Minus(a, b))) = Times(q, a)
<1> DEFINE i == q[1]
           j == q[2]
           k == a[1]
           l == a[2]
           r == b[1]
           s == b[2]
<1>1. IsRatio(q, i, j) /\ IsRatio(a, k, l) /\ IsRatio(b, r, s)
      /\ i \in Int /\ j \in Nat /\ k \in Int /\ l \in Nat /\ r \in Int /\ s \in Nat
  BY FractionIs
<1> HIDE DEF i, j, k, l, r, s
<1>2. IsRatio(Minus(a, b), k * s - r * l, l * s)
  BY <1>1, MinusIs
<1>3. /\ IsRatio(Times(q, b), i * r, j * s) /\ IsRatio(Times(q, a), i * k, j * l)
      /\ IsRatio(Times(q, Minus(a, b)), i * (k * s - r * l), j * (l * s))
  BY <1>1, <1>2, TimesIs
<1>4. IsRatio(Plus(Times(q, b), Times(q, Minus(a, b))),
              (i * r) * (j * (l * s)) + (i * (k * s - r * l)) * (j * s), (j * s) * (j * (l * s)))
  BY <1>3, PlusIs
<1>5. ((i * r) * (j * (l * s)) + (i * (k * s - r * l)) * (j * s)) * (j * l)
      = (i * k) * ((j * s) * (j * (l * s)))
  BY <1>1
<1>6. InLowest(Plus(Times(q, b), Times(q, Minus(a, b)))) /\ InLowest(Times(q, a))
  BY <1>3, ComputedInLowest DEF IsRatio
<1> QED
  BY <1>3, <1>4, <1>5, <1>6, SameIfEqual

LEMMA CloseMoves ==
    ASSUME NEW q, IsFraction(q), NEW x \in Int, NEW y \in Int
    PROVE  Plus(Times(q, Whole(y)), Times(q, Whole(x - y))) = Times(q, Whole(x))
<1> DEFINE i == q[1]
           j == q[2]
<1>1. IsRatio(q, i, j) /\ i \in Int /\ j \in Nat
  BY FractionIs
<1> HIDE DEF i, j
<1>2. IsRatio(Whole(x), x, 1) /\ IsRatio(Whole(y), y, 1) /\ IsRatio(Whole(x - y), x - y, 1)
  BY WholesCompare
<1>3. /\ IsRatio(Times(q, Whole(x)), i * x, j * 1) /\ IsRatio(Times(q, Whole(y)), i * y, j * 1)
      /\ IsRatio(Times(q, Whole(x - y)), i * (x - y), j * 1)
  BY <1>1, <1>2, TimesIs
<1>4. IsRatio(Plus(Times(q, Whole(y)), Times(q, Whole(x - y))),
              (i * y) * (j * 1) + (i * (x - y)) * (j * 1), (j * 1) * (j * 1))
  BY <1>3, PlusIs
<1>5. ((i * y) * (j * 1) + (i * (x - y)) * (j * 1)) * (j * 1) = (i * x) * ((j * 1) * (j * 1))
  BY <1>1
<1>6. InLowest(Plus(Times(q, Whole(y)), Times(q, Whole(x - y)))) /\ InLowest(Times(q, Whole(x)))
  BY <1>2, <1>3, ComputedInLowest DEF IsRatio
<1> QED
  BY <1>3, <1>4, <1>5, <1>6, SameIfEqual

\* What is bought for an amount costs it.
LEMMA OverReturns ==
    ASSUME NEW a, NEW b, InLowest(a), b \in Prices
    PROVE  Times(Over(a, b), b) = a
<1> DEFINE p == a[1]
           q == a[2]
           r == b[1]
           s == b[2]
<1>1. IsRatio(a, p, q) /\ IsRatio(b, r, s)
      /\ p \in Int /\ q \in Nat /\ r \in Int /\ r > 0 /\ s \in Nat
  BY FractionIs, PriceIs DEF InLowest
<1> HIDE DEF p, q, r, s
<1>2. IsRatio(Over(a, b), p * s, q * r)
  BY <1>1, OverIs
<1>3. IsRatio(Times(Over(a, b), b), (p * s) * r, (q * r) * s)
  BY <1>1, <1>2, TimesIs
<1>4. ((p * s) * r) * q = p * ((q * r) * s)
  BY <1>1
<1>5. InLowest(Times(Over(a, b), b))
  BY <1>1, <1>2, ComputedInLowest DEF IsRatio
<1> QED
  BY <1>1, <1>3, <1>4, <1>5, SameIfEqual

LEMMA ZeroAndOne ==
    /\ IsRatio(Zero, 0, 1) /\ IsRatio(One, 1, 1) /\ InLowest(Zero) /\ InLowest(One)
    /\ One \in Prices
    /\ \A a : InLowest(a) => Plus(a, Zero) = a
<1>1. IsRatio(Zero, 0, 1) /\ IsRatio(One, 1, 1)
  BY WholesCompare DEF Zero, One
<1>2. Divisor[<<0, 1>>] = 1 /\ Divisor[<<1, 1>>] = 1
  <2>1. Divisor[<<1, 0>>] = 1
    BY DivisorRuns
  <2>2. Divisor[<<0, 1>>] = Divisor[<<1, 0 % 1>>] /\ Divisor[<<1, 1>>] = Divisor[<<1, 1 % 1>>]
    BY DivisorRuns
  <2>3. 0 % 1 = 0 /\ 1 % 1 = 0
    OBVIOUS
  <2> QED
    BY <2>1, <2>2, <2>3
<1>3. Frac(0, 1) = Zero /\ Frac(1, 1) = One
  <2>1. Magnitude(0) = 0 /\ Magnitude(1) = 1 /\ 0 \div 1 = 0 /\ 1 \div 1 = 1
    BY DEF Magnitude
  <2> QED
    BY <1>2, <2>1 DEF Frac, Zero, One, Whole
<1>4. InLowest(Zero) /\ InLowest(One)
  <2>1. Zero[1] = 0 /\ Zero[2] = 1 /\ One[1] = 1 /\ One[2] = 1
    BY DEF Zero, One, Whole
  <2> QED
    BY <1>1, <1>3, <2>1 DEF InLowest, IsRatio
<1>5. One \in Prices
  BY DEF Prices, One, Whole
<1>6. ASSUME NEW a, InLowest(a)
      PROVE  Plus(a, Zero) = a
  <2> DEFINE p == a[1]
             q == a[2]
  <2>1. IsRatio(a, p, q) /\ p \in Int /\ q \in Nat
    BY <1>6, FractionIs DEF InLowest
  <2> HIDE DEF p, q
  <2>2. IsRatio(Plus(a, Zero), p * 1 + 0 * q, q * 1)
    BY <1>1, <2>1, PlusIs
  <2>3. (p * 1 + 0 * q) * q = p * (q * 1)
    BY <2>1
  <2>4. InLowest(Plus(a, Zero))
    BY <1>1, <2>1, ComputedInLowest DEF IsRatio
  <2> QED
    BY <1>6, <2>1, <2>2, <2>3, <2>4, SameIfEqual
<1> QED
  BY <1>1, <1>4, <1>5, <1>6

(***************************************************************************)
(* Backtest: prices and amounts stay positive.                             *)
(***************************************************************************)
LEMMA PositiveIs ==
    ASSUME NEW a, NEW n, NEW d, IsRatio(a, n, d)
    PROVE  a \in Prices <=> n > 0
<1> DEFINE p == a[1]
           q == a[2]
<1>1. p \in Int /\ q \in Nat /\ q > 0 /\ n \in Int /\ d \in Nat /\ d > 0 /\ p * d = n * q
  BY FractionIs DEF IsRatio
<1>2. a \in Prices <=> p > 0
  BY PriceIs DEF IsRatio
<1> HIDE DEF p, q
<1>3. ASSUME NEW i \in Int, NEW j \in Nat, j > 0
      PROVE  i > 0 <=> i * j > 0
  BY <1>3
<1>4. (p > 0 <=> p * d > 0) /\ (n > 0 <=> n * q > 0)
  BY <1>1, <1>3
<1> QED
  BY <1>1, <1>2, <1>4

LEMMA PricesCompute ==
    ASSUME NEW a \in Prices, NEW b \in Prices
    PROVE  Plus(a, b) \in Prices /\ Times(a, b) \in Prices /\ Over(a, b) \in Prices
<1> DEFINE p == a[1]
           q == a[2]
           r == b[1]
           s == b[2]
<1>1. IsRatio(a, p, q) /\ IsRatio(b, r, s)
      /\ p \in Nat /\ p > 0 /\ q \in Nat /\ q > 0 /\ r \in Nat /\ r > 0 /\ s \in Nat /\ s > 0
  BY PriceIs
<1> HIDE DEF p, q, r, s
<1>2. /\ IsRatio(Plus(a, b), p * s + r * q, q * s) /\ IsRatio(Times(a, b), p * r, q * s)
      /\ IsRatio(Over(a, b), p * s, q * r)
  BY <1>1, PlusIs, TimesIs, OverIs
<1>3. p * s + r * q > 0 /\ p * r > 0 /\ p * s > 0
  <2>1. p * s > 0 /\ r * q > 0 /\ p * r > 0 /\ p * s \in Int /\ r * q \in Int
    BY <1>1
  <2> QED
    BY <2>1
<1> QED
  BY <1>2, <1>3, PositiveIs

\* Something is left after the fee, which is a fraction, too.
LEMMA FeeLeaves ==
    ASSUME NEW a \in Prices
    PROVE  /\ IsFraction(Times(a, Fee)) /\ Minus(a, Times(a, Fee)) \in Prices
           /\ InLowest(Minus(a, Times(a, Fee)))
<1> DEFINE p == a[1]
           q == a[2]
           r == Fee[1]
           s == Fee[2]
<1>1. IsRatio(a, p, q) /\ IsRatio(Fee, r, s)
      /\ p \in Nat /\ p > 0 /\ q \in Nat /\ q > 0 /\ r \in Nat /\ s \in Nat /\ s > 0 /\ r < s
  BY PriceIs, FractionIs, BacktestAssumption DEF IsFraction
<1> HIDE DEF p, q, r, s
<1>2. IsRatio(Times(a, Fee), p * r, q * s)
  BY <1>1, TimesIs
<1>3. IsRatio(Minus(a, Times(a, Fee)), p * (q * s) - (p * r) * q, q * (q * s))
  BY <1>1, <1>2, MinusIs
<1>4. p * (q * s) - (p * r) * q > 0
  <2>1. p * (q * s) - (p * r) * q = (p * q) * (s - r)
    BY <1>1
  <2>2. p * q \in Nat /\ p * q > 0 /\ s - r \in Nat /\ s - r > 0
    BY <1>1
  <2> DEFINE x == p * q
             y == s - r
  <2> HIDE DEF x, y
  <2>3. x * y > 0
    BY <2>2 DEF x, y
  <2> QED
    BY <2>1, <2>3 DEF x, y
<1>5. InLowest(Minus(a, Times(a, Fee)))
  BY <1>1, <1>2, ComputedInLowest DEF IsRatio
<1> QED
  BY <1>2, <1>3, <1>4, <1>5, PositiveIs DEF IsRatio

LEMMA FillIsPrice ==
    ASSUME NEW bar \in Bars, NEW sign \in {1, -1}
    PROVE  Fill(bar, sign) \in Prices /\ Whole(bar.close) \in Prices
<1> DEFINE p == Slippage[1]
           q == Slippage[2]
           r == bar.spread[1]
           s == bar.spread[2]
           h == Plus(Slippage, Half(bar))
           n == p * (2 * s) + r * q
           d == q * (2 * s)
           f == Plus(One, Times(Whole(sign), h))
<1>1. /\ IsRatio(Slippage, p, q) /\ p \in Nat /\ q \in Nat /\ q > 0 /\ 10 * p <= q
      /\ r \in Nat /\ s \in Nat /\ s > 0 /\ r <= s
      /\ bar.close \in Nat /\ bar.close > 0
  BY FractionIs, BacktestAssumption DEF IsFraction
<1>2. Half(bar) = Frac(r, 2 * s)
  BY DEF Half
<1>3. Whole(bar.close) \in Prices
  BY <1>1 DEF Prices, Whole
<1>4. Fill(bar, sign) = Times(Whole(bar.close), f)
  BY DEF Fill
<1> HIDE DEF p, q, r, s
<1>5. IsRatio(Half(bar), r, 2 * s)
  BY <1>1, <1>2, FracIs
<1>6. IsRatio(h, n, d)
  BY <1>1, <1>5, PlusIs
<1> HIDE DEF h
<1>7. n \in Nat /\ d \in Nat /\ d > 0 /\ n < d
  <2> DEFINE x == p * s
             y == q * s
             z == r * q
  <2>1. x \in Nat /\ y \in Nat /\ y > 0 /\ z \in Nat
    BY <1>1
  <2>2. 10 * x <= y
    <3>1. s * (10 * p) <= s * q
      BY <1>1, FactorLess
    <3>2. s * (10 * p) = 10 * x /\ s * q = y
      BY <1>1
    <3> QED
      BY <3>1, <3>2
  <2>3. z <= y
    <3>1. q * r <= q * s
      BY <1>1, FactorLess
    <3>2. q * r = z
      BY <1>1
    <3> QED
      BY <3>1, <3>2
  <2>4. n = 2 * x + z /\ d = 2 * y
    BY <1>1
  <2> HIDE DEF n, d, x, y, z
  <2> QED
    BY <2>1, <2>2, <2>3, <2>4
<1> HIDE DEF n, d
<1>8. IsRatio(Times(Whole(sign), h), sign * n, 1 * d)
  BY <1>6, WholesCompare, TimesIs
<1>9. IsRatio(f, 1 * (1 * d) + (sign * n) * 1, 1 * (1 * d))
  BY <1>8, ZeroAndOne, PlusIs
<1>10. 1 * (1 * d) + (sign * n) * 1 > 0
  BY <1>7
<1>11. f \in Prices
  <2> HIDE DEF f
  <2> QED
    BY <1>9, <1>10, PositiveIs
<1> HIDE DEF f
<1> QED
  BY <1>3, <1>4, <1>11, PricesCompute

(***************************************************************************)
(* Backtest: the accounts.                                                 *)
(***************************************************************************)
LEMMA BuyDoes ==
    ASSUME NEW b, IsBook(b), NEW bar
    PROVE  LET price == Fill(bar, 1)
               fee == Times(b.cash, Fee)
               quantity == Over(Minus(b.cash, fee), price)
               t == Buy(b, bar)
           IN  /\ IsBook(t) /\ Holds(t)
               /\ t.position.price = price /\ t.position.quantity = quantity
               /\ t.position.cost = fee /\ t.cash = Zero
               /\ t.costs = Plus(b.costs, Plus(fee, Times(quantity, Minus(price, Whole(bar.close)))))
               /\ t.closes = b.closes /\ t.curve = b.curve /\ t.returns = b.returns /\ t.gain = b.gain
<1> DEFINE price == Fill(bar, 1)
           fee == Times(b.cash, Fee)
           quantity == Over(Minus(b.cash, fee), price)
           p == [price |-> price, quantity |-> quantity, cost |-> fee]
           x == Zero
           y == Plus(b.costs, Plus(fee, Times(quantity, Minus(price, Whole(bar.close)))))
<1>1. Buy(b, bar) = [b EXCEPT !.position = p, !.cash = x, !.costs = y]
  BY DEF Buy
<1>2. IsBook(Buy(b, bar)) /\ Holds(Buy(b, bar))
  BY BoughtIsHeld
<1> HIDE DEF price, fee, quantity
<1>3. p.price = price /\ p.quantity = quantity /\ p.cost = fee
  OBVIOUS
<1> HIDE DEF p, x, y
<1>4. /\ [b EXCEPT !.position = p, !.cash = x, !.costs = y].position = p
      /\ [b EXCEPT !.position = p, !.cash = x, !.costs = y].cash = x
      /\ [b EXCEPT !.position = p, !.cash = x, !.costs = y].costs = y
      /\ [b EXCEPT !.position = p, !.cash = x, !.costs = y].closes = b.closes
      /\ [b EXCEPT !.position = p, !.cash = x, !.costs = y].curve = b.curve
      /\ [b EXCEPT !.position = p, !.cash = x, !.costs = y].returns = b.returns
      /\ [b EXCEPT !.position = p, !.cash = x, !.costs = y].gain = b.gain
  BY DEF IsBook, Fields
<1> QED
  BY <1>1, <1>2, <1>3, <1>4 DEF x, y, price, fee, quantity

LEMMA SellDoes ==
    ASSUME NEW b, IsBook(b), NEW bar
    PROVE  LET price == Fill(bar, -1)
               gross == Times(b.position.quantity, price)
               fee == Times(gross, Fee)
               cash == Minus(gross, fee)
               t == Sell(b, bar)
           IN  /\ IsBook(t) /\ ~Holds(t) /\ t.cash = cash
               /\ t.costs = Plus(b.costs, Plus(fee, Times(b.position.quantity,
                                                         Minus(Whole(bar.close), price))))
               /\ t.returns = Append(b.returns, Minus(Over(cash, Paid(b.position)), One))
               /\ t.closes = b.closes /\ t.curve = b.curve /\ t.gain = b.gain
<1> DEFINE price == Fill(bar, -1)
           gross == Times(b.position.quantity, price)
           fee == Times(gross, Fee)
           x == Minus(gross, fee)
           y == Plus(b.costs, Plus(fee, Times(b.position.quantity,
                                              Minus(Whole(bar.close), price))))
           z == Append(b.returns, Minus(Over(x, Paid(b.position)), One))
<1>1. Sell(b, bar) = [b EXCEPT !.cash = x, !.position = NoPosition, !.costs = y, !.returns = z]
  BY DEF Sell
<1>2. IsBook(Sell(b, bar)) /\ ~Holds(Sell(b, bar))
  BY SoldIsGone
<1> HIDE DEF x, y, z
<1>3. ASSUME NEW p
      PROVE  LET t == [b EXCEPT !.cash = x, !.position = p, !.costs = y, !.returns = z]
             IN  /\ t.cash = x /\ t.costs = y /\ t.returns = z
                 /\ t.closes = b.closes /\ t.curve = b.curve /\ t.gain = b.gain
  BY DEF IsBook, Fields
<1> QED
  BY <1>1, <1>2, <1>3 DEF x, y, z

LEMMA OnBarDoes ==
    ASSUME NEW b, IsBook(b), NEW bar, bar.liquid \in BOOLEAN
    PROVE  LET t == Traded(b, bar, Signal(b.closes))
               n == OnBar(b, bar)
           IN  /\ IsBook(n) /\ IsBook(t)
               /\ n.cash = t.cash /\ n.position = t.position /\ n.costs = t.costs
               /\ n.returns = t.returns /\ n.curve = Append(t.curve, Equity(t, bar))
               /\ n.closes = Append(t.closes, bar.close) /\ n.gain = Plus(t.gain, Drift(b, bar))
<1> DEFINE t == Traded(b, bar, Signal(b.closes))
           w == t.invested + (IF Holds(t) THEN 1 ELSE 0)
           x == Append(t.curve, Equity(t, bar))
           y == Append(t.closes, bar.close)
           z == Plus(t.gain, Drift(b, bar))
           n == [t EXCEPT !.invested = w, !.curve = x, !.closes = y, !.gain = z]
<1>1. IsBook(t)
  BY BoughtIsHeld, SoldIsGone DEF Traded
<1>2. OnBar(b, bar) = n
  BY DEF OnBar
<1> HIDE DEF t, w, x, y, z
<1>3. /\ n.cash = t.cash /\ n.position = t.position /\ n.costs = t.costs
      /\ n.returns = t.returns /\ n.curve = x /\ n.closes = y /\ n.gain = z
  BY <1>1 DEF IsBook, Fields
<1> HIDE DEF n
<1> QED
  BY <1>1, <1>2, <1>3, BarDecides DEF t, x, y, z

Fractions == {f \in Int \X (Nat \ {0}) : InLowest(f)}
\* What the book is worth: what it has, or what it paid for what it has.
Worth(b) == IF Holds(b) THEN Paid(b.position) ELSE b.cash
\* The money adds up, at an equity.
Balanced(b, equity, gain) == Plus(equity, b.costs) = Plus(One, gain)
\* What is held was bought for what the curve said before.
Bought(b) ==
    /\ b.closes # <<>> /\ b.position.quantity \in Prices
    /\ b.curve[Len(b.curve)] = Times(b.position.quantity, Whole(b.closes[Len(b.closes)]))
    /\ \E m \in 1..(Len(b.curve) - 1) : b.curve[m] = Paid(b.position)
\* Each return is that between two points of the curve, both of them final.
Explained(b) ==
    \A n \in 1..Len(b.returns) : \E k \in 1..Len(b.curve) : \E m \in 1..(k - 1) :
        /\ Minus(Zero, b.returns[n]) = Fall(b.curve[m], b.curve[k])
        /\ Holds(b) => k < Len(b.curve)
Accounts(b) ==
    /\ IsBook(b) /\ b.closes \in Seq(Nat \ {0}) /\ b.curve \in Seq(Prices) /\ b.curve # <<>>
    /\ b.returns \in Seq(Fractions) /\ b.costs \in Fractions /\ b.gain \in Fractions
    /\ Balanced(b, b.curve[Len(b.curve)], b.gain)
    /\ Holds(b) => Bought(b)
    /\ ~Holds(b) => /\ b.cash \in Prices /\ b.cash \in Fractions
                    /\ b.curve[Len(b.curve)] = b.cash
    /\ Explained(b)
    /\ Compounded(b.returns) = Worth(b)

LEMMA FractionsAre ==
    ASSUME NEW f
    PROVE  f \in Fractions <=> InLowest(f)
BY DEF Fractions, InLowest, IsFraction

\* What is bought is worth what was there, less what it costs.
LEMMA BuyBalances ==
    ASSUME NEW b, IsBook(b), ~Holds(b), b.cash \in Prices, b.cash \in Fractions,
           b.costs \in Fractions, NEW bar \in Bars
    PROVE  LET t == Buy(b, bar)
           IN  /\ t.position.quantity \in Prices /\ Paid(t.position) = b.cash
               /\ t.costs \in Fractions
               /\ Plus(Times(t.position.quantity, Whole(bar.close)), t.costs)
                  = Plus(b.cash, b.costs)
<1> DEFINE price == Fill(bar, 1)
           fee == Times(b.cash, Fee)
           rest == Minus(b.cash, fee)
           quantity == Over(rest, price)
           close == Whole(bar.close)
           value == Times(quantity, close)
           lost == Times(quantity, Minus(price, close))
           t == Buy(b, bar)
           K == b.cash
           C == b.costs
<1>1. price \in Prices /\ close \in Prices
  BY FillIsPrice
<1>2. IsFraction(fee) /\ rest \in Prices /\ InLowest(rest)
  BY FeeLeaves
<1>3. /\ t.position.price = price /\ t.position.quantity = quantity /\ t.position.cost = fee
      /\ t.costs = Plus(C, Plus(fee, lost))
  BY BuyDoes
<1>4. InLowest(K) /\ InLowest(C)
  BY FractionsAre
<1> HIDE DEF price, close, fee, t, K, C
<1>5. Plus(fee, rest) = K
  BY <1>2, <1>4, MinusReturns DEF K
<1> HIDE DEF rest
<1>6. quantity \in Prices /\ Times(quantity, price) = rest
  BY <1>1, <1>2, PricesCompute, OverReturns
<1> HIDE DEF quantity
<1>7. Paid(t.position) = K
  <2>1. Paid(t.position) = Plus(rest, fee)
    BY <1>3, <1>6 DEF Paid
  <2>2. IsFraction(rest)
    BY <1>2 DEF InLowest
  <2>3. Plus(rest, fee) = Plus(fee, rest)
    BY <1>2, <2>2, PlusCommutes
  <2> QED
    BY <1>5, <2>1, <2>3
<1>8. IsFraction(price) /\ IsFraction(close) /\ IsFraction(quantity) /\ IsFraction(K) /\ IsFraction(C)
  BY <1>1, <1>4, <1>6, PriceIs DEF InLowest
<1>9. Plus(value, lost) = rest
  BY <1>6, <1>8, PriceMoves
<1>10. IsFraction(value) /\ IsFraction(lost)
  BY <1>8, ComputedInLowest DEF InLowest
<1> HIDE DEF value, lost
<1>11. IsFraction(Plus(fee, lost)) /\ InLowest(Plus(C, Plus(fee, lost)))
  <2>1. IsFraction(Plus(fee, lost))
    BY <1>2, <1>10, ComputedInLowest DEF InLowest
  <2> QED
    BY <1>8, <2>1, ComputedInLowest
<1>12. Plus(value, Plus(C, Plus(fee, lost))) = Plus(K, C)
  <2>1. Plus(C, Plus(fee, lost)) = Plus(Plus(fee, lost), C)
    BY <1>8, <1>11, PlusCommutes
  <2>2. Plus(value, Plus(Plus(fee, lost), C)) = Plus(Plus(value, Plus(fee, lost)), C)
    BY <1>8, <1>10, <1>11, PlusAssociates
  <2>3. Plus(value, Plus(fee, lost)) = Plus(Plus(value, fee), lost)
    BY <1>2, <1>10, PlusAssociates
  <2>4. Plus(value, fee) = Plus(fee, value)
    BY <1>2, <1>10, PlusCommutes
  <2>5. Plus(Plus(fee, value), lost) = Plus(fee, Plus(value, lost))
    BY <1>2, <1>10, PlusAssociates
  <2> QED
    BY <1>5, <1>9, <2>1, <2>2, <2>3, <2>4, <2>5
<1> QED
  BY <1>3, <1>6, <1>7, <1>11, <1>12, FractionsAre DEF value, close, t, K, C

\* What is sold is worth what was held, less what it costs.
LEMMA SellBalances ==
    ASSUME NEW b, IsBook(b), b.position.quantity \in Prices, b.costs \in Fractions, NEW bar \in Bars
    PROVE  LET t == Sell(b, bar)
           IN  /\ t.cash \in Prices /\ t.cash \in Fractions /\ t.costs \in Fractions
               /\ Plus(t.cash, t.costs)
                  = Plus(Times(b.position.quantity, Whole(bar.close)), b.costs)
<1> DEFINE price == Fill(bar, -1)
           quantity == b.position.quantity
           gross == Times(quantity, price)
           fee == Times(gross, Fee)
           rest == Minus(gross, fee)
           close == Whole(bar.close)
           value == Times(quantity, close)
           lost == Times(quantity, Minus(close, price))
           t == Sell(b, bar)
           C == b.costs
<1>1. price \in Prices /\ close \in Prices /\ quantity \in Prices
  BY FillIsPrice
<1>2. t.cash = rest /\ t.costs = Plus(C, Plus(fee, lost))
  BY SellDoes
<1>3. InLowest(C)
  BY FractionsAre
<1>4. InLowest(gross) /\ gross \in Prices
  <2> HIDE DEF price, quantity
  <2> QED
    BY <1>1, PricesCompute, ComputedInLowest, PriceIs
<1> HIDE DEF gross
<1>5. IsFraction(fee) /\ rest \in Prices /\ InLowest(rest)
  BY <1>4, FeeLeaves
<1> HIDE DEF fee
<1>6. Plus(fee, rest) = gross
  BY <1>4, <1>5, MinusReturns
<1> HIDE DEF price, close, quantity, t, C, rest
<1>7. IsFraction(price) /\ IsFraction(close) /\ IsFraction(quantity) /\ IsFraction(C)
      /\ IsFraction(rest)
  BY <1>1, <1>3, <1>5, PriceIs DEF InLowest
<1>8. Plus(gross, lost) = value
  BY <1>7, PriceMoves DEF gross
<1>9. IsFraction(value) /\ IsFraction(lost)
  BY <1>7, ComputedInLowest DEF InLowest
<1> HIDE DEF value, lost
<1>10. IsFraction(Plus(fee, lost)) /\ InLowest(Plus(C, Plus(fee, lost)))
  <2>1. IsFraction(Plus(fee, lost))
    BY <1>5, <1>9, ComputedInLowest DEF InLowest
  <2> QED
    BY <1>7, <2>1, ComputedInLowest
<1>11. Plus(rest, Plus(C, Plus(fee, lost))) = Plus(value, C)
  <2>1. Plus(C, Plus(fee, lost)) = Plus(Plus(fee, lost), C)
    BY <1>7, <1>10, PlusCommutes
  <2>2. Plus(rest, Plus(Plus(fee, lost), C)) = Plus(Plus(rest, Plus(fee, lost)), C)
    BY <1>7, <1>10, PlusAssociates
  <2>3. Plus(rest, Plus(fee, lost)) = Plus(Plus(rest, fee), lost)
    BY <1>5, <1>7, <1>9, PlusAssociates
  <2>4. Plus(rest, fee) = Plus(fee, rest)
    BY <1>5, <1>7, PlusCommutes
  <2> QED
    BY <1>6, <1>8, <2>1, <2>2, <2>3, <2>4
<1> QED
  BY <1>2, <1>5, <1>10, <1>11, FractionsAre DEF value, close, quantity, t, C

\* The return of a trade compounds to what was got, and a loss is a fall.
LEMMA ReturnIs ==
    ASSUME NEW paid \in Prices, NEW cash \in Prices, InLowest(cash)
    PROVE  LET r == Minus(Over(cash, paid), One)
           IN  /\ r \in Fractions /\ Minus(Zero, r) = Fall(paid, cash)
               /\ Times(paid, Plus(One, r)) = cash
<1> DEFINE p == paid[1]
           q == paid[2]
           u == cash[1]
           v == cash[2]
           o == Over(cash, paid)
           r == Minus(o, One)
<1>1. IsRatio(paid, p, q) /\ IsRatio(cash, u, v)
      /\ p \in Nat /\ p > 0 /\ q \in Nat /\ q > 0 /\ u \in Nat /\ v \in Nat /\ v > 0
  BY PriceIs
<1>2. IsRatio(Zero, 0, 1) /\ IsRatio(One, 1, 1)
  BY ZeroAndOne
<1>3. IsRatio(Fall(paid, cash), (p * v - u * q) * q, (q * v) * p)
  BY FallIs
<1>4. InLowest(Fall(paid, cash))
  <2>1. IsFraction(Minus(paid, cash))
    BY <1>1, MinusIs DEF IsRatio
  <2> QED
    BY <1>1, <2>1, ComputedInLowest DEF Fall, IsRatio
<1> HIDE DEF p, q, u, v
<1>5. IsRatio(o, u * q, v * p)
  BY <1>1, OverIs
<1> HIDE DEF o
<1>6. IsRatio(r, (u * q) * 1 - 1 * (v * p), (v * p) * 1) /\ InLowest(r)
  <2>1. IsRatio(r, (u * q) * 1 - 1 * (v * p), (v * p) * 1)
    BY <1>2, <1>5, MinusIs
  <2> QED
    BY <1>2, <1>5, <2>1, ComputedInLowest DEF IsRatio
<1> HIDE DEF r
<1>7. IsRatio(r, u * q - v * p, v * p)
  <2>1. (u * q) * 1 - 1 * (v * p) = u * q - v * p /\ (v * p) * 1 = v * p
    BY <1>1
  <2> QED
    BY <1>6, <2>1
<1>8. Minus(Zero, r) = Fall(paid, cash)
  <2>1. IsRatio(Minus(Zero, r), 0 * (v * p) - (u * q - v * p) * 1, 1 * (v * p))
    BY <1>2, <1>7, MinusIs
  <2>2. (0 * (v * p) - (u * q - v * p) * 1) * ((q * v) * p) = ((p * v - u * q) * q) * (1 * (v * p))
    BY <1>1
  <2>3. InLowest(Minus(Zero, r))
    BY <1>2, <1>7, ComputedInLowest DEF IsRatio
  <2> QED
    BY <1>3, <1>4, <2>1, <2>2, <2>3, SameIfEqual
<1>9. Times(paid, Plus(One, r)) = cash
  <2>1. IsRatio(Plus(One, r), 1 * (v * p) + (u * q - v * p) * 1, 1 * (v * p))
    BY <1>2, <1>7, PlusIs
  <2>2. IsRatio(Times(paid, Plus(One, r)), p * (1 * (v * p) + (u * q - v * p) * 1), q * (1 * (v * p)))
    BY <1>1, <2>1, TimesIs
  <2>3. (p * (1 * (v * p) + (u * q - v * p) * 1)) * v = u * (q * (1 * (v * p)))
    BY <1>1
  <2>4. InLowest(Times(paid, Plus(One, r)))
    BY <1>1, <2>1, ComputedInLowest DEF IsRatio
  <2> QED
    BY <1>1, <2>2, <2>3, <2>4, SameIfEqual
<1> QED
  BY <1>6, <1>8, <1>9, FractionsAre DEF r, o

\* The returns are compounded one after the other.
LEMMA CompoundedRuns ==
    ASSUME NEW returns \in Seq(Fractions)
    PROVE  \E t : /\ t[0] = One
                  /\ \A n \in 1..Len(returns) : t[n] = Times(t[n - 1], Plus(One, returns[n]))
                  /\ Compounded(returns) = t[Len(returns)]
<1> DEFINE N == Len(returns)
           step(k, x) == IF k + 1 \in 1..N THEN Times(x, Plus(One, returns[k + 1])) ELSE x
           h == [q \in Nat \X Fractions |-> step(q[1], q[2])]
           Body(t, n) == IF n = 0 THEN One ELSE Times(t[n - 1], Plus(One, returns[n]))
           after == CHOOSE t : t = [n \in 0..N |-> Body(t, n)]
<1>1. N \in Nat /\ \A n \in 1..N : returns[n] \in Fractions
  OBVIOUS
<1>2. One \in Fractions
  BY ZeroAndOne, FractionsAre
<1>3. ASSUME NEW k \in Nat, NEW x \in Fractions
      PROVE  step(k, x) \in Fractions
  <2>1. CASE k + 1 \in 1..N
    <3>1. IsFraction(x) /\ IsFraction(returns[k + 1]) /\ IsFraction(One)
      BY <1>1, <1>2, <2>1, FractionsAre DEF InLowest
    <3>2. IsFraction(Plus(One, returns[k + 1]))
      BY <3>1, ComputedInLowest DEF InLowest
    <3>3. InLowest(Times(x, Plus(One, returns[k + 1])))
      BY <3>1, <3>2, ComputedInLowest
    <3> QED
      BY <2>1, <3>3, FractionsAre
  <2>2. CASE ~(k + 1 \in 1..N)
    BY <2>2
  <2> QED
    BY <2>1, <2>2
<1>4. IsLoop(Fractions, One, h)
  <2> HIDE DEF step
  <2> QED
    BY <1>2, <1>3 DEF IsLoop
<1>5. PICK t : LoopsTo(t, Fractions, One, h, N)
  <2>1. N \in Nat
    BY <1>1
  <2> HIDE DEF h, N
  <2> QED
    BY <1>4, <2>1, LoopDefined
<1>6. /\ t \in [0..N -> Fractions] /\ t[0] = One
      /\ \A n \in 1..N : t[n] = h[<<n - 1, t[n - 1]>>]
  BY <1>5 DEF LoopsTo
<1>7. \A n \in 0..N : t[n] = Body(t, n)
  <2> SUFFICES ASSUME NEW n \in 0..N
               PROVE  t[n] = Body(t, n)
    OBVIOUS
  <2>1. CASE n = 0
    BY <1>6, <2>1
  <2>2. CASE n # 0
    <3>1. n - 1 \in Nat /\ n - 1 \in 0..N /\ (n - 1) + 1 = n /\ n \in 1..N
      BY <1>1, <2>2
    <3>2. t[n - 1] \in Fractions
      BY <1>6, <3>1
    <3>3. h[<<n - 1, t[n - 1]>>] = step(n - 1, t[n - 1])
      <4> HIDE DEF step
      <4> QED
        BY <3>1, <3>2
    <3> QED
      BY <1>6, <2>2, <3>1, <3>3
  <2> QED
    BY <2>1, <2>2
<1>8. t = [n \in 0..N |-> Body(t, n)]
  <2>1. t = [n \in 0..N |-> t[n]]
    BY <1>6
  <2> HIDE DEF Body, N
  <2> QED
    BY <1>7, <2>1
<1>9. after = [n \in 0..N |-> Body(after, n)]
  <2> HIDE DEF Body, N
  <2> QED
    BY <1>8
<1>10. Compounded(returns) = after[N]
  BY DEF Compounded
<1>11. \A n \in 0..N : after[n] = Body(after, n)
  <2> HIDE DEF Body, after, N
  <2> QED
    BY <1>9
<1> HIDE DEF after
<1> QED
  BY <1>1, <1>10, <1>11

LEMMA CompoundedGrows ==
    ASSUME NEW returns \in Seq(Fractions), NEW r \in Fractions
    PROVE  /\ Append(returns, r) \in Seq(Fractions)
           /\ Compounded(Append(returns, r)) = Times(Compounded(returns), Plus(One, r))
<1> DEFINE N == Len(returns)
           more == Append(returns, r)
<1>1. /\ more \in Seq(Fractions) /\ Len(more) = N + 1 /\ more[N + 1] = r /\ N \in Nat
      /\ \A n \in 1..N : more[n] = returns[n]
  OBVIOUS
<1>2. PICK t : /\ t[0] = One
               /\ \A n \in 1..N : t[n] = Times(t[n - 1], Plus(One, returns[n]))
               /\ Compounded(returns) = t[N]
  BY CompoundedRuns
<1> HIDE DEF more
<1>3. PICK u : /\ u[0] = One
               /\ \A n \in 1..(N + 1) : u[n] = Times(u[n - 1], Plus(One, more[n]))
               /\ Compounded(more) = u[N + 1]
  <2>1. \E u : /\ u[0] = One
               /\ \A n \in 1..Len(more) : u[n] = Times(u[n - 1], Plus(One, more[n]))
               /\ Compounded(more) = u[Len(more)]
    BY <1>1, CompoundedRuns
  <2> QED
    BY <1>1, <2>1
<1> DEFINE S == {n \in Nat : n <= N => t[n] = u[n]}
<1>4. 0 \in S
  BY <1>2, <1>3
<1>5. ASSUME NEW n \in S \cap Nat
      PROVE  n + 1 \in S
  <2> SUFFICES ASSUME n + 1 <= N
               PROVE  t[n + 1] = u[n + 1]
    OBVIOUS
  <2>1. n + 1 \in 1..N /\ n + 1 \in 1..(N + 1) /\ (n + 1) - 1 = n /\ t[n] = u[n]
    BY <1>1
  <2>2. t[n + 1] = Times(t[n], Plus(One, returns[n + 1]))
    BY <1>2, <2>1
  <2>3. u[n + 1] = Times(u[n], Plus(One, more[n + 1]))
    BY <1>3, <2>1
  <2> QED
    BY <1>1, <2>1, <2>2, <2>3
<1> HIDE DEF S
<1>6. N \in S /\ N <= N
  BY <1>1, <1>4, <1>5, SetInduction
<1>7. u[N + 1] = Times(u[N], Plus(One, r))
  <2>1. N + 1 \in 1..(N + 1) /\ (N + 1) - 1 = N
    BY <1>1
  <2>2. u[N + 1] = Times(u[(N + 1) - 1], Plus(One, more[N + 1]))
    BY <1>3, <2>1
  <2> QED
    BY <1>1, <2>1, <2>2
<1>8. t[N] = u[N]
  BY <1>6 DEF S
<1> QED
  BY <1>1, <1>2, <1>3, <1>7, <1>8 DEF more

\* A sale adds the return of what was held.
LEMMA SellTrades ==
    ASSUME NEW b, Accounts(b), Holds(b), NEW bar \in Bars
    PROVE  LET t == Sell(b, bar)
           IN  /\ IsBook(t) /\ ~Holds(t) /\ Paid(b.position) \in Prices
               /\ t.cash \in Prices /\ t.cash \in Fractions /\ t.costs \in Fractions
               /\ t.closes = b.closes /\ t.curve = b.curve /\ t.gain = b.gain
               /\ t.returns \in Seq(Fractions) /\ Compounded(t.returns) = t.cash
               /\ \E r : /\ t.returns = Append(b.returns, r)
                         /\ Minus(Zero, r) = Fall(Paid(b.position), t.cash)
<1> DEFINE t == Sell(b, bar)
           paid == Paid(b.position)
           r == Minus(Over(t.cash, paid), One)
<1>1. /\ IsBook(b) /\ b.position.quantity \in Prices /\ b.costs \in Fractions
      /\ b.returns \in Seq(Fractions) /\ Compounded(b.returns) = paid
  BY DEF Accounts, Bought, Worth
<1>2. paid \in Prices
  <2>1. PICK m \in 1..(Len(b.curve) - 1) : b.curve[m] = paid
    BY DEF Accounts, Bought
  <2>2. b.curve \in Seq(Prices)
    BY DEF Accounts
  <2> HIDE DEF paid
  <2> QED
    BY <2>1, <2>2
<1>3. t.cash \in Prices /\ t.cash \in Fractions /\ t.costs \in Fractions
  BY <1>1, SellBalances
<1>4. /\ IsBook(t) /\ ~Holds(t) /\ t.returns = Append(b.returns, r)
      /\ t.closes = b.closes /\ t.curve = b.curve /\ t.gain = b.gain
  BY <1>1, SellDoes
<1> HIDE DEF t, paid
<1>5. InLowest(t.cash)
  BY <1>3, FractionsAre
<1>6. r \in Fractions /\ Minus(Zero, r) = Fall(paid, t.cash) /\ Times(paid, Plus(One, r)) = t.cash
  BY <1>2, <1>3, <1>5, ReturnIs
<1> HIDE DEF r
<1>7. t.returns \in Seq(Fractions) /\ Compounded(t.returns) = t.cash
  BY <1>1, <1>4, <1>6, CompoundedGrows
<1> QED
  BY <1>2, <1>3, <1>4, <1>6, <1>7 DEF t, paid

\* What is there is worth what the close moves it by.
LEMMA EquityMoves ==
    ASSUME NEW b, Accounts(b), NEW bar \in Bars
    PROVE  /\ Equity(b, bar) \in Prices /\ Plus(b.gain, Drift(b, bar)) \in Fractions
           /\ Balanced(b, Equity(b, bar), Plus(b.gain, Drift(b, bar)))
<1> DEFINE last == b.curve[Len(b.curve)]
           E == Equity(b, bar)
           D == Drift(b, bar)
           G == b.gain
           C == b.costs
<1>1. /\ b.closes \in Seq(Nat \ {0}) /\ last \in Prices /\ C \in Fractions /\ G \in Fractions
      /\ Plus(last, C) = Plus(One, G)
      /\ Holds(b) => Bought(b)
      /\ ~Holds(b) => b.cash \in Prices /\ last = b.cash
  BY DEF Accounts, Balanced
<1>2. IsFraction(last) /\ IsFraction(C) /\ InLowest(G) /\ IsFraction(G) /\ IsFraction(One)
  BY <1>1, PriceIs, FractionsAre, ZeroAndOne DEF InLowest
<1>3. CASE ~Holds(b)
  <2>1. E = last /\ D = Zero /\ E \in Prices
    BY <1>1, <1>3 DEF Equity, Drift
  <2>2. Plus(G, D) = G
    BY <1>2, <2>1, ZeroAndOne
  <2> QED
    BY <1>1, <2>1, <2>2 DEF Balanced
<1>4. CASE Holds(b)
  <2> DEFINE q == b.position.quantity
             y == b.closes[Len(b.closes)]
             x == bar.close
  <2>1. q \in Prices /\ last = Times(q, Whole(y)) /\ y \in Nat
    BY <1>1, <1>4 DEF Bought
  <2>2. x \in Nat /\ x > 0 /\ Whole(x) \in Prices
    BY FillIsPrice, BacktestAssumption
  <2>3. E = Times(q, Whole(x)) /\ D = Times(q, Whole(x - y))
    BY <1>4 DEF Equity, Drift
  <2> HIDE DEF q, y, x, last, E, D, G, C
  <2>4. E \in Prices
    BY <2>1, <2>2, <2>3, PricesCompute
  <2>5. IsFraction(q) /\ IsFraction(D) /\ x - y \in Int
    <3>1. IsFraction(q) /\ x - y \in Int
      BY <2>1, <2>2, PriceIs
    <3>2. IsFraction(Whole(x - y))
      BY <3>1, WholesCompare DEF IsRatio
    <3> QED
      BY <2>3, <3>1, <3>2, ComputedInLowest DEF InLowest
  <2>6. E = Plus(last, D)
    BY <2>1, <2>2, <2>3, <2>5, CloseMoves
  <2>7. Plus(Plus(last, D), C) = Plus(One, Plus(G, D))
    <3>1. Plus(Plus(last, D), C) = Plus(last, Plus(D, C))
      BY <1>2, <2>5, PlusAssociates
    <3>2. Plus(D, C) = Plus(C, D)
      BY <1>2, <2>5, PlusCommutes
    <3>3. Plus(Plus(last, C), D) = Plus(last, Plus(C, D))
      BY <1>2, <2>5, PlusAssociates
    <3>4. Plus(Plus(One, G), D) = Plus(One, Plus(G, D))
      BY <1>2, <2>5, PlusAssociates
    <3> QED
      BY <1>1, <3>1, <3>2, <3>3, <3>4
  <2>8. InLowest(Plus(G, D))
    BY <1>2, <2>5, ComputedInLowest
  <2> QED
    BY <2>4, <2>6, <2>7, <2>8, FractionsAre DEF Balanced, E, D, G, C
<1>5. InLowest(G) => G \in Fractions
  BY FractionsAre
<1> QED
  BY <1>1, <1>2, <1>3, <1>4, <1>5, ZeroAndOne DEF Drift

\* An order keeps the balance, and what was said of the trades.
Traces(b, t, equity) ==
    LET curve == Append(b.curve, equity)
    IN  \A n \in 1..Len(t.returns) : \E k \in 1..Len(curve) : \E m \in 1..(k - 1) :
            /\ Minus(Zero, t.returns[n]) = Fall(curve[m], curve[k])
            /\ Holds(t) => k < Len(curve)
Settled(b, t, equity, gain) ==
    /\ IsBook(t) /\ t.closes = b.closes /\ t.curve = b.curve /\ t.gain = b.gain
    /\ equity \in Prices /\ t.costs \in Fractions /\ Balanced(t, equity, gain)
    /\ t.returns \in Seq(Fractions) /\ Compounded(t.returns) = Worth(t)
    /\ Holds(t) => /\ t.position.quantity \in Prices
                   /\ \E m \in 1..Len(b.curve) : b.curve[m] = Paid(t.position)
    /\ ~Holds(t) => t.cash \in Prices /\ t.cash \in Fractions
    /\ Traces(b, t, equity)

\* The points of a curve stay when one is added.
LEMMA CurveGrows ==
    ASSUME NEW curve \in Seq(Prices), NEW e \in Prices
    PROVE  /\ Append(curve, e) \in Seq(Prices) /\ Len(Append(curve, e)) = Len(curve) + 1
           /\ Append(curve, e)[Len(curve) + 1] = e /\ Len(curve) \in Nat
           /\ \A n \in 1..Len(curve) : Append(curve, e)[n] = curve[n]
OBVIOUS

LEMMA OldTraces ==
    ASSUME NEW b, Accounts(b), NEW e \in Prices
    PROVE  \A n \in 1..Len(b.returns) : \E k \in 1..Len(b.curve) : \E m \in 1..(k - 1) :
               Minus(Zero, b.returns[n]) = Fall(Append(b.curve, e)[m], Append(b.curve, e)[k])
<1> DEFINE c == Append(b.curve, e)
<1>1. b.curve \in Seq(Prices) /\ Explained(b)
  BY DEF Accounts
<1>2. Len(b.curve) \in Nat /\ \A n \in 1..Len(b.curve) : c[n] = b.curve[n]
  BY <1>1, CurveGrows
<1> HIDE DEF c
<1>3. ASSUME NEW n \in 1..Len(b.returns)
      PROVE  \E k \in 1..Len(b.curve) : \E m \in 1..(k - 1) :
                 Minus(Zero, b.returns[n]) = Fall(c[m], c[k])
  <2>1. PICK k \in 1..Len(b.curve) : \E m \in 1..(k - 1) :
                 Minus(Zero, b.returns[n]) = Fall(b.curve[m], b.curve[k])
    BY <1>1 DEF Explained
  <2>2. PICK m \in 1..(k - 1) : Minus(Zero, b.returns[n]) = Fall(b.curve[m], b.curve[k])
    BY <2>1
  <2>3. m \in 1..Len(b.curve)
    BY <1>2
  <2>4. c[m] = b.curve[m] /\ c[k] = b.curve[k]
    BY <1>2, <2>3
  <2> QED
    BY <2>2, <2>4
<1> QED
  BY <1>3 DEF c

LEMMA OrderSettles ==
    ASSUME NEW b, Accounts(b), NEW bar \in Bars
    PROVE  LET t == Traded(b, bar, Signal(b.closes))
           IN  Settled(b, t, Equity(t, bar), Plus(b.gain, Drift(b, bar)))
<1> DEFINE desired == Signal(b.closes)
           t == Traded(b, bar, desired)
           G == Plus(b.gain, Drift(b, bar))
           N == Len(b.curve)
<1>1. /\ IsBook(b) /\ b.curve \in Seq(Prices) /\ b.curve # <<>> /\ b.returns \in Seq(Fractions)
      /\ b.costs \in Fractions /\ Compounded(b.returns) = Worth(b) /\ Explained(b)
      /\ Holds(b) => Bought(b)
      /\ ~Holds(b) => b.cash \in Prices /\ b.cash \in Fractions /\ b.curve[N] = b.cash
  BY DEF Accounts
<1>2. Equity(b, bar) \in Prices /\ Plus(Equity(b, bar), b.costs) = Plus(One, G)
  BY EquityMoves DEF Balanced
<1>3. N \in Nat /\ N > 0 /\ N \in 1..N
  BY <1>1
<1> HIDE DEF N, G, desired
<1>4. CASE t = b
  <2>1. Traces(b, b, Equity(b, bar))
    <3> DEFINE c == Append(b.curve, Equity(b, bar))
    <3>1. Len(c) = N + 1
      BY <1>1, <1>2, CurveGrows DEF N
    <3>2. \A n \in 1..Len(b.returns) : \E k \in 1..N : \E m \in 1..(k - 1) :
              Minus(Zero, b.returns[n]) = Fall(c[m], c[k])
      BY <1>2, OldTraces DEF N
    <3> HIDE DEF c
    <3>3. \A k \in 1..N : k \in 1..Len(c) /\ k < Len(c)
      BY <1>3, <3>1
    <3>4. \A n \in 1..Len(b.returns) : \E k \in 1..Len(c) : \E m \in 1..(k - 1) :
              Minus(Zero, b.returns[n]) = Fall(c[m], c[k]) /\ (Holds(b) => k < Len(c))
      BY <3>2, <3>3
    <3> QED
      BY <3>4 DEF Traces, c
  <2>2. Holds(b) => /\ b.position.quantity \in Prices
                    /\ \E m \in 1..N : b.curve[m] = Paid(b.position)
    <3>1. \A m \in 1..(N - 1) : m \in 1..N
      BY <1>3
    <3> QED
      BY <1>1, <3>1 DEF Bought, N
  <2>3. Settled(b, b, Equity(b, bar), G)
    BY <1>1, <1>2, <2>1, <2>2 DEF Settled, Balanced, N
  <2> QED
    BY <1>4, <2>3 DEF G, desired
<1>5. CASE t = Buy(b, bar) /\ ~Holds(b)
  <2> DEFINE u == Buy(b, bar)
             e == Equity(u, bar)
  <2>1. /\ IsBook(u) /\ Holds(u)
        /\ u.closes = b.closes /\ u.curve = b.curve /\ u.returns = b.returns /\ u.gain = b.gain
    BY <1>1, BuyDoes
  <2>2. /\ u.position.quantity \in Prices /\ Paid(u.position) = b.cash
        /\ u.costs \in Fractions
        /\ Plus(Times(u.position.quantity, Whole(bar.close)), u.costs)
           = Plus(b.cash, b.costs)
    BY <1>1, <1>5, BuyBalances
  <2>3. e = Times(u.position.quantity, Whole(bar.close)) /\ Equity(b, bar) = b.cash
    BY <1>5, <2>1 DEF Equity
  <2> HIDE DEF u, e
  <2>4. e \in Prices
    BY <2>2, <2>3, FillIsPrice, PricesCompute
  <2>5. Balanced(u, e, G)
    BY <1>2, <2>2, <2>3 DEF Balanced
  <2>6. Compounded(u.returns) = Worth(u)
    BY <1>1, <1>5, <2>1, <2>2 DEF Worth
  <2>7. Traces(b, u, e)
    <3> DEFINE c == Append(b.curve, e)
    <3>1. Len(c) = N + 1
      BY <1>1, <2>4, CurveGrows DEF N
    <3>2. \A n \in 1..Len(b.returns) : \E k \in 1..N : \E m \in 1..(k - 1) :
              Minus(Zero, b.returns[n]) = Fall(c[m], c[k])
      BY <2>4, OldTraces DEF N
    <3> HIDE DEF c
    <3>3. \A k \in 1..N : k \in 1..Len(c) /\ k < Len(c)
      BY <1>3, <3>1
    <3>4. \A n \in 1..Len(u.returns) : \E k \in 1..Len(c) : \E m \in 1..(k - 1) :
              Minus(Zero, u.returns[n]) = Fall(c[m], c[k]) /\ (Holds(u) => k < Len(c))
      BY <2>1, <3>2, <3>3
    <3> QED
      BY <3>4 DEF Traces, c
  <2>8. b.curve[N] = Paid(u.position)
    BY <1>1, <1>5, <2>2
  <2>9. \E m \in 1..N : b.curve[m] = Paid(u.position)
    BY <1>3, <2>8
  <2>10. Settled(b, u, e, G)
    BY <1>1, <2>1, <2>2, <2>4, <2>5, <2>6, <2>7, <2>9 DEF Settled, N
  <2> QED
    BY <1>5, <2>10 DEF u, e, G, desired
<1>6. CASE t = Sell(b, bar) /\ Holds(b)
  <2> DEFINE u == Sell(b, bar)
             e == Equity(u, bar)
             paid == Paid(b.position)
  <2>1. /\ IsBook(u) /\ ~Holds(u) /\ u.cash \in Prices /\ u.cash \in Fractions /\ u.costs \in Fractions
        /\ u.closes = b.closes /\ u.curve = b.curve /\ u.gain = b.gain
        /\ u.returns \in Seq(Fractions) /\ Compounded(u.returns) = u.cash
        /\ \E r : u.returns = Append(b.returns, r) /\ Minus(Zero, r) = Fall(paid, u.cash)
    BY <1>6, SellTrades
  <2>2. Plus(u.cash, u.costs) = Plus(Equity(b, bar), b.costs)
    <3>1. Equity(b, bar) = Times(b.position.quantity, Whole(bar.close))
      BY <1>6 DEF Equity
    <3>2. b.position.quantity \in Prices
      BY <1>1, <1>6 DEF Bought
    <3>3. Plus(u.cash, u.costs) = Plus(Times(b.position.quantity, Whole(bar.close)), b.costs)
      BY <1>1, <3>2, SellBalances
    <3> QED
      BY <3>1, <3>3
  <2>3. e = u.cash
    BY <2>1 DEF Equity
  <2>4. PICK r : u.returns = Append(b.returns, r) /\ Minus(Zero, r) = Fall(paid, u.cash)
    BY <2>1
  <2>5. PICK i \in 1..(N - 1) : b.curve[i] = paid
    BY <1>1, <1>6 DEF Bought, N
  <2> HIDE DEF u, e, paid
  <2>6. Traces(b, u, e)
    <3> DEFINE c == Append(b.curve, e)
    <3>1. Len(c) = N + 1 /\ c[N + 1] = e /\ \A n \in 1..N : c[n] = b.curve[n]
      BY <1>1, <2>1, <2>3, CurveGrows DEF N
    <3>2. \A n \in 1..Len(b.returns) : \E k \in 1..N : \E m \in 1..(k - 1) :
              Minus(Zero, b.returns[n]) = Fall(c[m], c[k])
      BY <2>1, <2>3, OldTraces DEF N
    <3> HIDE DEF c
    <3>3. /\ \A k \in 1..N : k \in 1..Len(c)
          /\ N + 1 \in 1..Len(c) /\ i \in 1..((N + 1) - 1) /\ i \in 1..N
      BY <1>3, <3>1
    <3>4. /\ \A n \in 1..Len(u.returns) : n \in 1..Len(b.returns) \/ n = Len(b.returns) + 1
          /\ \A n \in 1..Len(b.returns) : u.returns[n] = b.returns[n]
          /\ u.returns[Len(b.returns) + 1] = r
      BY <1>1, <2>4
    <3>5. Minus(Zero, r) = Fall(c[i], c[N + 1])
      BY <2>3, <2>4, <2>5, <3>1, <3>3
    <3>6. ASSUME NEW n \in 1..Len(u.returns)
          PROVE  \E k \in 1..Len(c) : \E m \in 1..(k - 1) :
                     Minus(Zero, u.returns[n]) = Fall(c[m], c[k])
      <4>1. CASE n \in 1..Len(b.returns)
        BY <3>2, <3>3, <3>4, <4>1
      <4>2. CASE n = Len(b.returns) + 1
        BY <3>3, <3>4, <3>5, <4>2
      <4> QED
        BY <3>4, <4>1, <4>2
    <3> QED
      BY <2>1, <3>6 DEF Traces, c
  <2>7. Settled(b, u, e, G)
    BY <1>1, <1>2, <2>1, <2>2, <2>3, <2>6 DEF Settled, Balanced, Worth
  <2> QED
    BY <1>6, <2>7 DEF u, e, G, desired
<1>7. t = b \/ (t = Buy(b, bar) /\ ~Holds(b)) \/ (t = Sell(b, bar) /\ Holds(b))
  BY DEF Traded
<1> QED
  BY <1>4, <1>5, <1>6, <1>7 DEF desired

LEMMA BarKeeps ==
    ASSUME NEW b, Accounts(b), NEW bar \in Bars
    PROVE  LET n == OnBar(b, bar)
           IN  /\ Accounts(n) /\ n.closes # <<>> /\ n.closes[Len(n.closes)] = bar.close
<1> DEFINE t == Traded(b, bar, Signal(b.closes))
           n == OnBar(b, bar)
           e == Equity(t, bar)
           G == Plus(b.gain, Drift(b, bar))
           N == Len(b.curve)
<1>1. Settled(b, t, e, G)
  BY OrderSettles
<1>2. bar.liquid \in BOOLEAN /\ bar.close \in Nat \ {0}
  BY BacktestAssumption
<1>3. IsBook(b) /\ b.curve \in Seq(Prices) /\ b.closes \in Seq(Nat \ {0})
  BY DEF Accounts
<1>4. /\ IsBook(n) /\ n.cash = t.cash /\ n.position = t.position /\ n.costs = t.costs
      /\ n.returns = t.returns /\ n.curve = Append(t.curve, e)
      /\ n.closes = Append(t.closes, bar.close) /\ n.gain = Plus(t.gain, Drift(b, bar))
  BY <1>2, <1>3, OnBarDoes, SMTT(30)
<1>5. /\ IsBook(t) /\ t.closes = b.closes /\ t.curve = b.curve /\ t.gain = b.gain
      /\ e \in Prices /\ t.costs \in Fractions /\ Plus(e, t.costs) = Plus(One, G)
      /\ t.returns \in Seq(Fractions) /\ Compounded(t.returns) = Worth(t)
      /\ Holds(t) => /\ t.position.quantity \in Prices
                     /\ \E m \in 1..N : b.curve[m] = Paid(t.position)
      /\ ~Holds(t) => t.cash \in Prices /\ t.cash \in Fractions
      /\ Traces(b, t, e)
  BY <1>1 DEF Settled, Balanced
<1>6. Holds(t) => e = Times(t.position.quantity, Whole(bar.close))
  BY DEF Equity
<1>7. ~Holds(t) => e = t.cash
  BY DEF Equity
<1>8. G \in Fractions
  BY EquityMoves
<1>9. n.gain = G
  BY <1>4, <1>5
<1> HIDE DEF t, n, e, G, N
<1>10. /\ n.curve \in Seq(Prices) /\ Len(n.curve) = N + 1 /\ n.curve[N + 1] = e /\ N \in Nat
       /\ \A k \in 1..N : n.curve[k] = b.curve[k]
  BY <1>3, <1>4, <1>5, CurveGrows DEF N
<1>11. n.curve # <<>> /\ Len(n.curve) - 1 = N
  BY <1>10
<1>12. /\ n.closes \in Seq(Nat \ {0}) /\ n.closes # <<>>
       /\ n.closes[Len(n.closes)] = bar.close
  <2>1. ASSUME NEW x \in Nat \ {0}, NEW old \in Seq(Nat \ {0}), NEW new, new = Append(old, x)
        PROVE  new \in Seq(Nat \ {0}) /\ new # <<>> /\ new[Len(new)] = x
    BY <2>1
  <2>2. n.closes = Append(b.closes, bar.close)
    BY <1>4, <1>5
  <2> QED
    BY <1>2, <1>3, <2>1, <2>2
<1>13. (Holds(n) <=> Holds(t)) /\ Worth(n) = Worth(t)
  BY <1>4 DEF Holds, Worth
<1>14. Holds(n) => Bought(n)
  <2> SUFFICES ASSUME Holds(n)
               PROVE  Bought(n)
    OBVIOUS
  <2>1. PICK m \in 1..N : b.curve[m] = Paid(n.position)
    BY <1>4, <1>5, <1>13
  <2>2. m \in 1..(Len(n.curve) - 1) /\ n.curve[m] = Paid(n.position)
    BY <1>10, <1>11, <2>1
  <2> QED
    BY <1>4, <1>5, <1>6, <1>10, <1>12, <1>13, <2>2 DEF Bought
<1>15. ~Holds(n) => n.cash \in Prices /\ n.cash \in Fractions /\ n.curve[Len(n.curve)] = n.cash
  BY <1>4, <1>5, <1>7, <1>10, <1>13
<1>16. Explained(n)
  <2>1. n.curve = Append(b.curve, e) /\ n.returns = t.returns
    BY <1>4, <1>5
  <2> QED
    BY <1>5, <1>13, <2>1 DEF Traces, Explained
<1>17. Balanced(n, n.curve[Len(n.curve)], n.gain)
  BY <1>4, <1>5, <1>9, <1>10 DEF Balanced
<1>18. Accounts(n)
  BY <1>4, <1>5, <1>8, <1>9, <1>10, <1>11, <1>12, <1>13, <1>14, <1>15, <1>16, <1>17 DEF Accounts
<1> QED
  BY <1>12, <1>18 DEF n

LEMMA LastSaleKeeps ==
    ASSUME NEW b, Accounts(b), NEW bar \in Bars, b.closes # <<>>,
           b.closes[Len(b.closes)] = bar.close
    PROVE  Accounts(Liquidated(b, bar)) /\ ~Holds(Liquidated(b, bar))
<1>1. CASE ~Holds(b)
  BY <1>1 DEF Liquidated
<1>2. CASE Holds(b)
  <2> DEFINE s == Sell(b, bar)
             N == Len(b.curve)
             c == [b.curve EXCEPT ![N] = s.cash]
             n == [s EXCEPT !.curve[Len(s.curve)] = s.cash]
             paid == Paid(b.position)
  <2>1. /\ b.curve \in Seq(Prices) /\ b.curve # <<>> /\ b.closes \in Seq(Nat \ {0})
        /\ b.returns \in Seq(Fractions) /\ b.costs \in Fractions /\ b.gain \in Fractions
        /\ IsBook(b) /\ Bought(b) /\ Explained(b)
        /\ Plus(b.curve[N], b.costs) = Plus(One, b.gain)
    BY <1>2 DEF Accounts, Balanced
  <2>2. /\ IsBook(s) /\ ~Holds(s) /\ s.cash \in Prices /\ s.cash \in Fractions /\ s.costs \in Fractions
        /\ s.closes = b.closes /\ s.curve = b.curve /\ s.gain = b.gain
        /\ s.returns \in Seq(Fractions) /\ Compounded(s.returns) = s.cash
        /\ \E r : s.returns = Append(b.returns, r) /\ Minus(Zero, r) = Fall(paid, s.cash)
    BY <1>2, SellTrades
  <2>3. Plus(s.cash, s.costs) = Plus(One, b.gain)
    <3>1. b.position.quantity \in Prices
          /\ b.curve[N] = Times(b.position.quantity, Whole(bar.close))
      BY <2>1 DEF Bought
    <3>2. Plus(s.cash, s.costs) = Plus(Times(b.position.quantity, Whole(bar.close)), b.costs)
      BY <2>1, <3>1, SellBalances
    <3> QED
      BY <2>1, <3>1, <3>2
  <2>4. PICK r : s.returns = Append(b.returns, r) /\ Minus(Zero, r) = Fall(paid, s.cash)
    BY <2>2
  <2>5. PICK i \in 1..(N - 1) : b.curve[i] = paid
    BY <2>1 DEF Bought
  <2>6. Liquidated(b, bar) = n
    BY <1>2 DEF Liquidated
  <2> HIDE DEF s, paid
  <2>7. /\ IsBook(n) /\ n.curve = c /\ n.cash = s.cash /\ n.costs = s.costs /\ n.gain = s.gain
        /\ n.closes = s.closes /\ n.returns = s.returns /\ n.position = s.position
    BY <2>2 DEF IsBook, Fields
  <2> HIDE DEF n
  <2>8. /\ N \in Nat /\ N > 0 /\ c \in Seq(Prices) /\ Len(c) = N /\ c # <<>> /\ c[N] = s.cash
        /\ \A k \in 1..(N - 1) : c[k] = b.curve[k]
    BY <2>1, <2>2
  <2> HIDE DEF c, N
  <2>9. ~Holds(n) /\ Worth(n) = s.cash
    BY <2>2, <2>7 DEF Holds, Worth
  <2>10. Explained(n)
    <3>1. ASSUME NEW j \in 1..Len(b.returns)
          PROVE  \E k \in 1..N : \E m \in 1..(k - 1) :
                     Minus(Zero, b.returns[j]) = Fall(c[m], c[k])
      <4>1. PICK k \in 1..N : \E m \in 1..(k - 1) :
                     /\ Minus(Zero, b.returns[j]) = Fall(b.curve[m], b.curve[k])
                     /\ k < N
        BY <1>2, <2>1 DEF Explained, N
      <4>2. PICK m \in 1..(k - 1) : Minus(Zero, b.returns[j]) = Fall(b.curve[m], b.curve[k]) /\ k < N
        BY <4>1
      <4>3. k \in 1..(N - 1) /\ m \in 1..(N - 1)
        BY <2>8, <4>2
      <4>4. c[m] = b.curve[m] /\ c[k] = b.curve[k]
        BY <2>8, <4>3
      <4> QED
        BY <4>2, <4>4
    <3>2. /\ \A j \in 1..Len(s.returns) : j \in 1..Len(b.returns) \/ j = Len(b.returns) + 1
          /\ \A j \in 1..Len(b.returns) : s.returns[j] = b.returns[j]
          /\ s.returns[Len(b.returns) + 1] = r
      BY <2>1, <2>4
    <3>3. Minus(Zero, r) = Fall(c[i], c[N]) /\ N \in 1..N
      BY <2>4, <2>5, <2>8
    <3>4. ASSUME NEW j \in 1..Len(s.returns)
          PROVE  \E k \in 1..N : \E m \in 1..(k - 1) :
                     Minus(Zero, s.returns[j]) = Fall(c[m], c[k])
      <4>1. CASE j \in 1..Len(b.returns)
        BY <3>1, <3>2, <4>1
      <4>2. CASE j = Len(b.returns) + 1
        BY <3>2, <3>3, <4>2
      <4> QED
        BY <3>2, <4>1, <4>2
    <3> QED
      BY <2>7, <2>8, <2>9, <3>4 DEF Explained
  <2>11. Balanced(n, n.curve[Len(n.curve)], n.gain)
    BY <2>2, <2>3, <2>7, <2>8 DEF Balanced
  <2>12. Accounts(n)
    BY <2>1, <2>2, <2>7, <2>8, <2>9, <2>10, <2>11 DEF Accounts
  <2> QED
    BY <2>6, <2>9, <2>12
<1> QED
  BY <1>1, <1>2

LEMMA AccountsInvariant ==
    BacktestSpec => [](Accounts(book) /\ (phase = "done" => ~Holds(book)))
<1> DEFINE Inv1 == Accounts(book) /\ (phase = "done" => ~Holds(book))
<1>1. BacktestInit => Inv1
  <2> SUFFICES ASSUME BacktestInit
               PROVE  Inv1
    OBVIOUS
  <2>1. /\ book.cash = One /\ book.position = NoPosition /\ book.closes = <<>>
        /\ book.curve = <<One>> /\ book.returns = <<>> /\ book.costs = Zero /\ book.gain = Zero
        /\ IsBook(book) /\ phase = "idle"
    BY DEF BacktestInit, NewBook, IsBook, Fields
  <2>2. One \in Prices /\ One \in Fractions /\ Zero \in Fractions
    BY ZeroAndOne, FractionsAre
  <2>3. ~Holds(book) /\ Worth(book) = One
    BY <2>1 DEF Holds, Worth
  <2>4. Compounded(<<>>) = One
    <3>1. <<>> \in Seq(Fractions) /\ Len(<<>>) = 0
      OBVIOUS
    <3> QED
      BY <3>1, CompoundedRuns
  <2> HIDE DEF One, Zero
  <2>5. /\ <<One>> \in Seq(Prices) /\ <<One>> # <<>> /\ Len(<<One>>) = 1 /\ <<One>>[1] = One
        /\ <<>> \in Seq(Fractions) /\ <<>> \in Seq(Nat \ {0})
    BY <2>2
  <2>6. Explained(book)
    BY <2>1 DEF Explained
  <2> QED
    BY <2>1, <2>2, <2>3, <2>4, <2>5, <2>6 DEF Accounts, Balanced
<1>2. ASSUME Inv1, [BacktestNext]_backtestVars
      PROVE  Inv1'
  <2>1. CASE UNCHANGED backtestVars
    BY <1>2, <2>1 DEF backtestVars, Accounts, IsBook, Balanced, Holds, Bought, Explained, Worth
  <2>2. CASE StartBacktest
    <3>1. book' = book /\ phase' = "running"
      BY <2>2 DEF StartBacktest
    <3> QED
      BY <1>2, <3>1
  <2>3. CASE TurnLoop
    <3>1. PICK bar \in Bars : book' = OnBar(book, bar)
      BY <2>3 DEF TurnLoop
    <3>2. phase' # "done"
      BY <2>3 DEF TurnLoop
    <3>3. Accounts(OnBar(book, bar))
      BY <1>2, BarKeeps
    <3> QED
      BY <3>1, <3>2, <3>3
  <2>4. CASE LastBar
    <3>1. PICK bar \in Bars : book' = Liquidated(OnBar(book, bar), bar)
      BY <2>4 DEF LastBar
    <3>2. /\ Accounts(OnBar(book, bar)) /\ OnBar(book, bar).closes # <<>>
          /\ OnBar(book, bar).closes[Len(OnBar(book, bar).closes)] = bar.close
      BY <1>2, BarKeeps
    <3>3. Accounts(book') /\ ~Holds(book')
      BY <3>1, <3>2, LastSaleKeeps
    <3> QED
      BY <3>3
  <2> QED
    BY <1>2, <2>1, <2>2, <2>3, <2>4 DEF BacktestNext
<1> QED
  BY <1>1, <1>2, PTL DEF BacktestSpec

\* At every bar of every backtest the equity and total_costs make up the capital and what
\* the closes moved the positions, whatever is bought and sold at which fee, slippage and
\* spread, the last sale included (trading_engine/backtest.py l.94-150).
THEOREM CostsAddUp == BacktestSpec => []CostsExplain
<1>1. Accounts(book) => CostsExplain
  BY DEF Accounts, Balanced, CostsExplain
<1> QED
  BY <1>1, AccountsInvariant, PTL

\* When a backtest is done, its trades and its curve tell the same story: nothing is held,
\* the returns compound to the total return, and no trade lost more than the maximum
\* drawdown, since each was made between two points of the curve (l.130-177).
THEOREM TradesMatchCurve == BacktestSpec => []TradesInCurve
<1>1. Accounts(book) /\ (phase = "done" => ~Holds(book)) => TradesInCurve
  <2> SUFFICES ASSUME Accounts(book), phase = "done" => ~Holds(book), phase = "done"
               PROVE  /\ ~Holds(book)
                      /\ Compounded(book.returns) = book.curve[Len(book.curve)]
                      /\ \A n \in DOMAIN book.returns :
                            ~Less(MaximumDrawdown(book.curve), Minus(Zero, book.returns[n]))
    BY DEF TradesInCurve
  <2>1. ~Holds(book)
    OBVIOUS
  <2>2. /\ Compounded(book.returns) = book.cash /\ book.curve[Len(book.curve)] = book.cash
        /\ book.curve \in Seq(Prices) /\ book.curve # <<>> /\ Explained(book)
        /\ DOMAIN book.returns = 1..Len(book.returns)
    BY <2>1 DEF Accounts, Worth
  <2>3. Bounded(book.curve, MaximumDrawdown(book.curve), Len(book.curve))
    BY <2>2, DeepestFound DEF DeepInv
  <2>4. ASSUME NEW n \in 1..Len(book.returns)
        PROVE  ~Less(MaximumDrawdown(book.curve), Minus(Zero, book.returns[n]))
    <3>1. PICK k \in 1..Len(book.curve) : \E m \in 1..(k - 1) :
              Minus(Zero, book.returns[n]) = Fall(book.curve[m], book.curve[k])
      BY <2>2 DEF Explained
    <3>2. PICK m \in 1..(k - 1) : Minus(Zero, book.returns[n]) = Fall(book.curve[m], book.curve[k])
      BY <3>1
    <3>3. m \in 1..k
      OBVIOUS
    <3> QED
      BY <2>3, <3>2, <3>3 DEF Bounded
  <2> QED
    BY <2>1, <2>2, <2>4
<1> QED
  BY <1>1, AccountsInvariant, PTL
=============================================================================
