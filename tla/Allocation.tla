----------------------------- MODULE Allocation -----------------------------
(***************************************************************************)
(* recommend_allocation (src/irma/domain/recommendation.py, l.128-285):    *)
(* the rules that turn a profile into percentages and amounts.  They all   *)
(* change one dictionary, one after the other; each action is one rule, or *)
(* one pass of the loop of _transfer that a rule has started.              *)
(***************************************************************************)
EXTENDS Integers, Sequences

CONSTANTS
    Base,       \* BASE_ALLOCATIONS, by risk tolerance
    Minimum,    \* MINIMUM_EXECUTABLE_TOMAN, for the categories that have one
    Profiles    \* the profiles that are submitted

Categories == {"cash", "fixed_income", "gold", "equity_index", "mixed_fund", "short_term"}
Optional == Categories \ {"cash", "fixed_income"}
Allocations == [Categories -> 0..100]

Sum(a) == a["cash"] + a["fixed_income"] + a["gold"] + a["equity_index"]
              + a["mixed_fund"] + a["short_term"]

\* What the rules read of an InvestorProfile: "months" is HORIZON_MONTHS of the
\* horizon, "drawdown" a percentage; "novice" and "tradingNovice" say that the
\* experience is none or beginner.  The capital is a whole number of tomans.
Profile == [risk: DOMAIN Base, liquidity: {"low", "medium", "high"}, emergency: BOOLEAN,
            income: BOOLEAN, months: Nat, drawdown: 0..100, trading: BOOLEAN,
            maxTrading: 0..20, tradingNovice: BOOLEAN, novice: BOOLEAN,
            passive: BOOLEAN, capital: Nat]

ASSUME AllocationAssumption ==
    /\ \A r \in DOMAIN Base : Base[r] \in Allocations /\ Sum(Base[r]) = 100
    /\ Minimum \in [Optional -> Nat]
    /\ Profiles \subseteq Profile

VARIABLES
    profile,
    allocations,
    rule,        \* the rule that comes next
    remaining,   \* of _transfer: what is still to be moved,
    sources,     \* the categories it may still take from
    target,      \* and where it goes
    amounts      \* amount_toman of the items

vars == <<profile, allocations, rule, remaining, sources, target, amounts>>

Rules == {"liquidity", "emergency", "income", "horizon", "drawdown", "trading",
          "passive", "minimums", "amounts", "done", "raised"}

TypeOK ==
    /\ profile \in Profiles
    /\ allocations \in Allocations
    /\ rule \in Rules
    /\ remaining \in 0..100
    /\ sources \in Seq(Categories)
    /\ target \in {"cash", "fixed_income"}
    /\ \A n \in DOMAIN sources : sources[n] # target
    /\ amounts \in [Categories -> Int]

Init ==
    /\ profile \in Profiles
    /\ allocations = Base[profile.risk]
    /\ rule = "liquidity"
    /\ remaining = 0
    /\ sources = <<>>
    /\ target = "cash"
    /\ amounts = [c \in Categories |-> 0]

(***************************************************************************)
(* _transfer.                                                              *)
(***************************************************************************)
Lesser(m, n) == IF m < n THEN m ELSE n
Excess(n, cap) == IF n > cap THEN n - cap ELSE 0
Transferring == remaining > 0 /\ sources # <<>>

\* Mutant of Moved: the source may be overdrawn.
Moved_Overdrawn(s) == remaining
Moved(s) == Lesser(allocations[s], remaining)

MoveFrom(s) ==
    /\ Transferring
    /\ s = Head(sources)
    /\ allocations' = [allocations EXCEPT ![s] = @ - Moved(s), ![target] = @ + Moved(s)]
    /\ remaining' = remaining - Moved(s)
    /\ sources' = Tail(sources)
    /\ UNCHANGED <<profile, rule, target, amounts>>

\* A rule calls _transfer.
At(r) == rule = r /\ ~Transferring
Transfer(amount, from, to) ==
    /\ remaining' = amount
    /\ sources' = from
    /\ target' = to
    /\ UNCHANGED <<profile, allocations, amounts>>
NoTransfer == UNCHANGED <<profile, allocations, remaining, sources, target, amounts>>
Then(r) == rule' = r

(***************************************************************************)
(* The rules.                                                              *)
(***************************************************************************)
LiquidityRule ==
    /\ At("liquidity")
    /\ Then("emergency")
    /\ \/ /\ profile.liquidity = "high"
          /\ Transfer(10, <<"short_term", "equity_index", "gold">>, "cash")
       \/ /\ profile.liquidity = "medium"
          /\ Transfer(5, <<"short_term", "equity_index">>, "cash")
       \/ profile.liquidity = "low" /\ NoTransfer

EmergencyRule ==
    /\ At("emergency")
    /\ Then("income")
    /\ IF profile.emergency
       THEN NoTransfer
       ELSE Transfer(5, <<"short_term", "equity_index", "gold">>, "cash")

IncomeRule ==
    /\ At("income")
    /\ Then("horizon")
    /\ IF profile.income
       THEN Transfer(10, <<"short_term", "equity_index", "mixed_fund", "gold">>, "fixed_income")
       ELSE NoTransfer

HorizonRule ==
    /\ At("horizon")
    /\ Then("drawdown")
    /\ \/ /\ profile.months <= 6
          /\ Transfer(25, <<"short_term", "equity_index", "mixed_fund", "gold">>, "fixed_income")
       \/ /\ profile.months \in 7..12
          /\ Transfer(10, <<"short_term", "equity_index">>, "fixed_income")
       \/ profile.months > 12 /\ NoTransfer

Risky == allocations["equity_index"] + allocations["mixed_fund"] + allocations["short_term"]

\* Mutant of CapRisk: the short-term share is not taken from.
CapRisk_NotShortTerm(cap) ==
    Transfer(Excess(Risky, cap), <<"equity_index", "mixed_fund">>, "fixed_income")
CapRisk(cap) ==
    Transfer(Excess(Risky, cap), <<"short_term", "equity_index", "mixed_fund">>, "fixed_income")

DrawdownRule ==
    /\ At("drawdown")
    /\ Then("trading")
    /\ \/ profile.drawdown <= 10 /\ CapRisk(10)
       \/ profile.drawdown \in 11..20 /\ CapRisk(30)
       \/ profile.drawdown > 20 /\ NoTransfer

\* Mutant of TradingCap: the profile's wish counts, its experience does not.
TradingCap_Wished == IF profile.trading THEN profile.maxTrading ELSE 0
TradingCap ==
    LET wanted == IF profile.trading THEN profile.maxTrading ELSE 0
        traded == IF profile.tradingNovice THEN Lesser(wanted, 3) ELSE wanted
    IN  IF profile.novice THEN Lesser(traded, 5) ELSE traded

Shift(n, from, to) ==
    /\ allocations' = [allocations EXCEPT ![from] = @ - n, ![to] = @ + n]
    /\ UNCHANGED <<profile, remaining, sources, target, amounts>>

TradingRule ==
    /\ At("trading")
    /\ Then("passive")
    /\ Shift(Excess(allocations["short_term"], TradingCap), "short_term", "fixed_income")

PassiveRule ==
    /\ At("passive")
    /\ Then("minimums")
    /\ IF profile.passive
       THEN Shift(allocations["short_term"], "short_term", "equity_index")
       ELSE NoTransfer

\* _enforce_minimums.
TooSmall(c) == profile.capital * allocations[c] < 100 * Minimum[c]
Kept(c) == IF c \in Optional /\ TooSmall(c) THEN 0 ELSE allocations[c]

\* Mutant of MinimumsRule: what is taken away goes nowhere.
MinimumsRule_Lost ==
    /\ At("minimums")
    /\ Then("amounts")
    /\ allocations' = [c \in Categories |-> Kept(c)]
    /\ UNCHANGED <<profile, remaining, sources, target, amounts>>
MinimumsRule ==
    /\ At("minimums")
    /\ Then("amounts")
    /\ LET kept == [c \in Categories |-> Kept(c)]
       IN  allocations' = [kept EXCEPT !["fixed_income"] = @ + Sum(allocations) - Sum(kept)]
    /\ UNCHANGED <<profile, remaining, sources, target, amounts>>

\* quantize(1, ROUND_HALF_UP) of a percentage of the capital; the last category
\* gets what is left.
Rounded(c) == (profile.capital * allocations[c] + 50) \div 100
Assigned == Rounded("cash") + Rounded("fixed_income") + Rounded("gold")
                + Rounded("equity_index") + Rounded("mixed_fund")

Amount(c) == IF c = "short_term" THEN profile.capital - Assigned ELSE Rounded(c)

\* AllocationItem.amount_toman is ge=0 (l.88).
\* Mutant of Accepted: the field has no bound.
Accepted_Any == TRUE
Accepted == \A c \in Categories : Amount(c) >= 0

AssignAmounts ==
    /\ At("amounts")
    /\ Accepted
    /\ Then("done")
    /\ amounts' = [c \in Categories |-> Amount(c)]
    /\ UNCHANGED <<profile, allocations, remaining, sources, target>>

\* The item of the last category raises ValidationError: there is no answer.
AmountRefused ==
    /\ At("amounts")
    /\ ~Accepted
    /\ Then("raised")
    /\ NoTransfer

Done == rule \in {"done", "raised"} /\ UNCHANGED vars

ApplyRule ==
    \/ LiquidityRule \/ EmergencyRule \/ IncomeRule \/ HorizonRule \/ DrawdownRule
    \/ TradingRule \/ PassiveRule \/ MinimumsRule \/ AssignAmounts
    \/ AmountRefused
Next == (\E s \in Categories : MoveFrom(s)) \/ ApplyRule \/ Done
Spec == Init /\ [][Next]_vars

(***************************************************************************)
(* Properties.                                                             *)
(***************************************************************************)
\* After every move of every rule the percentages add up to 100; TypeOK says
\* that none is negative (validate_total, recommendation-methodology.md l.5).
SumsTo100 == Sum(allocations) = 100

\* The cap on growth and trading for a small tolerated drawdown, at l.197-215,
\* still holds when the later rules have moved percentages around.
DrawdownRespected ==
    rule = "done" =>
        /\ profile.drawdown <= 10 => Risky <= 10
        /\ profile.drawdown <= 20 => Risky <= 30

\* Nobody gets more short-term trading than the wish and the experience allow,
\* and a passive investor gets none (l.217-234).
TradingRespected ==
    rule = "done" =>
        /\ allocations["short_term"] > 0 =>
              /\ profile.trading /\ ~profile.passive
              /\ allocations["short_term"] <= profile.maxTrading
        /\ profile.tradingNovice => allocations["short_term"] <= 3
        /\ profile.novice => allocations["short_term"] <= 5

\* Every part that can be too small is empty or executable (l.142-152).
Executable ==
    rule = "done" =>
        \A c \in Optional : allocations[c] > 0 =>
            profile.capital * allocations[c] >= 100 * Minimum[c]

\* What is paid into each part: no amount is negative, they add up to the capital,
\* each part is executable, and its amount is its percentage of the capital, up to
\* half a toman for five categories and up to the five roundings for the last one
\* (l.246-256, l.88).  A profile goes without an answer only when the roundings of
\* the others leave the last category below zero, which is when it has next to
\* nothing.
Payable ==
    /\ Executable
    /\ rule = "done" =>
          /\ Sum(amounts) = profile.capital
          /\ \A c \in Categories :
                LET error == 100 * amounts[c] - profile.capital * allocations[c]
                    bound == IF c = "short_term" THEN 250 ELSE 50
                IN  amounts[c] >= 0 /\ -bound <= error /\ error <= bound
    /\ rule = "raised" => profile.capital * allocations["short_term"] < 250
=============================================================================
