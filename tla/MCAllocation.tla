---------------------------- MODULE MCAllocation ----------------------------
(* Instances of Allocation for TLC: the tables of the code and the profiles *)
(* on both sides of every comparison the rules make.                        *)
EXTENDS Allocation

Shares(cash, fixed, gold, equity, mixed, short) ==
    [c \in Categories |->
        CASE c = "cash" -> cash [] c = "fixed_income" -> fixed [] c = "gold" -> gold
          [] c = "equity_index" -> equity [] c = "mixed_fund" -> mixed
          [] c = "short_term" -> short]
BaseTable == [r \in {"conservative", "moderate", "aggressive"} |->
    CASE r = "conservative" -> Shares(15, 60, 15, 5, 5, 0)
      [] r = "moderate" -> Shares(10, 40, 20, 20, 5, 5)
      [] r = "aggressive" -> Shares(5, 20, 15, 40, 5, 15)]
MinimumTable == [c \in Optional |-> IF c = "short_term" THEN 500000 ELSE 100000]

ProfilesOf(capitals, tradings) ==
    [risk: DOMAIN BaseTable, liquidity: {"low", "medium", "high"}, emergency: BOOLEAN,
     income: BOOLEAN, months: {6, 12, 24}, drawdown: {10, 20, 21}, trading: BOOLEAN,
     maxTrading: tradings, tradingNovice: BOOLEAN, novice: BOOLEAN, passive: BOOLEAN,
     capital: capitals]
\* The smallest capital and one at which every part is executable.
AllProfiles == ProfilesOf({1000000, 20000037}, {0, 4, 20})
=============================================================================
