-------------------------- MODULE AllocationProofs --------------------------
(***************************************************************************)
(* Proofs about Allocation, for every table of base allocations that adds  *)
(* up to 100, every table of minimums and every set of profiles.           *)
(***************************************************************************)
EXTENDS Allocation, TLAPS

\* Once the trading rule has been applied nothing is being transferred, and no
\* rule gives to short-term trading.
Late == {"passive", "minimums", "amounts", "done", "raised"}
Capped ==
    rule \in Late =>
        /\ ~Transferring
        /\ allocations["short_term"] <= TradingCap
        /\ rule # "passive" /\ profile.passive => allocations["short_term"] = 0
\* Once the small parts have been removed they stay removed.
Enforced ==
    rule \in {"amounts", "done"} =>
        \A c \in Optional : allocations[c] = 0 \/ ~TooSmall(c)

Inv == TypeOK /\ SumsTo100 /\ Capped /\ Enforced

(***************************************************************************)
(* Arithmetic.                                                             *)
(***************************************************************************)
\* Non-negative shares that add up to 100 are percentages.
LEMMA SharesArePercentages ==
    ASSUME NEW a \in [Categories -> Int],
           \A c \in Categories : a[c] >= 0,
           Sum(a) = 100
    PROVE  a \in Allocations
<1>1. \A c \in Categories : a[c] \in 0..100
  BY SMTT(20) DEF Categories, Sum
<1> QED
  BY <1>1 DEF Allocations

\* Changing one share changes the sum by as much.
LEMMA SumChanges ==
    ASSUME NEW a \in [Categories -> Int], NEW b \in [Categories -> Int],
           NEW s \in Categories, NEW k \in Int,
           b[s] = a[s] + k,
           \A c \in Categories \ {s} : b[c] = a[c]
    PROVE  Sum(b) = Sum(a) + k
  BY DEF Sum, Categories

\* Moving a part of one share to another one keeps the sum (_transfer and the
\* rules that move by hand).
LEMMA MoveKeepsSum ==
    ASSUME NEW a \in Allocations, Sum(a) = 100,
           NEW s \in Categories, NEW t \in Categories, s # t,
           NEW n \in 0..100, n <= a[s],
           NEW b \in [Categories -> Int],
           b[s] = a[s] - n,
           b[t] = a[t] + n,
           \A c \in Categories \ {s, t} : b[c] = a[c]
    PROVE  b \in Allocations /\ Sum(b) = 100
<1> DEFINE less == [a EXCEPT ![s] = @ - n]
<1>1. a \in [Categories -> Int] /\ \A c \in Categories : a[c] \in 0..100
  BY DEF Allocations
<1>2. /\ less \in [Categories -> Int]
      /\ less[s] = a[s] + (-n)
      /\ \A c \in Categories \ {s} : less[c] = a[c]
  BY <1>1
<1>3. /\ b[t] = less[t] + n
      /\ \A c \in Categories \ {t} : b[c] = less[c]
  BY <1>1
<1>4. \A c \in Categories : b[c] >= 0
  BY <1>1
<1> HIDE DEF less
<1>5. Sum(less) = Sum(a) + (-n)
  BY <1>1, <1>2, SumChanges, -n \in Int
<1>6. Sum(b) = Sum(less) + n
  BY <1>2, <1>3, SumChanges, n \in Int
<1>7. Sum(b) = 100
  BY <1>5, <1>6
<1> QED
  BY <1>4, <1>7, SharesArePercentages

\* Removing small parts and giving them to fixed income keeps the sum
\* (_enforce_minimums).
LEMMA MinimumsKeepSum ==
    ASSUME TypeOK, SumsTo100, MinimumsRule
    PROVE  allocations' \in Allocations /\ Sum(allocations)' = 100
<1> DEFINE kept == [c \in Categories |-> Kept(c)]
           rest == Sum(allocations) - Sum(kept)
<1>1. /\ \A c \in Categories : allocations[c] \in 0..100
      /\ \A c \in Categories : Kept(c) \in {0, allocations[c]}
  BY DEF TypeOK, Allocations, Kept
<1>2. kept \in [Categories -> Int] /\ \A c \in Categories : kept[c] \in {0, allocations[c]}
  BY <1>1
<1>3. allocations' = [kept EXCEPT !["fixed_income"] = @ + Sum(allocations) - Sum(kept)]
  BY DEF MinimumsRule
<1> HIDE DEF kept
<1>4. \A c \in Categories :
         allocations[c] \in Int /\ kept[c] \in Int /\ 0 <= kept[c] /\ kept[c] <= allocations[c]
  BY <1>1, <1>2
<1>5. Sum(kept) \in Int /\ Sum(kept) <= Sum(allocations) /\ Sum(allocations) \in Int
  BY <1>4 DEF Sum, Categories
<1>6. rest \in Nat /\ Sum(kept) \in Int /\ Sum(allocations) = 100
  BY <1>5 DEF SumsTo100
<1>7. kept["fixed_income"] \in Int /\ "fixed_income" \in Categories
  BY <1>2 DEF Categories
<1>8. kept["fixed_income"] + Sum(allocations) - Sum(kept) = kept["fixed_income"] + rest
  BY <1>6, <1>7
<1>9. /\ allocations' \in [Categories -> Int]
      /\ allocations'["fixed_income"] = kept["fixed_income"] + rest
      /\ \A c \in Categories \ {"fixed_income"} : allocations'[c] = kept[c]
      /\ "fixed_income" \in Categories
  BY <1>2, <1>3, <1>6, <1>7, <1>8
<1>10. \A c \in Categories : allocations'[c] >= 0
  BY <1>1, <1>2, <1>6, <1>9
<1> HIDE DEF rest
<1>11. Sum(allocations') = Sum(kept) + rest
  BY <1>2, <1>6, <1>9, SumChanges
<1>12. Sum(allocations') = 100
  BY <1>6, <1>11 DEF rest
<1> QED
  BY <1>9, <1>10, <1>12, SharesArePercentages

\* Init => Inv and Inv /\ [Next]_vars => Inv'.
LEMMA InitInv == Init => Inv
<1> SUFFICES ASSUME Init PROVE Inv
  OBVIOUS
<1>1. allocations \in Allocations /\ Sum(allocations) = 100
  BY AllocationAssumption DEF Init, Profile
<1>2. TypeOK
  BY <1>1 DEF Init, TypeOK, Rules
<1>3. Capped /\ Enforced
  BY DEF Init, Capped, Enforced, Late
<1> QED
  BY <1>1, <1>2, <1>3 DEF Inv, SumsTo100

\* What the rules compute with.
LEMMA ProfileTypes ==
    ASSUME TypeOK
    PROVE  /\ profile.maxTrading \in Nat
           /\ profile.capital \in Nat
           /\ profile.drawdown \in Nat
           /\ profile.months \in Nat
           /\ profile.liquidity \in {"low", "medium", "high"}
<1>1. profile \in Profile
  BY AllocationAssumption DEF TypeOK
<1> QED
  BY <1>1 DEF Profile

\* The cap is a number that profiles bound (l.217-223).
LEMMA LesserIsLess ==
    ASSUME NEW m \in Nat, NEW n \in Nat
    PROVE  Lesser(m, n) \in Nat /\ Lesser(m, n) <= m /\ Lesser(m, n) <= n
  BY DEF Lesser

LEMMA CapIsBounded ==
    ASSUME TypeOK
    PROVE  /\ TradingCap \in Nat
           /\ TradingCap <= profile.maxTrading
           /\ ~profile.trading => TradingCap = 0
           /\ profile.tradingNovice => TradingCap <= 3
           /\ profile.novice => TradingCap <= 5
<1> DEFINE wanted == IF profile.trading THEN profile.maxTrading ELSE 0
           traded == IF profile.tradingNovice THEN Lesser(wanted, 3) ELSE wanted
<1>1. profile.maxTrading \in Nat
  BY ProfileTypes
<1>2. wanted \in Nat /\ wanted <= profile.maxTrading /\ (~profile.trading => wanted = 0)
  BY <1>1
<1> HIDE DEF wanted
<1>3. /\ traded \in Nat /\ traded <= wanted
      /\ profile.tradingNovice => traded <= 3
  BY <1>2, LesserIsLess
<1>4. TradingCap = IF profile.novice THEN Lesser(traded, 5) ELSE traded
  BY DEF TradingCap, wanted
<1> HIDE DEF traded
<1>5. /\ TradingCap \in Nat /\ TradingCap <= traded
      /\ profile.novice => TradingCap <= 5
  BY <1>3, <1>4, LesserIsLess
<1> QED
  BY <1>1, <1>2, <1>3, <1>5

\* The rules that move by hand: n of what "from" has goes to "to".
LEMMA ShiftKeepsInv ==
    ASSUME TypeOK, SumsTo100,
           NEW from \in Categories, NEW to \in Categories, from # to,
           NEW n \in 0..100, n <= allocations[from],
           Shift(n, from, to), rule' \in Rules
    PROVE  TypeOK' /\ SumsTo100'
<1>1. allocations \in [Categories -> 0..100]
  BY DEF TypeOK, Allocations
<1>2. allocations' = [allocations EXCEPT ![from] = @ - n, ![to] = @ + n]
  BY DEF Shift
<1>3. /\ allocations' \in [Categories -> Int]
      /\ allocations'[from] = allocations[from] - n
      /\ allocations'[to] = allocations[to] + n
      /\ \A c \in Categories \ {from, to} : allocations'[c] = allocations[c]
  BY <1>1, <1>2
<1>4. allocations \in Allocations /\ Sum(allocations) = 100
  BY DEF TypeOK, SumsTo100
<1>5. allocations' \in Allocations /\ Sum(allocations') = 100
  BY <1>3, <1>4, MoveKeepsSum, SMTT(20)
<1>6. UNCHANGED <<profile, remaining, sources, target, amounts>>
  BY DEF Shift
<1> QED
  BY <1>5, <1>6 DEF TypeOK, SumsTo100

\* The four lists of sources that the rules use.
Sources(to) == {from \in Seq(Categories) : \A i \in DOMAIN from : from[i] # to}
LEMMA SourcesOk ==
    ASSUME NEW to \in {"cash", "fixed_income"}
    PROVE  /\ <<"short_term", "equity_index", "gold">> \in Sources(to)
           /\ <<"short_term", "equity_index">> \in Sources(to)
           /\ <<"short_term", "equity_index", "mixed_fund">> \in Sources(to)
           /\ <<"short_term", "equity_index", "mixed_fund", "gold">> \in Sources(to)
<1>1. /\ "short_term" \in Categories \ {to}
      /\ "equity_index" \in Categories \ {to}
      /\ "mixed_fund" \in Categories \ {to}
      /\ "gold" \in Categories \ {to}
  BY DEF Categories
<1> QED
  BY <1>1 DEF Sources

\* What the types say of the allocations.
LEMMA AllocationTypes ==
    ASSUME TypeOK
    PROVE  /\ allocations \in [Categories -> 0..100]
           /\ \A c \in Categories : allocations[c] \in Nat
<1>1. allocations \in [Categories -> 0..100]
  BY DEF TypeOK, Allocations
<1> QED
  BY <1>1

\* What is risky is a part of the whole.
LEMMA RiskyIsPart ==
    ASSUME NEW a \in [Categories -> Int], \A c \in Categories : a[c] >= 0, Sum(a) = 100
    PROVE  /\ a["equity_index"] + a["mixed_fund"] + a["short_term"] \in Int
           /\ a["equity_index"] + a["mixed_fund"] + a["short_term"] >= 0
           /\ a["equity_index"] + a["mixed_fund"] + a["short_term"] <= 100
<1>1. a["equity_index"] + a["mixed_fund"] + a["short_term"] \in Int
  BY DEF Categories
<1>2. a["equity_index"] + a["mixed_fund"] + a["short_term"] >= 0
  BY DEF Categories
<1>3. a["equity_index"] + a["mixed_fund"] + a["short_term"] <= 100
  BY DEF Sum, Categories
<1> QED
  BY <1>1, <1>2, <1>3

LEMMA RiskyIsShare ==
    ASSUME TypeOK, SumsTo100
    PROVE  Risky \in 0..100
<1>1. allocations \in [Categories -> Int] /\ \A c \in Categories : allocations[c] >= 0
  BY AllocationTypes
<1>2. Sum(allocations) = 100
  BY DEF SumsTo100
<1>3. Risky \in Int /\ Risky >= 0 /\ Risky <= 100
  BY <1>1, <1>2, RiskyIsPart DEF Risky
<1> QED
  BY <1>3

\* What the rules multiply.
LEMMA ProductsAreNat ==
    ASSUME NEW m \in Nat, NEW n \in Nat
    PROVE  m * n \in Nat
  OBVIOUS

LEMMA ExcessIsShare ==
    ASSUME NEW n \in 0..100, NEW cap \in Nat
    PROVE  Excess(n, cap) \in 0..100 /\ Excess(n, cap) <= n /\ n - Excess(n, cap) <= cap
  BY DEF Excess

\* The rules that start _transfer, or do nothing.
LEMMA TransferKeepsTypes ==
    ASSUME TypeOK, SumsTo100, NEW n \in 0..100,
           NEW to \in {"cash", "fixed_income"}, NEW from \in Sources(to),
           Transfer(n, from, to),
           rule' \in Rules
    PROVE  TypeOK' /\ SumsTo100'
<1>1. remaining' = n /\ sources' = from /\ target' = to
      /\ UNCHANGED <<profile, allocations, amounts>>
  BY DEF Transfer
<1>2. sources' \in Seq(Categories) /\ \A i \in DOMAIN sources' : sources'[i] # target'
  BY <1>1 DEF Sources
<1>3. TypeOK'
  BY <1>1, <1>2 DEF TypeOK
<1> QED
  BY <1>1, <1>3 DEF SumsTo100

LEMMA NoTransferKeepsTypes ==
    ASSUME TypeOK, SumsTo100, NoTransfer, rule' \in Rules
    PROVE  TypeOK' /\ SumsTo100'
  BY DEF TypeOK, SumsTo100, NoTransfer

LEMMA NextInv == Inv /\ [Next]_vars => Inv'
<1> SUFFICES ASSUME Inv, [Next]_vars PROVE Inv'
  OBVIOUS
<1> USE DEF Inv
<1>1. ASSUME NEW s \in Categories, MoveFrom(s) PROVE Inv'
  <2>1. allocations \in [Categories -> 0..100]
    BY DEF TypeOK, Allocations
  <2>2. allocations \in Allocations /\ Sum(allocations) = 100
    BY DEF TypeOK, SumsTo100
  <2>3. allocations[s] \in 0..100 /\ remaining \in 0..100
    BY DEF TypeOK, Allocations
  <2>4. Moved(s) \in 0..100 /\ Moved(s) <= allocations[s] /\ Moved(s) <= remaining
    BY <2>3 DEF Moved, Lesser
  <2>5. s # target /\ target \in Categories
    <3>1. sources \in Seq(Categories) /\ sources # <<>> /\ s = Head(sources)
          /\ \A i \in DOMAIN sources : sources[i] # target
      BY <1>1 DEF TypeOK, MoveFrom, Transferring
    <3>2. s # target
      BY <3>1
    <3> QED
      BY <3>2 DEF TypeOK, Categories
  <2>6. /\ s # target /\ target \in Categories
        /\ Moved(s) \in 0..100 /\ Moved(s) <= allocations[s] /\ Moved(s) <= remaining
    BY <2>4, <2>5
  <2> DEFINE n == Moved(s)
  <2>7. /\ allocations' \in [Categories -> Int]
        /\ allocations'[s] = allocations[s] - n
        /\ allocations'[target] = allocations[target] + n
        /\ \A c \in Categories \ {s, target} : allocations'[c] = allocations[c]
    <3>1. allocations' = [allocations EXCEPT ![s] = @ - n, ![target] = @ + n]
      BY <1>1 DEF MoveFrom
    <3>2. n \in 0..100
      BY <2>4
    <3> HIDE DEF n
    <3> QED
      BY <2>5, <2>1, <3>1, <3>2
  <2>8. n \in 0..100 /\ n <= allocations[s]
    BY <2>4
  <2> HIDE DEF n
  <2>9. allocations' \in Allocations /\ Sum(allocations') = 100
    BY <2>7, <2>8, <2>5, <2>2, MoveKeepsSum, SMTT(20)
  <2>10. /\ sources' \in Seq(Categories)
        /\ \A k \in DOMAIN sources' : sources'[k] # target
    <3>1. sources \in Seq(Categories) /\ sources # <<>> /\ sources' = Tail(sources)
          /\ \A i \in DOMAIN sources : sources[i] # target
      BY <1>1 DEF TypeOK, MoveFrom, Transferring
    <3> QED
      BY <3>1
  <2>11. TypeOK' /\ SumsTo100'
    <3>1. UNCHANGED <<profile, rule, target, amounts>> /\ remaining' = remaining - Moved(s)
      BY <1>1 DEF MoveFrom
    <3>2. remaining' \in 0..100
      BY <3>1, <2>6, <2>3
    <3> QED
      BY <2>9, <2>10, <3>1, <3>2 DEF TypeOK, SumsTo100
  <2>12. rule \notin Late /\ rule' = rule
    BY <1>1 DEF Capped, MoveFrom
  <2> QED
    BY <2>11, <2>12 DEF Capped, Enforced, Late
<1>2. CASE LiquidityRule
  <2>1. rule = "liquidity" /\ rule' = "emergency"
    BY <1>2 DEF LiquidityRule, At, Then
  <2>3. TypeOK' /\ SumsTo100'
    BY <1>2, <2>1, SourcesOk, TransferKeepsTypes, NoTransferKeepsTypes
    DEF LiquidityRule, Rules
  <2> QED
    BY <2>1, <2>3 DEF Capped, Enforced, Late
<1>3. CASE EmergencyRule
  <2>1. rule = "emergency" /\ rule' = "income"
    BY <1>3 DEF EmergencyRule, At, Then
  <2>3. TypeOK' /\ SumsTo100'
    BY <1>3, <2>1, SourcesOk, TransferKeepsTypes, NoTransferKeepsTypes
    DEF EmergencyRule, Rules
  <2> QED
    BY <2>1, <2>3 DEF Capped, Enforced, Late
<1>4. CASE IncomeRule
  <2>1. rule = "income" /\ rule' = "horizon"
    BY <1>4 DEF IncomeRule, At, Then
  <2>3. TypeOK' /\ SumsTo100'
    BY <1>4, <2>1, SourcesOk, TransferKeepsTypes, NoTransferKeepsTypes
    DEF IncomeRule, Rules
  <2> QED
    BY <2>1, <2>3 DEF Capped, Enforced, Late
<1>5. CASE HorizonRule
  <2>1. rule = "horizon" /\ rule' = "drawdown"
    BY <1>5 DEF HorizonRule, At, Then
  <2>3. TypeOK' /\ SumsTo100'
    BY <1>5, <2>1, SourcesOk, TransferKeepsTypes, NoTransferKeepsTypes
    DEF HorizonRule, Rules
  <2> QED
    BY <2>1, <2>3 DEF Capped, Enforced, Late
<1>6. CASE DrawdownRule
  <2>1. rule = "drawdown" /\ rule' = "trading"
    BY <1>6 DEF DrawdownRule, At, Then
  <2>2. Excess(Risky, 10) \in 0..100 /\ Excess(Risky, 30) \in 0..100
    BY RiskyIsShare, ExcessIsShare
  <2>3. TypeOK' /\ SumsTo100'
    BY <1>6, <2>1, <2>2, SourcesOk, TransferKeepsTypes, NoTransferKeepsTypes
    DEF DrawdownRule, Rules, CapRisk
  <2> QED
    BY <2>1, <2>3 DEF Capped, Enforced, Late
<1>7. CASE TradingRule
  <2>1. TradingCap \in Nat
    BY CapIsBounded
  <2>2. allocations["short_term"] \in 0..100
    BY DEF TypeOK, Allocations, Categories
  <2> DEFINE n == Excess(allocations["short_term"], TradingCap)
  <2>3. /\ n \in 0..100 /\ n <= allocations["short_term"]
        /\ allocations["short_term"] - n <= TradingCap
    BY <2>1, <2>2, ExcessIsShare
  <2>4. Shift(n, "short_term", "fixed_income") /\ rule' = "passive" /\ ~Transferring
    BY <1>7 DEF TradingRule, Then, At
  <2> HIDE DEF n
  <2>5. TypeOK' /\ SumsTo100'
    BY <2>3, <2>4, ShiftKeepsInv DEF Categories, Rules
  <2>6. allocations'["short_term"] = allocations["short_term"] - n /\ TradingCap' = TradingCap
    BY <2>4 DEF Shift, TypeOK, Allocations, Categories, TradingCap
  <2>7. Capped' /\ Enforced'
    BY <2>3, <2>4, <2>6 DEF Capped, Enforced, Shift, Transferring
  <2> QED
    BY <2>5, <2>7
<1>8. CASE PassiveRule
  <2>1. allocations["short_term"] \in 0..100
    BY DEF TypeOK, Allocations, Categories
  <2>2. rule = "passive" /\ rule' = "minimums" /\ UNCHANGED <<profile, remaining, sources>>
    BY <1>8 DEF PassiveRule, At, Then, NoTransfer, Shift
  <2>3. CASE profile.passive
    <3>1. Shift(allocations["short_term"], "short_term", "equity_index")
      BY <1>8, <2>3 DEF PassiveRule
    <3>2. TypeOK' /\ SumsTo100'
      BY <2>1, <2>2, <3>1, ShiftKeepsInv, SMTT(60) DEF Categories, Rules
    <3>3. allocations'["short_term"] = 0
      <4>1. allocations \in [Categories -> 0..100]
        BY DEF TypeOK, Allocations
      <4>2. allocations' = [allocations EXCEPT !["short_term"] = @ - @,
                                 !["equity_index"] = @ + allocations["short_term"]]
        BY <3>1 DEF Shift
      <4> QED
        BY <2>1, <4>1, <4>2 DEF Categories
    <3>4. TradingCap' = TradingCap /\ TradingCap >= 0
      BY <2>2, CapIsBounded DEF TradingCap
    <3> QED
      BY <2>2, <3>2, <3>3, <3>4 DEF Capped, Enforced, Late, Transferring
  <2>4. CASE ~profile.passive
    <3>1. NoTransfer
      BY <1>8, <2>4 DEF PassiveRule
    <3> QED
      BY <2>2, <2>4, <3>1
      DEF NoTransfer, TypeOK, SumsTo100, Rules, Capped, Enforced, Late, Transferring, TradingCap
  <2> QED
    BY <2>3, <2>4
<1>9. CASE MinimumsRule
  <2>1. allocations' \in Allocations /\ Sum(allocations)' = 100
    BY <1>9, MinimumsKeepSum
  <2>2. rule = "minimums" /\ rule' = "amounts"
        /\ UNCHANGED <<profile, remaining, sources, target, amounts>>
    BY <1>9 DEF MinimumsRule, At, Then
  <2>3. \A c \in Optional : allocations'[c] = Kept(c)
    BY <1>9 DEF MinimumsRule, Optional, Categories
  <2>4. TypeOK' /\ SumsTo100'
    BY <2>1, <2>2 DEF TypeOK, SumsTo100, Rules
  <2>5. allocations'["short_term"] \in {0, allocations["short_term"]}
    BY <2>3 DEF Kept, Optional, Categories
  <2>6. TradingCap' = TradingCap /\ TradingCap >= 0
    BY <2>2, CapIsBounded DEF TradingCap
  <2>7. Capped'
    BY <2>2, <2>5, <2>6 DEF Capped, Late, Transferring
  <2>8. \A c \in Optional : allocations'[c] = 0 \/ ~TooSmall(c)'
    BY <2>2, <2>3 DEF Kept, TooSmall
  <2> QED
    BY <2>4, <2>7, <2>8 DEF Enforced
<1>10. CASE AssignAmounts
  <2>1. rule = "amounts" /\ rule' = "done"
        /\ UNCHANGED <<profile, allocations, remaining, sources, target>>
    BY <1>10 DEF AssignAmounts, At, Then
  <2>2. /\ \A c \in Categories : allocations[c] \in Nat
        /\ profile.capital \in Nat
    BY ProfileTypes, AllocationTypes
  <2>3. \A c \in Categories : profile.capital * allocations[c] + 50 \in Nat
    BY <2>2, ProductsAreNat
  <2>4. \A c \in Categories : Rounded(c) \in Int
    BY <2>3 DEF Rounded
  <2>5. Assigned \in Int
    BY <2>4 DEF Assigned, Categories
  <2>6. amounts' \in [Categories -> Int]
    BY <1>10, <2>2, <2>4, <2>5 DEF AssignAmounts, Amount
  <2> QED
    BY <2>1, <2>6
    DEF TypeOK, SumsTo100, Rules, Capped, Enforced, Late, Transferring, TradingCap, TooSmall
<1>12. CASE AmountRefused
  <2>1. /\ rule = "amounts" /\ rule' = "raised"
        /\ UNCHANGED <<profile, allocations, remaining, sources, target, amounts>>
    BY <1>12 DEF AmountRefused, At, Then, NoTransfer
  <2>2. TypeOK' /\ SumsTo100'
    BY <2>1 DEF TypeOK, SumsTo100, Rules
  <2>3. Capped' /\ Enforced'
    BY <2>1 DEF Capped, Enforced, Late, Transferring, TradingCap
  <2> QED
    BY <2>2, <2>3
<1>11. CASE UNCHANGED vars
  BY <1>11
  DEF vars, TypeOK, SumsTo100, Capped, Enforced, Late, Transferring, TradingCap, TooSmall
<1> QED
  BY <1>1, <1>2, <1>3, <1>4, <1>5, <1>6, <1>7, <1>8, <1>9, <1>10, <1>11, <1>12
  DEF Next, ApplyRule, Done

LEMMA Invariant == Spec => []Inv
  BY InitInv, NextInv, PTL DEF Spec

\* Every variable keeps its type: no percentage is ever negative.
THEOREM TypeCorrect == Spec => []TypeOK
<1>1. Inv => TypeOK
  BY DEF Inv
<1> QED
  BY <1>1, Invariant, PTL

\* The percentages add up to 100 after every move of every rule, so that
\* validate_total never raises.
THEOREM AddsUp == Spec => []SumsTo100
<1>1. Inv => SumsTo100
  BY DEF Inv
<1> QED
  BY <1>1, Invariant, PTL

\* Nobody gets more short-term trading than the wish and the experience allow
\* (the trading and the passive rule).
THEOREM TradingIsCapped == Spec => []TradingRespected
<1>1. Inv => TradingRespected
  <2> SUFFICES ASSUME Inv, rule = "done" PROVE TradingRespected
    BY DEF TradingRespected
  <2>1. allocations["short_term"] \in Nat
    BY AllocationTypes DEF Inv, Categories
  <2>2. /\ allocations["short_term"] <= TradingCap
        /\ profile.passive => allocations["short_term"] = 0
    BY DEF Inv, Capped, Late
  <2>3. TypeOK /\ profile.maxTrading \in Nat
    BY ProfileTypes DEF Inv
  <2> QED
    BY <2>1, <2>2, <2>3, CapIsBounded DEF TradingRespected
<1> QED
  BY <1>1, Invariant, PTL

\* Every part that can be too small is empty or executable
\* (_enforce_minimums).
THEOREM PartsAreExecutable == Spec => []Executable
<1>1. Inv => Executable
  <2> SUFFICES ASSUME Inv, rule = "done", NEW c \in Optional, allocations[c] > 0
               PROVE  profile.capital * allocations[c] >= 100 * Minimum[c]
    BY DEF Executable
  <2>1. allocations[c] \in Nat /\ profile.capital \in Nat /\ Minimum[c] \in Nat
    BY ProfileTypes, AllocationTypes, AllocationAssumption DEF Inv, Optional
  <2>2. ~TooSmall(c)
    BY <2>1 DEF Inv, Enforced
  <2>3. profile.capital * allocations[c] \in Nat
    BY <2>1, ProductsAreNat
  <2> QED
    BY <2>1, <2>2, <2>3 DEF TooSmall
<1> QED
  BY <1>1, Invariant, PTL

(***************************************************************************)
(* The tolerated drawdown.                                                 *)
(***************************************************************************)
\* What equity, mixed funds and trading may make up, for a profile that has a cap.
RiskyCategories == {"short_term", "equity_index", "mixed_fund"}
RiskCap == IF profile.drawdown <= 10 THEN 10 ELSE 30
\* The transfer that the drawdown rule has started takes from the risky categories
\* alone, and leaves none of them behind before it ends; the later rules do not
\* add to them.
Lowered ==
    profile.drawdown <= 20 =>
        /\ rule = "trading" =>
              /\ target = "fixed_income"
              /\ \A n \in DOMAIN sources : sources[n] \in RiskyCategories
              /\ Risky - remaining <= RiskCap
              /\ remaining > 0 =>
                    \A c \in RiskyCategories :
                        allocations[c] = 0 \/ \E n \in DOMAIN sources : sources[n] = c
        /\ rule \in Late => Risky <= RiskCap

LEMMA LoweredByRule ==
    ASSUME Inv, DrawdownRule
    PROVE  Lowered'
<1>1. profile.drawdown \in Nat /\ Risky \in 0..100 /\ RiskCap \in {10, 30}
  BY ProfileTypes, RiskyIsShare DEF Inv, RiskCap
<1>2. /\ rule' = "trading" /\ profile' = profile
      /\ profile.drawdown <= 10 => CapRisk(10)
      /\ profile.drawdown \in 11..20 => CapRisk(30)
  <2>1. rule' = "trading" /\ profile' = profile
    BY DEF DrawdownRule, Then, CapRisk, Transfer, NoTransfer
  <2>2. \/ profile.drawdown <= 10 /\ CapRisk(10)
        \/ profile.drawdown \in 11..20 /\ CapRisk(30)
        \/ profile.drawdown > 20
    BY DEF DrawdownRule
  <2> QED
    BY <1>1, <2>1, <2>2
<1>3. ASSUME profile.drawdown <= 20
      PROVE  CapRisk(RiskCap)
  <2>1. CASE profile.drawdown <= 10
    BY <1>2, <2>1 DEF RiskCap
  <2>2. CASE ~(profile.drawdown <= 10)
    BY <1>1, <1>2, <1>3, <2>2 DEF RiskCap
  <2> QED
    BY <2>1, <2>2
<1>4. ASSUME profile.drawdown <= 20
      PROVE  /\ target' = "fixed_income" /\ remaining' = Excess(Risky, RiskCap)
             /\ sources' = <<"short_term", "equity_index", "mixed_fund">>
             /\ allocations' = allocations
  BY <1>3, <1>4 DEF CapRisk, Transfer
<1>5. ASSUME profile.drawdown <= 20
      PROVE  Risky' - remaining' <= RiskCap'
  <2>1. Risky' = Risky /\ RiskCap' = RiskCap
    BY <1>2, <1>4, <1>5 DEF Risky, RiskCap
  <2>2. Risky - Excess(Risky, RiskCap) <= RiskCap
    BY <1>1 DEF Excess
  <2> QED
    BY <1>4, <1>5, <2>1, <2>2
<1>6. ASSUME profile.drawdown <= 20
      PROVE  /\ \A n \in DOMAIN sources' : sources'[n] \in RiskyCategories
             /\ \A c \in RiskyCategories : \E n \in DOMAIN sources' : sources'[n] = c
  <2> DEFINE s == <<"short_term", "equity_index", "mixed_fund">>
  <2>1. DOMAIN s = 1..3 /\ s[1] = "short_term" /\ s[2] = "equity_index" /\ s[3] = "mixed_fund"
    OBVIOUS
  <2>2. \A n \in 1..3 : n = 1 \/ n = 2 \/ n = 3
    OBVIOUS
  <2> HIDE DEF s
  <2> QED
    BY <1>4, <1>6, <2>1, <2>2 DEF s, RiskyCategories
<1> QED
  BY <1>2, <1>4, <1>5, <1>6 DEF Lowered, Late

\* What is taken from one risky category goes to fixed income.
LEMMA LoweredByMove ==
    ASSUME Inv, Lowered, NEW s \in Categories, MoveFrom(s)
    PROVE  Lowered'
<1>1. rule \notin Late /\ rule' = rule /\ profile' = profile /\ target' = target
  BY DEF Inv, Capped, MoveFrom
<1>2. SUFFICES ASSUME profile.drawdown <= 20, rule = "trading"
               PROVE  /\ \A n \in DOMAIN sources' : sources'[n] \in RiskyCategories
                      /\ Risky' - remaining' <= RiskCap
                      /\ remaining' > 0 =>
                            \A c \in RiskyCategories :
                                allocations'[c] = 0 \/ \E n \in DOMAIN sources' : sources'[n] = c
  BY <1>1 DEF Lowered, RiskCap
<1>3. /\ target = "fixed_income" /\ Risky - remaining <= RiskCap
      /\ \A n \in DOMAIN sources : sources[n] \in RiskyCategories
      /\ remaining > 0 =>
            \A c \in RiskyCategories : allocations[c] = 0 \/ \E n \in DOMAIN sources : sources[n] = c
  BY <1>2 DEF Lowered
<1>4. /\ sources \in Seq(Categories) /\ sources # <<>> /\ s = Head(sources)
      /\ sources' = Tail(sources) /\ remaining > 0
  BY DEF MoveFrom, Transferring, Inv, TypeOK
<1>5. /\ s = sources[1] /\ 1 \in DOMAIN sources
      /\ \A n \in DOMAIN sources' : n + 1 \in DOMAIN sources /\ sources'[n] = sources[n + 1]
      /\ \A n \in DOMAIN sources \ {1} : n - 1 \in DOMAIN sources' /\ sources'[n - 1] = sources[n]
  BY <1>4
<1>6. s \in RiskyCategories
  BY <1>3, <1>5
<1> DEFINE m == Moved(s)
<1>7. /\ m \in Int /\ allocations \in [Categories -> 0..100] /\ remaining \in 0..100
      /\ m = IF allocations[s] < remaining THEN allocations[s] ELSE remaining
  <2>1. allocations \in [Categories -> 0..100] /\ remaining \in 0..100
    BY AllocationTypes DEF Inv, TypeOK
  <2>2. allocations[s] \in Int
    BY <2>1
  <2> QED
    BY <2>1, <2>2 DEF Moved, Lesser
<1>8. /\ allocations' = [allocations EXCEPT ![s] = @ - m, !["fixed_income"] = @ + m]
      /\ remaining' = remaining - m
  BY <1>3 DEF MoveFrom
<1> HIDE DEF m
<1>9. /\ allocations'[s] = allocations[s] - m
      /\ \A c \in RiskyCategories \ {s} : allocations'[c] = allocations[c]
  BY <1>6, <1>7, <1>8 DEF RiskyCategories, Categories
<1>10. Risky' = Risky - m
  <2>1. \A c \in RiskyCategories : allocations[c] \in Int
    BY <1>7 DEF RiskyCategories, Categories
  <2> QED
    BY <1>6, <1>7, <1>9, <2>1 DEF Risky, RiskyCategories
<1>11. Risky' - remaining' <= RiskCap
  <2>1. Risky \in Int /\ RiskCap \in Int
    BY RiskyIsShare DEF Inv, RiskCap
  <2> QED
    BY <1>3, <1>7, <1>8, <1>10, <2>1
<1>12. ASSUME remaining' > 0, NEW c \in RiskyCategories, allocations'[c] # 0
       PROVE  \E n \in DOMAIN sources' : sources'[n] = c
  <2>1. m = allocations[s]
    BY <1>7, <1>8, <1>12
  <2>2. allocations'[s] = 0
    BY <1>6, <1>7, <1>9, <2>1
  <2>3. c # s /\ allocations[c] # 0
    BY <1>9, <1>12, <2>2
  <2>4. PICK n \in DOMAIN sources : sources[n] = c
    BY <1>3, <1>4, <2>3
  <2> QED
    BY <1>5, <2>3, <2>4
<1> QED
  BY <1>3, <1>5, <1>11, <1>12

\* The last rules do not add to the risky categories together.
LEMMA LoweredLate ==
    ASSUME Inv, Lowered, TradingRule \/ PassiveRule \/ MinimumsRule \/ AssignAmounts \/ AmountRefused
    PROVE  Lowered'
<1>1. rule \in {"trading"} \cup Late /\ rule' \in Late /\ rule' # "trading" /\ profile' = profile /\ ~Transferring
  BY DEF TradingRule, PassiveRule, MinimumsRule, AssignAmounts, AmountRefused, At, Then, Late,
         NoTransfer, Shift
<1>2. SUFFICES ASSUME profile.drawdown <= 20
               PROVE  Risky' <= RiskCap
  BY <1>1 DEF Lowered, RiskCap
<1>3. /\ allocations \in [Categories -> 0..100] /\ remaining \in 0..100 /\ RiskCap \in {10, 30}
      /\ sources \in Seq(Categories)
  BY AllocationTypes DEF Inv, TypeOK, RiskCap
<1> DEFINE e == allocations["equity_index"]
           x == allocations["mixed_fund"]
           t == allocations["short_term"]
<1>4. e \in 0..100 /\ x \in 0..100 /\ t \in 0..100 /\ Risky = e + x + t
  BY <1>3 DEF Risky, Categories
<1>5. Risky <= RiskCap
  <2>1. CASE rule \in Late
    BY <1>2, <2>1 DEF Lowered
  <2>2. CASE rule = "trading" /\ remaining > 0
    <3>1. sources = <<>>
      BY <1>1, <2>2 DEF Transferring
    <3>2. \A c \in RiskyCategories : allocations[c] = 0
      BY <1>2, <2>2, <3>1 DEF Lowered
    <3> QED
      BY <1>3, <1>4, <3>2 DEF RiskyCategories
  <2>3. CASE rule = "trading" /\ ~(remaining > 0)
    <3>1. Risky - remaining <= RiskCap /\ remaining = 0
      BY <1>2, <1>3, <2>3 DEF Lowered
    <3> QED
      BY <1>3, <1>4, <3>1
  <2> QED
    BY <1>1, <2>1, <2>2, <2>3
<1>6. Risky' <= Risky
  <2>1. CASE TradingRule
    <3> DEFINE n == Excess(t, TradingCap)
    <3>1. n \in 0..100
      BY <1>4, CapIsBounded, ExcessIsShare DEF Inv
    <3>2. allocations' = [allocations EXCEPT !["short_term"] = @ - n, !["fixed_income"] = @ + n]
      BY <2>1 DEF TradingRule, Shift
    <3> HIDE DEF n
    <3>3. allocations'["short_term"] = t - n /\ allocations'["equity_index"] = e /\ allocations'["mixed_fund"] = x
      BY <1>3, <3>2 DEF Categories
    <3> HIDE DEF e, x, t
    <3> QED
      BY <1>4, <3>1, <3>3 DEF Risky
  <2>2. CASE PassiveRule /\ profile.passive
    <3>1. allocations' = [allocations EXCEPT !["short_term"] = @ - t, !["equity_index"] = @ + t]
      BY <2>2 DEF PassiveRule, Shift
    <3>2. allocations'["short_term"] = t - t /\ allocations'["equity_index"] = e + t /\ allocations'["mixed_fund"] = x
      BY <1>3, <3>1 DEF Categories
    <3> HIDE DEF e, x, t
    <3> QED
      BY <1>4, <3>2 DEF Risky
  <2>3. CASE (PassiveRule /\ ~profile.passive) \/ AssignAmounts \/ AmountRefused
    <3>1. allocations' = allocations
      BY <2>3 DEF PassiveRule, NoTransfer, AssignAmounts, AmountRefused
    <3>2. Risky' = Risky
      BY <3>1 DEF Risky
    <3> HIDE DEF e, x, t
    <3>3. Risky \in Int
      BY <1>4
    <3> QED
      BY <3>2, <3>3
  <2>4. CASE MinimumsRule
    <3>1. \A c \in RiskyCategories : allocations'[c] = Kept(c)
      BY <2>4 DEF MinimumsRule, RiskyCategories, Categories
    <3>2. \A c \in RiskyCategories : allocations'[c] \in {0, allocations[c]}
      BY <3>1 DEF Kept
    <3>3. /\ allocations'["short_term"] \in {0, t} /\ allocations'["equity_index"] \in {0, e}
          /\ allocations'["mixed_fund"] \in {0, x}
      BY <3>2 DEF RiskyCategories
    <3> HIDE DEF e, x, t
    <3>4. Risky' = allocations'["equity_index"] + allocations'["mixed_fund"] + allocations'["short_term"]
      BY DEF Risky
    <3>5. /\ allocations'["short_term"] \in Int /\ allocations'["short_term"] <= t
          /\ allocations'["equity_index"] \in Int /\ allocations'["equity_index"] <= e
          /\ allocations'["mixed_fund"] \in Int /\ allocations'["mixed_fund"] <= x
      BY <1>4, <3>3
    <3> HIDE DEF Risky
    <3> QED
      BY <1>4, <3>4, <3>5
  <2> QED
    BY <2>1, <2>2, <2>3, <2>4
<1>7. Risky' \in Int
  <2>1. TypeOK'
    BY NextInv DEF Inv, Next, ApplyRule
  <2>2. allocations' \in [Categories -> 0..100]
    BY <2>1 DEF TypeOK, Allocations
  <2>3. /\ allocations'["equity_index"] \in Int
        /\ allocations'["mixed_fund"] \in Int
        /\ allocations'["short_term"] \in Int
    BY <2>2 DEF Categories
  <2>4. Risky' = allocations'["equity_index"] + allocations'["mixed_fund"] + allocations'["short_term"]
    BY DEF Risky
  <2> QED
    BY <2>3, <2>4
<1> QED
  BY <1>3, <1>4, <1>5, <1>6, <1>7

LEMMA NextLowered == Inv /\ Lowered /\ [Next]_vars => Lowered'
<1> SUFFICES ASSUME Inv, Lowered, [Next]_vars PROVE Lowered'
  OBVIOUS
<1>1. CASE LiquidityRule \/ EmergencyRule \/ IncomeRule \/ HorizonRule
  <2>1. rule' \in {"emergency", "income", "horizon", "drawdown"}
    BY <1>1 DEF LiquidityRule, EmergencyRule, IncomeRule, HorizonRule, Then
  <2> QED
    BY <2>1 DEF Lowered, Late
<1>2. CASE UNCHANGED vars
  BY <1>2 DEF vars, Lowered, Risky, RiskCap
<1> QED
  BY <1>1, <1>2, LoweredByRule, LoweredByMove, LoweredLate DEF Next, ApplyRule, Done

\* The cap on growth and trading for a small tolerated drawdown (l.197-215) still
\* holds when the later rules have moved percentages around.
THEOREM DrawdownIsCapped == Spec => []DrawdownRespected
<1>1. Init => Lowered
  BY DEF Init, Lowered, Late
<1>2. Inv /\ Lowered => DrawdownRespected
  <2> SUFFICES ASSUME Inv, Lowered, rule = "done"
               PROVE  /\ profile.drawdown <= 10 => Risky <= 10
                      /\ profile.drawdown <= 20 => Risky <= 30
    BY DEF DrawdownRespected
  <2>1. profile.drawdown \in Nat /\ Risky \in 0..100
    BY ProfileTypes, RiskyIsShare DEF Inv
  <2>2. profile.drawdown <= 20 => Risky <= RiskCap
    BY DEF Lowered, Late
  <2> QED
    BY <2>1, <2>2 DEF RiskCap
<1> QED
  BY <1>1, <1>2, Invariant, NextLowered, PTL DEF Spec

(***************************************************************************)
(* The amounts.                                                            *)
(***************************************************************************)
\* The amounts are those of the final percentages, and none was refused: nothing
\* moves any more.
Divided ==
    /\ rule = "done" => Accepted /\ \A c \in Categories : amounts[c] = Amount(c)
    /\ rule = "raised" => ~Accepted

\* What is accepted depends on the profile and the percentages alone.
LEMMA SameAmounts ==
    ASSUME profile' = profile, allocations' = allocations
    PROVE  (Accepted' <=> Accepted) /\ \A c \in Categories : Amount(c)' = Amount(c)
  BY DEF Accepted, Amount, Assigned, Rounded

LEMMA NextDivided == Inv /\ Divided /\ [Next]_vars => Divided'
<1> SUFFICES ASSUME Inv, Divided, [Next]_vars, rule' \in {"done", "raised"}
             PROVE  Divided'
  BY DEF Divided
<1>1. CASE AssignAmounts
  <2>1. /\ profile' = profile /\ allocations' = allocations /\ Accepted /\ rule' = "done"
        /\ \A c \in Categories : amounts'[c] = Amount(c)
    BY <1>1 DEF AssignAmounts, Then
  <2> QED
    BY <2>1, SameAmounts DEF Divided
<1>2. CASE AmountRefused
  <2>1. profile' = profile /\ allocations' = allocations /\ ~Accepted /\ rule' = "raised"
    BY <1>2 DEF AmountRefused, Then, NoTransfer
  <2> QED
    BY <2>1, SameAmounts DEF Divided
<1>3. CASE UNCHANGED vars
  <2>1. rule' = rule /\ profile' = profile /\ allocations' = allocations /\ amounts' = amounts
    BY <1>3 DEF vars
  <2> QED
    BY <2>1, SameAmounts DEF Divided
<1>4. ~(\E s \in Categories : MoveFrom(s))
  BY DEF MoveFrom, Inv, Capped, Late
<1>5. ~(LiquidityRule \/ EmergencyRule \/ IncomeRule \/ HorizonRule \/ DrawdownRule
           \/ TradingRule \/ PassiveRule \/ MinimumsRule)
  BY DEF LiquidityRule, EmergencyRule, IncomeRule, HorizonRule, DrawdownRule, TradingRule,
         PassiveRule, MinimumsRule, Then
<1> QED
  BY <1>1, <1>2, <1>3, <1>4, <1>5 DEF Next, ApplyRule, Done

\* quantize to whole tomans is off by half a toman at most.
LEMMA RoundingError ==
    ASSUME NEW m \in Nat
    PROVE  /\ (m + 50) \div 100 \in Int
           /\ -50 <= 100 * ((m + 50) \div 100) - m
           /\ 100 * ((m + 50) \div 100) - m <= 50
  OBVIOUS

\* The parts of the capital that the percentages stand for are all of it.
LEMMA PartsAddUp ==
    ASSUME NEW k \in Nat, NEW shares \in [Categories -> Nat], Sum(shares) = 100
    PROVE  k * shares["cash"] + k * shares["fixed_income"] + k * shares["gold"]
             + k * shares["equity_index"] + k * shares["mixed_fund"]
             + k * shares["short_term"] = 100 * k
<1> DEFINE a == shares["cash"]
           b == shares["fixed_income"]
           c == shares["gold"]
           d == shares["equity_index"]
           e == shares["mixed_fund"]
           f == shares["short_term"]
<1>1. a \in Nat /\ b \in Nat /\ c \in Nat /\ d \in Nat /\ e \in Nat /\ f \in Nat
  BY DEF Categories
<1>2. a + b + c + d + e + f = 100
  BY DEF Sum
<1> HIDE DEF a, b, c, d, e, f
<1>3. k * a + k * b + k * c + k * d + k * e + k * f = 100 * k
  BY <1>1, <1>2
<1> QED
  BY <1>3 DEF a, b, c, d, e, f

\* The last category gets what the roundings of the other five have left.
LEMMA RestError ==
    ASSUME NEW k \in Nat, NEW f \in Int,
           NEW a \in Int, NEW b \in Int, NEW c \in Int, NEW d \in Int, NEW e \in Int,
           NEW p \in Int, NEW q \in Int, NEW r \in Int, NEW s \in Int, NEW t \in Int,
           a + b + c + d + e + f = 100 * k,
           -50 <= 100 * p - a, 100 * p - a <= 50,
           -50 <= 100 * q - b, 100 * q - b <= 50,
           -50 <= 100 * r - c, 100 * r - c <= 50,
           -50 <= 100 * s - d, 100 * s - d <= 50,
           -50 <= 100 * t - e, 100 * t - e <= 50
    PROVE  /\ -250 <= 100 * (k - (p + q + r + s + t)) - f
           /\ 100 * (k - (p + q + r + s + t)) - f <= 250
  OBVIOUS

LEMMA AmountsFollow ==
    ASSUME Inv, NEW c \in Categories
    PROVE  LET error == 100 * Amount(c) - profile.capital * allocations[c]
               bound == IF c = "short_term" THEN 250 ELSE 50
           IN  Amount(c) \in Int /\ -bound <= error /\ error <= bound
<1> DEFINE k == profile.capital
           part(x) == k * allocations[x]
<1>1. k \in Nat /\ \A x \in Categories : allocations[x] \in Nat
  BY ProfileTypes, AllocationTypes DEF Inv
<1>2. \A x \in Categories : part(x) \in Nat
  BY <1>1, ProductsAreNat
<1>3. \A x \in Categories : Rounded(x) = (part(x) + 50) \div 100
  BY DEF Rounded
<1>4. Amount(c) = IF c = "short_term" THEN k - Assigned ELSE Rounded(c)
  BY DEF Amount
<1>5. allocations \in [Categories -> Nat]
  BY AllocationTypes DEF Inv
<1>6. Sum(allocations) = 100
  BY DEF Inv, SumsTo100
<1> HIDE DEF k
<1>7. part("cash") + part("fixed_income") + part("gold") + part("equity_index")
        + part("mixed_fund") + part("short_term") = 100 * k
  BY <1>1, <1>5, <1>6, PartsAddUp
<1> HIDE DEF part
<1>8. \A x \in Categories :
         /\ Rounded(x) \in Int
         /\ -50 <= 100 * Rounded(x) - part(x) /\ 100 * Rounded(x) - part(x) <= 50
  BY <1>2, <1>3, RoundingError
<1>9. CASE c # "short_term"
  BY <1>4, <1>8, <1>9 DEF part, k
<1>10. CASE c = "short_term"
  <2>1. /\ part("cash") \in Int /\ part("fixed_income") \in Int /\ part("gold") \in Int
        /\ part("equity_index") \in Int /\ part("mixed_fund") \in Int
        /\ part("short_term") \in Int
    BY <1>2 DEF Categories
  <2>2. /\ Rounded("cash") \in Int /\ Rounded("fixed_income") \in Int
        /\ Rounded("gold") \in Int /\ Rounded("equity_index") \in Int
        /\ Rounded("mixed_fund") \in Int
        /\ -50 <= 100 * Rounded("cash") - part("cash")
        /\ 100 * Rounded("cash") - part("cash") <= 50
        /\ -50 <= 100 * Rounded("fixed_income") - part("fixed_income")
        /\ 100 * Rounded("fixed_income") - part("fixed_income") <= 50
        /\ -50 <= 100 * Rounded("gold") - part("gold")
        /\ 100 * Rounded("gold") - part("gold") <= 50
        /\ -50 <= 100 * Rounded("equity_index") - part("equity_index")
        /\ 100 * Rounded("equity_index") - part("equity_index") <= 50
        /\ -50 <= 100 * Rounded("mixed_fund") - part("mixed_fund")
        /\ 100 * Rounded("mixed_fund") - part("mixed_fund") <= 50
    BY <1>8 DEF Categories
  <2>3. /\ -250 <= 100 * (k - Assigned) - part("short_term")
        /\ 100 * (k - Assigned) - part("short_term") <= 250
    BY <1>1, <1>7, <2>1, <2>2, RestError DEF Assigned
  <2>4. k - Assigned \in Int
    BY <1>1, <2>2 DEF Assigned
  <2> QED
    BY <1>4, <1>10, <2>3, <2>4 DEF part, k
<1> QED
  BY <1>9, <1>10

\* The last category gets what is left, so that nothing is lost.
LEMMA AmountsAddUp ==
    ASSUME Inv, Divided, rule = "done"
    PROVE  Sum(amounts) = profile.capital
<1>1. /\ \A c \in Categories : Amount(c) \in Int /\ amounts[c] = Amount(c)
      /\ profile.capital \in Int
  BY AmountsFollow, ProfileTypes DEF Inv, Divided
<1>2. /\ amounts["cash"] = Rounded("cash") /\ amounts["fixed_income"] = Rounded("fixed_income")
      /\ amounts["gold"] = Rounded("gold") /\ amounts["equity_index"] = Rounded("equity_index")
      /\ amounts["mixed_fund"] = Rounded("mixed_fund")
      /\ amounts["short_term"] = profile.capital - Assigned
  BY <1>1 DEF Amount, Categories
<1>3. /\ Rounded("cash") \in Int /\ Rounded("fixed_income") \in Int /\ Rounded("gold") \in Int
      /\ Rounded("equity_index") \in Int /\ Rounded("mixed_fund") \in Int
  BY <1>1, <1>2 DEF Categories
<1> QED
  BY <1>1, <1>2, <1>3 DEF Sum, Assigned

\* Five of the amounts are roundings of parts that are not negative, so that only
\* the last one is ever refused, and it is one that has next to nothing.
LEMMA RefusedIsLast ==
    ASSUME Inv, ~Accepted
    PROVE  profile.capital * allocations["short_term"] < 250
<1>1. PICK c \in Categories : ~(Amount(c) >= 0)
  BY DEF Accepted
<1>2. profile.capital * allocations[c] \in Nat
  BY ProfileTypes, AllocationTypes, ProductsAreNat DEF Inv
<1>3. c = "short_term"
  <2>1. SUFFICES ASSUME c # "short_term" PROVE FALSE
    OBVIOUS
  <2>2. Amount(c) = (profile.capital * allocations[c] + 50) \div 100
    BY <2>1 DEF Amount, Rounded
  <2>3. ASSUME NEW m \in Nat
        PROVE  (m + 50) \div 100 >= 0
    BY <2>3
  <2> QED
    BY <1>1, <1>2, <2>2, <2>3
<1>4. /\ Amount(c) \in Int
      /\ -250 <= 100 * Amount(c) - profile.capital * allocations[c]
  BY <1>3, AmountsFollow
<1>5. ASSUME NEW a \in Int, NEW m \in Nat, ~(a >= 0), -250 <= 100 * a - m
      PROVE  m < 250
  BY <1>5
<1> QED
  BY <1>1, <1>2, <1>3, <1>4, <1>5

\* What is paid into each part is not negative, adds up to the capital, is executable
\* and is its percentage of the capital up to the roundings; an allocation goes
\* without an answer only when its last category has next to nothing (l.88,
\* l.142-152, l.246-256).
THEOREM AmountsArePayable == Spec => []Payable
<1>1. Init => Divided
  BY DEF Init, Divided
<1>2. Inv /\ Divided /\ Executable => Payable
  <2> SUFFICES ASSUME Inv, Divided, Executable PROVE Payable
    OBVIOUS
  <2>1. ASSUME rule = "done", NEW c \in Categories
        PROVE  LET error == 100 * amounts[c] - profile.capital * allocations[c]
                   bound == IF c = "short_term" THEN 250 ELSE 50
               IN  amounts[c] >= 0 /\ -bound <= error /\ error <= bound
    <3>1. amounts[c] = Amount(c) /\ Amount(c) >= 0
      BY <2>1 DEF Divided, Accepted
    <3> QED
      BY <3>1, AmountsFollow
  <2>2. rule = "raised" => profile.capital * allocations["short_term"] < 250
    BY RefusedIsLast DEF Divided
  <2> QED
    BY <2>1, <2>2, AmountsAddUp DEF Payable
<1> QED
  BY <1>1, <1>2, Invariant, NextDivided, PartsAreExecutable, PTL DEF Spec
=============================================================================
