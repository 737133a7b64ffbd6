------------------------------ MODULE Backtest ------------------------------
(***************************************************************************)
(* run_backtest (src/irma/trading_engine/backtest.py, l.94-188): one bar    *)
(* after the other, long only, everything or nothing.  Each step is one    *)
(* turn of the loop; the last one sells what is left.                      *)
(***************************************************************************)
EXTENDS Integers, Sequences, Series

CONSTANTS
    Strategies,             \* the strategies that are asked for
    Bars,                   \* what a bar may be
    Fast, Slow,             \* fast_window and slow_window
    Fee, Slippage,          \* fee_percent and slippage_percent, as fractions
    MaxBars                 \* the longest sequence of bars

\* "spread" is spread_percent; "liquid" that the bar is tradable and passes the
\* limits on volume, value and spread.  The ranges are those of the request (l.18-35):
\* the fee and the slippage are up to a tenth, the spread is up to the whole.
ASSUME BacktestAssumption ==
    /\ Fast \in 2..100 /\ Slow \in 3..300 /\ Fast < Slow
    /\ MaxBars > Slow + 2
    /\ Fee \in Nat \X (Nat \ {0}) /\ 10 * Fee[1] <= Fee[2]
    /\ Slippage \in Nat \X (Nat \ {0}) /\ 10 * Slippage[1] <= Slippage[2]
    /\ \A b \in Bars : /\ DOMAIN b = {"close", "spread", "liquid"}
                       /\ b.close \in Nat \ {0} /\ b.liquid \in BOOLEAN
                       /\ b.spread \in Nat \X (Nat \ {0}) /\ b.spread[1] <= b.spread[2]

VARIABLES strategy, book, phase
backtestVars == <<strategy, book, phase>>

One == Whole(1)
Zero == Whole(0)
NoPosition == <<>>

\* The state of the loop.  "gain" is kept for a property: what the closes have
\* moved the position.
NewBook ==
    [cash |-> One, position |-> NoPosition, closes |-> <<>>, curve |-> <<One>>,
     returns |-> <<>>, costs |-> Zero, invested |-> 0, gain |-> Zero]
Holds(b) == b.position # NoPosition

(***************************************************************************)
(* _signal.                                                                *)
(***************************************************************************)
Recent(closes, n) == SubSeq(closes, Len(closes) - n + 1, Len(closes))
Total(seq) ==
    LET sum[n \in 0..Len(seq)] == IF n = 0 THEN 0 ELSE sum[n - 1] + seq[n]
    IN  sum[Len(seq)]
Signal(closes) ==
    /\ Len(closes) >= Slow
    /\ LET last == closes[Len(closes)]
           slow == Recent(closes, Slow)
       IN  \/ /\ strategy = "moving_average"
              /\ Total(Recent(closes, Fast)) * Slow > Total(slow) * Fast
           \/ strategy = "momentum" /\ last > closes[Len(closes) - Fast + 1]
           \/ strategy = "mean_reversion" /\ 100 * Slow * last < 97 * Total(slow)
           \/ strategy = "breakout" /\ \A n \in 1..(Slow - 1) : last >= slow[n]

(***************************************************************************)
(* The orders.                                                             *)
(***************************************************************************)
Half(bar) == Frac(bar.spread[1], 2 * bar.spread[2])
Fill(bar, sign) ==
    Times(Whole(bar.close), Plus(One, Times(Whole(sign), Plus(Slippage, Half(bar)))))

Buy(b, bar) ==
    LET price == Fill(bar, 1)
        fee == Times(b.cash, Fee)
        quantity == Over(Minus(b.cash, fee), price)
    IN  [b EXCEPT !.position = [price |-> price, quantity |-> quantity, cost |-> fee],
                  !.cash = Zero,
                  !.costs = Plus(@, Plus(fee, Times(quantity, Minus(price, Whole(bar.close)))))]

\* What the position has cost, with the fee.
Paid(p) == Plus(Times(p.quantity, p.price), p.cost)

\* Mutant of Sell: the spread is not among the costs.
Sell_FeeOnly(b, bar) ==
    LET gross == Times(b.position.quantity, Fill(bar, -1))
        cash == Minus(gross, Times(gross, Fee))
    IN  [b EXCEPT !.cash = cash, !.position = NoPosition,
                  !.costs = Plus(@, Times(gross, Fee)),
                  !.returns = Append(@, Minus(Over(cash, Paid(b.position)), One))]
Sell(b, bar) ==
    LET price == Fill(bar, -1)
        gross == Times(b.position.quantity, price)
        fee == Times(gross, Fee)
        cash == Minus(gross, fee)
    IN  [b EXCEPT !.cash = cash, !.position = NoPosition,
                  !.costs = Plus(@, Plus(fee, Times(b.position.quantity,
                                                   Minus(Whole(bar.close), price)))),
                  !.returns = Append(@, Minus(Over(cash, Paid(b.position)), One))]

Equity(b, bar) == IF Holds(b) THEN Times(b.position.quantity, Whole(bar.close)) ELSE b.cash
Drift(b, bar) ==
    IF Holds(b) THEN Times(b.position.quantity, Whole(bar.close - b.closes[Len(b.closes)])) ELSE Zero

Traded(b, bar, desired) ==
    CASE bar.liquid /\ desired /\ ~Holds(b) -> Buy(b, bar)
      [] bar.liquid /\ ~desired /\ Holds(b) -> Sell(b, bar)
      [] OTHER -> b

\* One turn of the loop.
\* Mutant of OnBar: the close of the bar is known when the bar is traded.
OnBar_SeesItself(b, bar) ==
    LET seen == [b EXCEPT !.closes = Append(@, bar.close)]
        t == Traded(seen, bar, Signal(seen.closes))
    IN  [t EXCEPT !.curve = Append(@, Equity(t, bar)), !.gain = Plus(@, Drift(b, bar))]
OnBar(b, bar) ==
    LET t == Traded(b, bar, Signal(b.closes))
    IN  [t EXCEPT !.invested = @ + (IF Holds(t) THEN 1 ELSE 0),
                  !.curve = Append(@, Equity(t, bar)),
                  !.closes = Append(@, bar.close),
                  !.gain = Plus(@, Drift(b, bar))]

\* After the last bar: a position is sold at it, liquid or not.
\* Mutant of Liquidated: the last equity stays what it was.
Liquidated_KeepsCurve(b, bar) == IF Holds(b) THEN Sell(b, bar) ELSE b
Liquidated(b, bar) ==
    IF Holds(b)
    THEN LET s == Sell(b, bar) IN [s EXCEPT !.curve[Len(s.curve)] = s.cash]
    ELSE b

BacktestInit == strategy = "none" /\ book = NewBook /\ phase = "idle"

StartBacktest ==
    /\ phase = "idle"
    /\ strategy' \in Strategies
    /\ phase' = "running"
    /\ UNCHANGED book

TurnLoop ==
    /\ phase = "running" /\ Len(book.closes) < MaxBars - 1
    /\ \E bar \in Bars : book' = OnBar(book, bar)
    /\ UNCHANGED <<strategy, phase>>

LastBar ==
    /\ phase = "running" /\ Len(book.closes) >= Slow + 2
    /\ \E bar \in Bars : book' = Liquidated(OnBar(book, bar), bar)
    /\ phase' = "done"
    /\ UNCHANGED strategy

BacktestNext == StartBacktest \/ TurnLoop \/ LastBar
BacktestSpec == BacktestInit /\ [][BacktestNext]_backtestVars

(***************************************************************************)
(* Properties.                                                             *)
(***************************************************************************)
\* The close of a bar does not decide what is done at that bar: of two bars that
\* differ in it, both are traded alike (l.106, tests/test_backtest.py
\* test_future_bar_change_does_not_change_prior_equity, "next-period execution").
NoLookAhead ==
    phase = "running" =>
        \A x, y \in Bars :
            [x EXCEPT !.close = y.close] = y =>
                Holds(OnBar(book, x)) = Holds(OnBar(book, y))

\* The money adds up at every bar, over all trades: the equity is the capital
\* and what the closes moved the positions, less total_costs (l.116-150).
CostsExplain ==
    LET equity == book.curve[Len(book.curve)]
    IN  Plus(equity, book.costs) = Plus(One, book.gain)

\* The trades and the curve tell the same story, the last sale included (l.130-177):
\* nothing stays invested, the returns of the trades, one after the other, make up
\* the total return, and none loses more than the maximum drawdown of the curve.
Compounded(returns) ==
    LET after[n \in 0..Len(returns)] ==
            IF n = 0 THEN One ELSE Times(after[n - 1], Plus(One, returns[n]))
    IN  after[Len(returns)]
TradesInCurve ==
    phase = "done" =>
        /\ ~Holds(book)
        /\ Compounded(book.returns) = book.curve[Len(book.curve)]
        /\ \A n \in DOMAIN book.returns :
              ~Less(MaximumDrawdown(book.curve), Minus(Zero, book.returns[n]))
=============================================================================
