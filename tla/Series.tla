------------------------------- MODULE Series -------------------------------
(***************************************************************************)
(* maximum_drawdown and recovery_period (src/irma/domain/finance.py,       *)
(* l.84-94, l.134-157), as the loops they are.  Fund and series analytics  *)
(* and the backtest report them.                                           *)
(***************************************************************************)
EXTENDS Integers, Sequences, Ratio

CONSTANTS
    Values,     \* the values of a series
    MaxLength

\* Prices are positive (finance.py l.87).
ASSUME SeriesAssumption == Values \subseteq Nat \ {0}

VARIABLE series
seriesVars == <<series>>

Fall(peak, value) == Over(Minus(peak, value), peak)

\* The loop after n values.
MaximumDrawdown(values) ==
    LET after[n \in 0..Len(values)] ==
            IF n = 0 THEN [peak |-> values[1], worst |-> Whole(0)]
            ELSE LET s == after[n - 1]
                     peak == Greater(s.peak, values[n])
                 IN  [peak |-> peak, worst |-> Greater(s.worst, Fall(peak, values[n]))]
    IN  after[Len(values)].worst

\* The loop over the values keeps the running peak, and of the worst fall so far
\* the index of its peak and its own.
NotRecovered == -1
Unfallen == [peak |-> 1, worst |-> Whole(0), from |-> 1, at |-> 1]
\* Mutant of Turn: a fall that is as deep replaces the first one.
Turn_Last(values, s, n) ==
    LET peak == IF Less(values[s.peak], values[n]) THEN n ELSE s.peak
        fall == Fall(values[peak], values[n])
    IN  IF Less(fall, s.worst) THEN [s EXCEPT !.peak = peak]
        ELSE [peak |-> peak, worst |-> fall, from |-> peak, at |-> n]
Turn(values, s, n) ==
    LET peak == IF Less(values[s.peak], values[n]) THEN n ELSE s.peak
        fall == Fall(values[peak], values[n])
    IN  IF Less(s.worst, fall)
        THEN [peak |-> peak, worst |-> fall, from |-> peak, at |-> n]
        ELSE [s EXCEPT !.peak = peak]
Deepest(values) ==
    LET after[n \in 0..Len(values)] ==
            IF n = 0 THEN Unfallen ELSE Turn(values, after[n - 1], n)
    IN  after[Len(values)]

RecoveryPeriod(values) ==
    LET d == Deepest(values)
        back == {n \in (d.at + 1)..Len(values) : ~Less(values[n], values[d.from])}
    IN  IF Len(values) < 2 \/ d.worst = Whole(0) THEN 0
        ELSE IF back = {} THEN NotRecovered
        ELSE (CHOOSE n \in back : \A m \in back : n <= m) - d.from

SeriesInit == series = <<>>
Observe ==
    /\ Len(series) < MaxLength
    /\ \E v \in Values : series' = Append(series, Whole(v))
SeriesNext == Observe
SeriesSpec == SeriesInit /\ [][SeriesNext]_seriesVars

(***************************************************************************)
(* Properties.                                                             *)
(***************************************************************************)
\* The drawdown is the largest fall from any value to a later one (l.84-94).  The
\* recovery takes from the peak of the first deepest fall to the first value
\* that is as high again; there is none if all that follows stays below, and
\* what the drawdown fell by has then not been made good (l.134-157).
Deep(m, n) == m < n /\ Fall(series[m], series[n]) = MaximumDrawdown(series)
RecoveryFromPeak ==
    series # <<>> =>
        LET worst == MaximumDrawdown(series)
            r == RecoveryPeriod(series)
        IN  /\ \A m, n \in DOMAIN series : m <= n => ~Less(worst, Fall(series[m], series[n]))
            /\ \/ worst = Whole(0) /\ r = 0
               \/ \E m, n \in DOMAIN series :
                    /\ Deep(m, n)
                    /\ \A k \in 1..(n - 1) : \A j \in 1..k : ~Deep(j, k)
                    /\ \A k \in 1..(m - 1) : Less(series[k], series[m])
                    /\ \A k \in (n + 1)..Len(series) :
                          (r = NotRecovered \/ k < m + r) => Less(series[k], series[m])
                    /\ r # NotRecovered => /\ m + r \in (n + 1)..Len(series)
                                           /\ ~Less(series[m + r], series[m])
=============================================================================
