----------------------------- MODULE MCServices -----------------------------
(* The services that compute an answer from a request and from what is     *)
(* stored: a recommendation, a backtest, the drawdown of a series, pages   *)
(* of a list.  They do not share state and change none, so a behaviour is  *)
(* about one of them, and it ends with the last page that a reader reads.  *)
EXTENDS MCAllocation, Recommendations, Backtest, MarketPages

\* Funds at the edges of the gates, in two groups of a type.
Ages == {-1, 0, 168, 169, 191, 192}
Stored(type, active, quality, observations, age, measured, score) ==
    [type |-> type, active |-> active, quality |-> quality, observations |-> observations,
     age |-> age, measured |-> measured, score |-> score, api |-> age # 0]
Funds(type) ==
    {Stored(type, TRUE, "valid", MinObservations, age, TRUE, 5) : age \in Ages}
        \cup {Stored(type, FALSE, "valid", MinObservations, 0, TRUE, 9),
              Stored(type, TRUE, "valid", MinObservations - 1, 0, TRUE, 9),
              Stored(type, TRUE, "valid", MinObservations, 0, FALSE, 9),
              Stored(type, TRUE, "missing", MinObservations, 0, TRUE, 9)}
Fresh(type, score) == Stored(type, TRUE, "valid", MinObservations, 24, TRUE, score)
\* Two gold funds and two index funds; three and one; none that is eligible.
Typical == {
    <<Fresh("gold", 5), Fresh("gold", 7),
      Stored("index", TRUE, "valid", MinObservations, 191, TRUE, 3), Fresh("index", 2)>>,
    <<Fresh("fixed_income", 5), Fresh("fixed_income", 5), Fresh("fixed_income", 6),
      Stored("mixed", TRUE, "valid", MinObservations, 169, TRUE, 1)>>,
    <<Stored("gold", TRUE, "valid", MinObservations, 192, TRUE, 5),
      Stored("fixed_income", FALSE, "valid", MinObservations, 0, TRUE, 5)>>}
AllWorlds ==
    Typical \cup {<<f, g>> : f \in Funds("gold"), g \in Funds("gold")}
            \cup {<<f, g>> : f \in Funds("gold"), g \in Funds("index")}

\* Fractions, and bars with and without a spread that can and cannot be traded.
Tenth == Frac(1, 10)
Nil == Zero
Kinds ==
    {[close |-> c, spread |-> Zero, liquid |-> TRUE] : c \in {1, 2}}
        \cup {[close |-> 2, spread |-> One, liquid |-> TRUE],
              [close |-> 1, spread |-> One, liquid |-> FALSE]}

\* One investor, who gets parts of every kind: the funds at the edges are for him, and
\* what is not a recommendation begins at his profile only.
Steady == [risk |-> "moderate", liquidity |-> "low", emergency |-> TRUE, income |-> TRUE,
           months |-> 24, drawdown |-> 21, trading |-> FALSE, maxTrading |-> 0,
           tradingNovice |-> FALSE, novice |-> FALSE, passive |-> FALSE,
           capital |-> 20000037]
Apart == rule = "liquidity" /\ profile = Steady /\ world = NoWorld

\* The names that the lists have while nobody reads them.
Plain == [e \in Entities |-> IF e = "x" THEN "n1" ELSE "n2"]
NoPages == reader = NoReader /\ history = {} /\ list = "indices" /\ name = Plain
\* Nothing is promised to a reader of all entities.
Filtered == reader'.filter # All
ServicesInit ==
    /\ AdviceInit /\ BacktestInit /\ SeriesInit /\ PagesInit
    /\ profile # Steady => NoPages
Advise ==
    /\ phase = "idle" /\ series = <<>> /\ NoPages
    /\ \/ Next /\ UNCHANGED adviceVars
       \/ \E w \in IF profile = Steady THEN Worlds ELSE Typical : Suggest(w)
    /\ UNCHANGED <<backtestVars, seriesVars, pagesVars>>
Compute ==
    /\ Apart
    /\ \/ series = <<>> /\ NoPages /\ BacktestNext /\ UNCHANGED <<seriesVars, pagesVars>>
       \/ phase = "idle" /\ NoPages /\ SeriesNext /\ UNCHANGED <<backtestVars, pagesVars>>
       \/ phase = "idle" /\ series = <<>> /\ ~reader.ended /\ PagesNext /\ Filtered
          /\ UNCHANGED <<backtestVars, seriesVars>>
    /\ UNCHANGED <<vars, adviceVars>>
ServicesNext == Advise \/ Compute
ServicesVars == <<vars, adviceVars, backtestVars, seriesVars, pagesVars>>
ServicesSpec == ServicesInit /\ [][ServicesNext]_ServicesVars
=============================================================================
