\* Every kind of profile, funds at the edges of the gates, short backtests and series.
SPECIFICATION ServicesSpec
CONSTANTS
    Base <- BaseTable
    Minimum <- MinimumTable
    Profiles <- AllProfiles
    Worlds <- AllWorlds
    MinObservations = 90
    MaxStalenessDays = 7
    Strategies = {"moving_average", "momentum", "mean_reversion", "breakout"}
    Bars <- Kinds
    Fast = 2
    Slow = 3
    Fee <- Tenth
    Slippage <- Nil
    MaxBars = 7
    Values = {2, 3, 4}
    MaxLength = 5
    Entities = {"x", "y"}
    Names = {"n1", "n2"}
    Dates = {1, 2, 3}
    PageSize = 2
INVARIANTS
    TypeOK SumsTo100 DrawdownRespected TradingRespected Payable
    SuggestedOnEvidence WarningIsTrue
    NoLookAhead CostsExplain TradesInCurve
    RecoveryFromPeak NothingMissed
\* A request ends with its answer.
CHECK_DEADLOCK FALSE
