\* A refresh of the scheduler fails.
SPECIFICATION Spec
CONSTANTS
    ApiCallers = {a1}
    Worker = worker
    Cli = cli
    Modes <- AllModes
    Outcomes <- AllOutcomes
    MaxRetries = 1
    HistoryFunds = 1
    HistoryFaults = {"http", "value", "runtime", "other"}
INVARIANT WorkerSurvives
