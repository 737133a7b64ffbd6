\* Every provider setting; two API calls, the scheduler and the command line.
SPECIFICATION Spec
CONSTANTS
    ApiCallers = {a1, a2}
    Worker = worker
    Cli = cli
    Modes <- AllModes
    Outcomes <- AllOutcomes
    MaxRetries = 1
    HistoryFunds = 1
    HistoryFaults = {"http", "value", "runtime", "other"}
INVARIANTS Provenance FallsBack
