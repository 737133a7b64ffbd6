\* CSV refreshes called by two threads of the API process.
SPECIFICATION Spec
CONSTANTS
    Jobs = {j1, j2}
    Processes = {api}
    ProcessOf <- SameProcess
    NoJob = NoJob
    Funds = {1, 2}
    Dates = {1, 2}
    Catalogues <- CsvCatalogues
    Histories <- NoHistories
    HasHistory = FALSE
    HistoryLimit = 0
    NoLimit = NoLimit
    Autoflush = FALSE
    MaxRetries = 1
    Failures = {"step", "report", "crash", "start"}
    MaxRuns = 3
    MaxFailures = 2
SYMMETRY JobSymmetry
INVARIANTS Exclusive CountExact NoOrphanRun
