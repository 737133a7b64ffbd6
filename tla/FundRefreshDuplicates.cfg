\* One process, the session of the deployment (autoflush off).
SPECIFICATION Spec
CONSTANTS
    Jobs = {api}
    Processes = {api}
    ProcessOf <- OwnProcess
    NoJob = NoJob
    Funds = {1, 2}
    Dates = {1, 2}
    Catalogues <- OneCatalogue
    Histories <- OneHistory
    HasHistory = TRUE
    HistoryLimit = 1
    NoLimit = NoLimit
    Autoflush = FALSE
    MaxRetries = 0
    Failures = {}
    MaxRuns = 2
    MaxFailures = 1
INVARIANT NoDuplicates
