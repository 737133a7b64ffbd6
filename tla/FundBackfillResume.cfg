\* The script on SQLite, interrupted anywhere and resumed.
SPECIFICATION Spec
CONSTANTS
    ApiJobs = {}
    ScriptJobs = {cli}
    Resumers = {cli}
    RunIds = {r1, r2}
    NoRun = NoRun
    Funds = {1, 2}
    Selections <- AnyType
    Dates = {1, 2, 3}
    Histories <- SomeHistories
    FromDate = 2
    Refreshes = {}
    RefreshDates = {}
    StatusLength <- Lengths
    StatusWidth = 255
    Faults = {"fetch", "commit", "note", "database", "crash"}
    MaxFaults = 3
INVARIANTS Checkpointed CountsExact
PROPERTIES CompletedStays Reported Publishes
