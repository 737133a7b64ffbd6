\* A call of the API and a script, on two runs or on the same, beside a data refresh.
SPECIFICATION Spec
CONSTANTS
    ApiJobs = {a1}
    ScriptJobs = {s1}
    Resumers = {s1}
    RunIds = {r1, r2}
    NoRun = NoRun
    Funds = {1}
    Selections <- OneFund
    Dates = {1, 2}
    Histories <- OldHistories
    FromDate = 2
    Refreshes = {d1}
    RefreshDates = {2}
    StatusLength <- Lengths
    StatusWidth = 20
    Faults = {"fetch", "crash"}
    MaxFaults = 2
SYMMETRY Runs
INVARIANTS LastDayWritten DuplicatesHaveCause
