\* Two requests on PostgreSQL, for one dataset or for all.
SPECIFICATION Spec
CONSTANTS
    Callers = {c1, c2}
    Requests = {"bank_products", "all"}
    Files <- FileSets
    Before <- Past
    Widths = {8, 99}
INVARIANTS TypeOK WholeFiles Idempotent CountsReceived Independent
PROPERTY RequestsEnd
