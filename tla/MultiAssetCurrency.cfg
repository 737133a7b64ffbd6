\* One import of a well-formed file on PostgreSQL.
SPECIFICATION Spec
CONSTANTS
    Callers = {c1}
    Requests = {"market_indices", "market_instruments", "inflation", "bank_products"}
    Files <- WellFormed
    Before <- Past
    Widths = {8}
INVARIANT Stores
