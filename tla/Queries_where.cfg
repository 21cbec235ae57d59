\* A filter outside a date range, beside the row-level rules.
SPECIFICATION Spec
CONSTANTS
    None = None
    Null = None
    Redacted = Redacted
    MaxNesting = 2
    registry <- Cubes
    Queried <- OutsideRange
    Contexts <- Callers
    Universe <- Data
    TicksPerDay <- Halves
    FirstInstant <- Today
    LastInstant <- Today
INVARIANT SelectedRowsSatisfyAll
CHECK_DEADLOCK FALSE
