\* A filter that divides the bucket of a rollup.
SPECIFICATION Spec
CONSTANTS
    None = None
    Null = None
    Redacted = Redacted
    MaxNesting = 2
    registry <- Cubes
    Queried <- AfterInstant
    Contexts <- Callers
    Universe <- Data
    TicksPerDay <- Halves
    FirstInstant <- Today
    LastInstant <- Today
INVARIANT RoutedAnswerIsBase
CHECK_DEADLOCK FALSE
