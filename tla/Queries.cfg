\* Every growth of the shop's data, with its rollups built at any moment.
SPECIFICATION Spec
CONSTANTS
    None = None
    Null = None
    Redacted = Redacted
    MaxNesting = 2
    registry <- Cubes
    Queried <- Questions
    Contexts <- Callers
    Universe <- Data
    TicksPerDay <- Halves
    FirstInstant <- Today
    LastInstant <- Today
INVARIANTS
    TotalsSurviveGrouping
    FiltersSelectGroups
    HiddenRowsDoNotMatter
    WindowsRunOverTheAnswer
    SentAsAnswered
    FittingRouteIsExact
CHECK_DEADLOCK FALSE
