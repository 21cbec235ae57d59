\* Two questions beside a long poll, over data that changes twice.
SPECIFICATION Spec
CONSTANTS
    v1 = v1   nothing = nothing   visible = visible   hidden = hidden
    Values <- Results
    Empty = nothing
    Members <- AllMembers
    Allowed <- Visible
    Replies <- Payloads
    Interprets = TRUE
    MaxAsks = 2
    MaxChanges = 2
    MaxFailures = 1
    MaxWait = 3
    Every = 2
    None = None
INVARIANTS
    AuditTellsTheOutcome
PROPERTIES
    RequestsReturn
    PollerCatchesUp
