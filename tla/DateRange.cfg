\* Every day of 15 months, at three moments.
SPECIFICATION ClockSpec
CONSTANTS
    TicksPerDay <- Moments
    FirstInstant <- December2023
    LastInstant <- March2025
INVARIANTS
    ResolvesToWholeDays
    UnitsFollowEachOther
    RangesTileTime
CHECK_DEADLOCK FALSE
