\* Two processes, one sound and one broken rollup.
SPECIFICATION FairSpec
CONSTANTS
    p1 = p1
    p2 = p2
    daily = daily
    hourly = hourly
    orders = orders
    None = None
    Processes = {p1, p2}
    Rollups = {daily, hourly}
    Cubes = {orders}
    CubeOfRollup <- OneCube
    Broken = {hourly}
    MaxVersion = 1
    MaxFailures = 1
INVARIANT
    TypeOK
PROPERTIES
    RollupsOnlyAdvance
    StartupEnds
    RefreshedWhileServing
