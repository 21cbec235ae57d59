\* Three concurrent calls of one query, one worker, cached probe.
SPECIFICATION Spec
CONSTANTS
    l1 = l1
    l2 = l2
    l3 = l3
    orders = orders
    visits = visits
    revenue = revenue
    byCity = byCity
    w1 = w1
    None = None
    Loads = {l1, l2, l3}
    Keys = {revenue}
    Cubes = {orders}
    CubeOf <- OneKey
    Probed = {orders}
    Windowed = {orders}
    Workers = {w1}
    Home <- AllInOneWorker
    Cancellable = {l1, l2, l3}
    MaxVersion = 1
SYMMETRY SlotSymmetry
INVARIANTS
    TypeOK
    NoStrandedWaiter
    InflightExact
    SignatureBehindData
PROPERTY
    CacheNeverGoesBack
