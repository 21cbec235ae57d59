\* Two calls of either of two queries, the data of one cube changing and coming to rest.
SPECIFICATION FairSpec
CONSTANTS
    l1 = l1
    l2 = l2
    l3 = l3
    orders = orders
    visits = visits
    revenue = revenue
    byCity = byCity
    w1 = w1
    None = None
    Loads = {l1, l2}
    Keys = {revenue, byCity}
    Cubes = {orders, visits}
    CubeOf <- TwoKeys
    Probed = {orders}
    Windowed = {orders}
    Workers = {w1}
    Home <- AllInOneWorker
    Cancellable = {l2}
    MaxVersion = 1
PROPERTY
    FreshOnceSourceRests
    EveryLoadReturns
INVARIANT
    AnswersOwnKey
