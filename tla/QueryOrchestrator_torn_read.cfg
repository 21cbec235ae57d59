\* A hit validated while another call refreshes the entry.
SPECIFICATION Spec
CONSTANTS
    l1 = l1
    l2 = l2
    l3 = l3
    orders = orders
    visits = visits
    revenue = revenue
    byCity = byCity
    w1 = w1
    None = None
    Loads = {l1, l2, l3}
    Keys = {revenue}
    Cubes = {orders}
    CubeOf <- OneKey
    Probed = {orders}
    Windowed = {}
    Workers = {w1}
    Home <- AllInOneWorker
    Cancellable = {}
    MaxVersion = 1
INVARIANT
    HitNotOlderThanProbe
