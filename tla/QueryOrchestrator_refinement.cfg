\* Two concurrent calls of one query, probed anew by each.
SPECIFICATION HSpec
CONSTANTS
    l1 = l1
    l2 = l2
    l3 = l3
    orders = orders
    revenue = revenue
    w1 = w1
    None = None
    Loads = {l1, l2}
    Keys = {revenue}
    Cubes = {orders}
    CubeOf <- OneKey
    Probed = {orders}
    Windowed = {}
    Workers = {w1}
    Home <- AllInOneWorker
    Cancellable = {l1, l2}
    MaxVersion = 2
SYMMETRY SlotSymmetry
PROPERTY
    ImplementsService
