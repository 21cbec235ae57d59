\* One message id, two tasks.
SPECIFICATION FairSpec
CONSTANTS
    None = None
    m1 = m1
    t1 = t1
    t2 = t2
    revenue = revenue
    r0 = r0
    r1 = r1
    MessageIds = {m1}
    Polls = {t1, t2}
    Queries = {revenue}
    Results = {r0, r1}
INVARIANTS
    TypeOK
    OnlySubscribedPoll
    HashIsWhatClientHas
PROPERTIES
    NothingOutlivesClient
    ClientCatchesUp
