SPECIFICATION MCSpec
CONSTANTS
    None = None
    Clients = {c1}
    Runs = {r1, r2}
    Processes = {s1, s2}
    Requests = {q1, q2}
    Tokens = {k1}
    t1 = t1
    t2 = t2
    n1 = n1
    n2 = n2
    n3 = n3
    n4 = n4
    p1 = p1
    Txns = {t1, t2}
    Nests = {n1, n2, n3, n4}
    Parent <- MCParent
    Plains = {p1}
    PlainsWait = TRUE
    NestsInTurn = TRUE
INVARIANTS
    RollbacksAreExact
    ReadersMissNothing
    StartupIsSafe
    
PROPERTIES
    ImplementsAtomicStore
    EveryCallSettles
    StreamsAndStartsEnd
CHECK_DEADLOCK FALSE
