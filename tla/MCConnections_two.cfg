\* Two processes dial each other; one of them shuts down.
SPECIFICATION FairSpec
CONSTANTS
    p = p
    q = q
    Nodes = {p, q}
    Dials <- EachOther
    Messages = {m1, m2}
    Long = {m2}
    Stoppers = {q}
    Resets = TRUE
    Hello = Hello
    NoConn = NoConn
INVARIANTS HelloComesFirst
PROPERTIES ImplementsDelivery HandshakesEnd BroadcastsArrive
CHECK_DEADLOCK FALSE
