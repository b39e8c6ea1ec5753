\* Two threads on each side of a queue of two slots, one closer that may call
\* shutdown() any number of times.
SPECIFICATION Spec
CONSTANTS
    Producers = {p1, p2}
    Consumers = {c1, c2}
    Closers = {k1}
    Items = {x, y}
    MaxSize = 2
    NullOpt = NullOpt
INVARIANTS TypeOK NoLostWakeup ShutdownReachesWaiters
PROPERTIES ImplementsBoundedFifo
