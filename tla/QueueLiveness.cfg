\* Two producers, as on the output queue, and two consumers compete for two
\* slots; which item is pushed makes no difference here.
SPECIFICATION WorkerSpec
CONSTANTS
    Producers = {p1, p2}
    Consumers = {c1, c2}
    Closers = {k1}
    Items = {x}
    MaxSize = 2
    NullOpt = NullOpt
PROPERTIES ShutdownReleasesEveryone TimedPopReturns BlockedPushReturns
