CONSTANTS
    Producers = {p1, p2}
    Consumers = {c1, c2}
    NoOne = NoOne
    NoItem = NoItem
    MaxPushes = 3
    MaxCloses = 2
    Capacities <- MCCapacities
SPECIFICATION SafeSpec
INVARIANTS
    TypeOK
    MutexGuardsTheQueue
    WithinCapacity
    PredicatesStand
    BackpressureMeansFull
    NoItemBesideSleeper
    NoSpaceBesideSleeper
    CloseWakesSleepers
PROPERTY
    ActsAsFifo
