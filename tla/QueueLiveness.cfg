CONSTANTS
    Producers = {p1, p2}
    Consumers = {c1, c2}
    NoOne = NoOne
    NoItem = NoItem
    MaxPushes = 3
    MaxCloses = 1
    Capacities = {1}
SPECIFICATION Spec
PROPERTIES
    ServesSomebody
    CloseReleasesEveryone
    PushReturns
