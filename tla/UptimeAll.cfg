CONSTANTS
    Tasks = {a, b}
    Ports = {"freertos", "rtthread"}
    Overlap = {"freertos"}
    Rates = {1, 4, 10, 13}
    TickMod = 5
    Width = 397
    Forever = 39
    Thousand = 10
    MaxTime = 12
SPECIFICATION Spec
INVARIANT UptimeIsExact
INVARIANT DelaysAreLongEnough
INVARIANT TicksAreConverted
