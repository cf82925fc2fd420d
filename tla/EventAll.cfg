CONSTANTS
    Threads = {t1, t2}
    Ports = {"freertos", "rtthread", "zephyr"}
    Clearing = {"freertos", "rtthread"}
    Bits = {b1, b2, reserved}
    Mask = {b1, b2}
    None = None
SPECIFICATION Spec
SYMMETRY Symmetry
INVARIANT NobodySleepsOnSetBits
PROPERTY ImplementsEventGroup
