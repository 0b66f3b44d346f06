\* As MCDewHeater.cfg.
CONSTANTS
    h1 = h1
    s1 = s1
    s2 = s2
    none = none
    garbage = garbage
    Heaters = {h1}
    Sensors = {s1, s2}
    NoSensor = none
    Garbage = garbage
    SlotCount = 2
SPECIFICATION Spec
INVARIANT PwmIsDefined
