\* Two sensors and two slots: a heater that has lost its sensor saves as a third.
CONSTANTS
    h1 = h1
    s1 = s1
    s2 = s2
    none = none
    garbage = garbage
    Heaters = {h1}
    Sensors = {s1, s2}
    NoSensor = none
    Garbage = garbage
    SlotCount = 2
SPECIFICATION FairSpec
INVARIANTS TypeOK NoBlindHeat StoredOnce
PROPERTIES KeptWhileRoom SensorServed
