CONSTANTS
    Base = 3
    Length = 9
    Marker <- MCMarker
    Firmwares <- MCFirmwares
    Values <- MCValues
    MaxSize = 2
    WearLimit = 2
    MaxWear = 4
SPECIFICATION Spec
INVARIANTS TypeOK StoredAtRest WearIsCounted
PROPERTY DamageIsLocal
