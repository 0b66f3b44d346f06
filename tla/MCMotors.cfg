\* Positions wrap at 16 and the coils have 4 phases; the wheel reaches its full
\* speed in two steps, the focuser in none, one or two, as its clients ask.
CONSTANTS
    Wrap = 16
    Phases = 4
    MaxAccel = 2
    Torn <- MCTorn
    NSlots = 2
    SlotTargets <- MCSlots
    WheelAccel = 2
    RawTargets <- MCRaw
    Backlashes <- MCBacklashes
    CtorPosition = 2
    CalibFrom = 8
    CalibTo = 13
    Home = 4
    FocusTargets <- MCFocus
    Center = 4
    FocusAccel = 2
SPECIFICATION MotorsFairSpec
INVARIANTS MotorsTypeOK OffIsArrived  RestIsKnown
PROPERTIES NeverMisled CoilsFollow ComesToRest PlaceKept
