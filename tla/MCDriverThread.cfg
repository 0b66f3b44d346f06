\* No third connection: the driver may stop there.
CONSTANTS
    MaxConnections = 2
    SelectMayFail = TRUE
SPECIFICATION FairSpec
INVARIANTS TypeOK ThreadsUseTheirProtocol
PROPERTIES KillReturnsIfSelectWorks RequestServed
CHECK_DEADLOCK FALSE
