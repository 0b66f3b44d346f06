\* The motor is started by the protocol; the sensor of the weather is urgent
\* for two steps out of three.
CONSTANTS
    motor = motor
    meteo = meteo
    protocol = protocol
    None = None
    Tasks <- MCTasks
    Steps <- MCSteps
    Movers = {motor}
    Starters = {protocol}
    Immediate = 2
    UsRange = 8
    CountRange = 4
SPECIFICATION FairLoopSpec
PROPERTY ServedAlways
