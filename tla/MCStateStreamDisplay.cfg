SPECIFICATION Spec
CONSTANTS
    sensor = sensor
    button = button
    Entities <- SensorAndButton
    Transient <- Buttons
    MaxPending = 2
    MaxEvents = 4
    MaxBreaks = 0
    MaxRegrants = 0
INVARIANTS DisplayOnlyRepeats
CHECK_DEADLOCK FALSE
