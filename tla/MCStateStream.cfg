SPECIFICATION FairSpec
CONSTANTS
    sensor = sensor
    button = button
    Entities <- SensorAndButton
    Transient <- Buttons
    MaxPending = 2
    MaxEvents = 3
    MaxBreaks = 1
    MaxRegrants = 1
INVARIANTS TypeOK StreamInOrder NothingLostSilently
PROPERTIES OnlyGrantedIsPublished BacklogDrains
CHECK_DEADLOCK FALSE
