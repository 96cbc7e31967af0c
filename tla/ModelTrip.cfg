SPECIFICATION Spec
CONSTANTS
    Models <- EveryModel
    MaxDeviations = 1
    MaxEdits = 1
    MaxTrips = 2
INVARIANTS
    TypeOK
    ThrowsForRequiredOnly
    InstanceOfWarns
PROPERTIES
    KeepsWhatItKnows
    SecondTripChangesNothing
CHECK_DEADLOCK FALSE
