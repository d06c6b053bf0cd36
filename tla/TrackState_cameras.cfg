\* The handlers of all camera roles.
SPECIFICATION Spec
CONSTANTS
    Track = {1, 2}
    Zone = {z1, z2}
    Counter = cash_counter
    Announced = announced
    Foot <- Corners
    Tripwires <- Across
    None = None
    Tenth = 4
    TiesUp = {2}
    TrackTTL = 2
    CheckoutDwell = 2
    StaffInterval = 4
    Steps = {1, 3}
    MaxTime = 5
INVARIANTS TypeOK DwellAccounted InOneZone AnnouncedOnTime 
\* The camera is switched off.
CHECK_DEADLOCK FALSE
