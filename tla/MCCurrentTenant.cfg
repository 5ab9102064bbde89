SPECIFICATION Spec
CONSTANTS
    Tenants = {1, 2}
    None = None
    MaxOps = 1
    MaxChanges = 2
PROPERTIES
    StaysPut
    LandsOnJoined
CHECK_DEADLOCK FALSE
