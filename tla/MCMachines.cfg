SPECIFICATION MachinesSpec
CONSTANTS
    Nodes = {a, b}
    Minute = 1
    Skew = 0
    MaxEvents = 4
INVARIANTS
    RunningStaysConnected
PROPERTY StoppedGoesOffline
