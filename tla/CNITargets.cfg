CONSTANTS
    p1 = p1
    p2 = p2
    Pods = {p1, p2}
    Groups = {g1}
    Capacity = 1
    MaxFaults = 1
    None = None
SPECIFICATION ScaledSpec
INVARIANT CNITypeOK
PROPERTIES
    KeepsRunning
    RunningServed
    NotifiedRemoved
    PollingContinues
