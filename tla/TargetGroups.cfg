CONSTANTS
    g1 = g1
    g2 = g2
    ip1 = ip1
    a1 = a1
    i1 = i1
    Groups = {g1, g2, ip1}
    IPGroups = {ip1}
    Foreign = {"f"}
    ASGs = {a1}
    Instances = {i1}
    MaxFaults = 1
    None = None
SPECIFICATION TypicalSpec
INVARIANTS
    TargetTypeOK
    NoInstancesInIPGroups
PROPERTIES
    LosesOnlyObsolete
    AttachmentsSettle
    SinglesServed
    ObsoleteRemoved
