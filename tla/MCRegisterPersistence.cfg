SPECIFICATION FairSpec
CONSTANTS
    r1 = r1
    r2 = r2
    g1 = g1
    g2 = g2
    Records = {r1, r2}
    Groups = {g1, g2}
    Unpaired = Unpaired
    MaxKeyChanges = 2
    MaxFaults = 1
INVARIANTS NothingForgotten StopFlushesAll SavedStays
PROPERTIES ChangesReachDisk
