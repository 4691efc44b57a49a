SPECIFICATION Spec
CONSTANTS
    Calls = {c1, c2}
    Users = {alice, bob}
    UserOf <- TwoOwners
    Ops = {"sync", "promote"}
    SlowCalls = FALSE
    MaxFaults = 0
    First = First
    NoSlot = NoSlot
    NoLock = NoLock
    c1 = c1
    c2 = c2
    c3 = c3
    alice = alice
    bob = bob
PROPERTIES
    PromotesCurrent
CHECK_DEADLOCK FALSE
