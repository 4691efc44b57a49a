SPECIFICATION Spec
CONSTANTS
    Calls = {c1, c2, c3}
    Users = {alice, bob}
    UserOf <- TwoOwners
    Ops = {"create", "sync", "promote", "delete", "capture"}
    SlowCalls = FALSE
    MaxFaults = 2
    First = First
    NoSlot = NoSlot
    NoLock = NoLock
    c1 = c1
    c2 = c2
    c3 = c3
    alice = alice
    bob = bob
INVARIANTS
    SlotBacked
    SnapshotsIncrease
    OneWriter
    LockExplained
CHECK_DEADLOCK FALSE
