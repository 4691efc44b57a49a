SPECIFICATION FairSpec
CONSTANTS
    s1 = s1
    s2 = s2
    c1 = c1
    c2 = c2
    Events = {e1}
    Subs = {s1, s2}
    Channels = {c1, c2}
    ChannelOf <- TwoChannels
    MaxAttempts = 2
    BatchSize = 2
    Rate = 1
    MaxLosses = 1
    Volatile = {c1, s2}
    NoDelivery = NoDelivery
INVARIANTS
    ResendsExplained
    FailuresCounted
PROPERTIES
    OutcomeFinal
    DeliveriesSettle
CHECK_DEADLOCK FALSE
