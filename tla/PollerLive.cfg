SPECIFICATION FairSpec
CONSTANTS
    b1 = b1
    b2 = b2
    b3 = b3
    w1 = w1
    w2 = w2
    Bots = {b1}
    Workers = {w1, w2}
    Idle = Idle
    MaxEdits = 2
    MaxFaults = 1
INVARIANT OnePollPerBot
PROPERTIES PolledForever DisabledSettles
