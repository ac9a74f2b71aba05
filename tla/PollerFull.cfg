SPECIFICATION Spec
CONSTANTS
    b1 = b1
    b2 = b2
    b3 = b3
    w1 = w1
    w2 = w2
    Bots = {b1, b2, b3}
    Workers = {w1}
    Idle = Idle
    MaxEdits = 0
    MaxFaults = 0
SYMMETRY PollerSymmetry
INVARIANTS TypeOK InFlightIsReal
