CONSTANTS
    None = None
    Devices = {d1, d2}
    Plays = {p1, p2}
    Claims = {2}
    Slack = 1
    Idle = 0
    MaxSeq = 1
    MaxFlight = 2
    MaxLost = 1
    MaxNow = 2
SPECIFICATION Spec
SYMMETRY PlaySymmetry
CHECK_DEADLOCK FALSE
INVARIANTS OneHeldPerDevice ListenedInTime KeepsNewest
