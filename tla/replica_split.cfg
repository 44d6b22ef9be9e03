SPECIFICATION Spec
CONSTANTS
    Pods = {a, b}
    Slots = {s1}
    MaxRequests = 4
    MaxRestarts = 0
INVARIANT FindsAll
CHECK_DEADLOCK FALSE
