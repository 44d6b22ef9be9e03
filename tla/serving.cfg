SPECIFICATION Spec
CONSTANTS
    Pods = {a, b}
    Slots = {s1, s2}
    MaxRequests = 5
    MaxRestarts = 1
SYMMETRY PodSymmetry
INVARIANTS TypeOK SharedStores FindsOwn
CHECK_DEADLOCK FALSE
