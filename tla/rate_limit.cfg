SPECIFICATION Spec
CONSTANTS
    Clients = {c1, c2}
    Window = 2
    Limit = 2
    MaxTime = 7
INVARIANTS TypeOK WithinLimit
PROPERTIES Implements
