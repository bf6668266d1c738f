SPECIFICATION Spec
CONSTANTS
    QueueSize = 1
    Retries = 1
    MaxCloses = 2
    Sends = {s1, s2}
CHECK_DEADLOCK FALSE
SYMMETRY MCSymmetry
INVARIANTS
    NoneStranded
