SPECIFICATION Spec
CONSTANTS
    t1 = t1
    t2 = t2
    n1 = n1
    n2 = n2
    n3 = n3
    b1 = b1
    b2 = b2
    Tracee <- MCTracee
    Name <- MCName
    Base <- MCBase
    Guests <- MCGuests
    MaxSuffix = 2
    MaxCount = 4
    MaxInodes = 2
    MaxFaults = 1
SYMMETRY MCSymmetry
CHECK_DEADLOCK FALSE
INVARIANTS CountMatches
PROPERTIES Implements
