CONSTANTS
    t1 = t1
    t2 = t2
    t3 = t3
    t4 = t4
    Tracee <- MCTracee
    Pid <- MCPid
    HashSize = 2
    ProotPid = 4
SPECIFICATION Spec
SYMMETRY Symmetry
CHECK_DEADLOCK FALSE
INVARIANTS OneTraceePerPid
