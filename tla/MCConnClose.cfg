SPECIFICATION FairSpec
CONSTANTS
    w = w
    r = r
    s = s
    c = c
    h = h
    Free = Free
    Procs <- MCProcs
    Ops <- MCOps
    Cases <- MCCases
    MaxUseless = 1
PROPERTY CloseReturns
CHECK_DEADLOCK FALSE
