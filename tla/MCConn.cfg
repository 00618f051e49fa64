SPECIFICATION FairSpec
CONSTANTS
    w = w
    r = r
    s = s
    c = c
    h = h
    Free = Free
    Procs <- MCProcs
    Ops <- MCOps
    Cases <- MCCases
    MaxUseless = 1
INVARIANTS TypeOK CompleteMeansNoError NoDataInsideHandshake NothingAfterAlert WireDecrypts HonestRecordsOpen RenegotiationBounded UpdatesInStep
CHECK_DEADLOCK FALSE
PROPERTIES ClosedFreesAll CancelReturns CloseBreaksWrite
