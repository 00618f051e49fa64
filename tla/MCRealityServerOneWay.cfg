SPECIFICATION MCSpec
CONSTANTS
    Cases <- LivenessCases
    Hellos <- MCHellos
    Scripts <- MCScripts
    HelloUnits = 1
    MaxExtra = 1
    MaxRelayed = 4
    RecordHeaderLen = 1
    Size = 4
    CoalescedMin = 2
    OwnLen <- MCOwnLen
    OwnCoalesced = 4
    SessionTickets = FALSE
    Nil = Nil
    ServerNames = {"ours"}
    ShortIds = {"id"}
    MinClientVer <- MCMinClientVer
    MaxClientVer <- MCMaxClientVer
    MaxTimeDiff = 2
    Now = 10
INVARIANT RelayBothWays
