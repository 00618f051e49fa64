SPECIFICATION MCSpec
CONSTANTS
    Cases <- SafetyCases
    Hellos <- MCHellos
    Scripts <- MCScripts
    HelloUnits = 2
    MaxExtra = 1
    MaxRelayed = 3
    RecordHeaderLen = 1
    Size = 4
    CoalescedMin = 2
    OwnLen <- MCOwnLen
    OwnCoalesced = 4
    SessionTickets = FALSE
    Nil = Nil
    ServerNames = {"ours"}
    ShortIds = {"id"}
    MinClientVer <- MCMinClientVer
    MaxClientVer <- MCMaxClientVer
    MaxTimeDiff = 2
    Now = 10
INVARIANTS TypeOK WaitGroupCounts SoleReaders CutAligned PaddingInBounds Imitation RelayBothWaysForOurNames
PROPERTY KeepsPromise
