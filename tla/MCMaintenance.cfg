\* Two requests, three deployments, a gateway that may be slow, one kill.
SPECIFICATION FairSpec
CONSTANTS
    Requests = {r1, r2}
    Gateways = {g1}
    JobGateways = {}
    Worker = Worker
    Deployments = {d1, d2, d3}
    Installed = d1
    MaxGeneration = 3
    MaxReceipts = 2
    MaxDeaths = 1
    None = None
INVARIANTS TypeOK BegunOnce ArchiveNameFree ReadersSeeActive
PROPERTIES ReceiptIsFinal ImplementsSelection CompletedIsDone InboxDrains
CHECK_DEADLOCK FALSE
