\* Three requests, the first cut short by a kill.
SPECIFICATION Spec
CONSTANTS
    Requests = {r1, r2, r3}
    Gateways = {g1}
    JobGateways = {}
    Worker = Worker
    Deployments = {d1}
    Installed = d1
    MaxGeneration = 3
    MaxReceipts = 3
    MaxDeaths = 1
    None = None
SYMMETRY Symmetry
PROPERTIES RepairFirst
CHECK_DEADLOCK FALSE
