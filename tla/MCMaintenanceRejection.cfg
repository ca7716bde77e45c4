\* A request that expires in the inbox, and a kill during its rejection.
SPECIFICATION Spec
CONSTANTS
    Requests = {r1, r2}
    Gateways = {g1}
    JobGateways = {}
    Worker = Worker
    Deployments = {d1}
    Installed = d1
    MaxGeneration = 3
    MaxReceipts = 2
    MaxDeaths = 1
    None = None
SYMMETRY Symmetry
INVARIANTS QueuedIsRemembered
CHECK_DEADLOCK FALSE
