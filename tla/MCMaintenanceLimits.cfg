\* Three requests, one more than receipts, and a generation limit that is met.
SPECIFICATION Spec
CONSTANTS
    Requests = {r1, r2, r3}
    Gateways = {g1}
    JobGateways = {p1}
    Worker = Worker
    Deployments = {d1}
    Installed = d1
    MaxGeneration = 2
    MaxReceipts = 2
    MaxDeaths = 1
    None = None
SYMMETRY Symmetry
INVARIANTS DisabledIsVisible ActiveReadable
CHECK_DEADLOCK FALSE
