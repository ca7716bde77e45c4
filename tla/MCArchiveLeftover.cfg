\* Nothing is interrupted: only the worker is stopped, as every archive does.
SPECIFICATION Spec
CONSTANTS
    Nonces = {n1, n2}
    Gateways = {g1}
    Worker = Worker
    MaxGeneration = 1
    MaxRequests = 2
    MaxInterruptions = 0
    None = None
PROPERTIES RefusedForJobsOnly
CHECK_DEADLOCK FALSE
