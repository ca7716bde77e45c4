\* Two deployments and two rotations, the history quota below the number of requests.
SPECIFICATION ServedSpec
CONSTANTS
    Nonces = {n1, n2, n3}
    Digests = {d1}
    JobIds = {j1, j2, j3}
    Epochs = {e1, e2, e3}
    Deployments = 2
    MaxJobs = 2
    MaxRequests = 2
    MaxKills = 1
    MaxLosses = 0
    MaxRotations = 2
    None = None
SYMMETRY Symmetry
INVARIANTS LaunchedOnce OwnedRun AcceptedJobKept HistoryBounded DispatchMatchesDeployment
PROPERTIES ImplementsService
CHECK_DEADLOCK FALSE
