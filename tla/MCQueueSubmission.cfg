\* Requests with two contents, interrupted and retried; one record vanishes, and
\* another deployment is activated.
SPECIFICATION Spec
CONSTANTS
    Nonces = {n1, n2, n3}
    Digests = {d1, d2}
    JobIds = {j1, j2, j3}
    Epochs = {e1}
    Deployments = 2
    MaxJobs = 2
    MaxRequests = 3
    MaxKills = 1
    MaxLosses = 1
    MaxRotations = 0
    None = None
SYMMETRY Symmetry
INVARIANTS OneJobPerRequest JobQuota
CHECK_DEADLOCK FALSE
