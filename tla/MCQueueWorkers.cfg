\* Two jobs, three workers one after the other, a rotation between them.
SPECIFICATION FairSpec
CONSTANTS
    Nonces = {n1, n2}
    Digests = {d1}
    JobIds = {j1, j2}
    Epochs = {e1, e2, e3}
    Deployments = 1
    MaxJobs = 2
    MaxRequests = 2
    MaxKills = 0
    MaxLosses = 0
    MaxRotations = 1
    None = None
INVARIANTS TypeOK OutcomeTruthful
PROPERTIES TerminalIsFinal StartedJobEnds
CHECK_DEADLOCK FALSE
