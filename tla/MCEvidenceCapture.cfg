\* Two kinds of two jobs, two captures after the same output.
SPECIFICATION Spec
CONSTANTS
    Count = 2
    Jobs <- UnityJobs
    Deployments = {d1, d2}
    Inventories <- HostInventories
    Captures = {a, b}
    MaxEpoch = 2
    MaxEdits = 2
    None = None
SYMMETRY Symmetry
INVARIANTS TypeOK SingleAuthority RefusedForReason
CHECK_DEADLOCK FALSE
