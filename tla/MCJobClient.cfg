\* One job file, two programs at the same time, two deployments.
SPECIFICATION Spec
CONSTANTS
    Nonces = {n1, n2}
    Files = {f1}
    Clients = {c1, c2}
    Deployments = {d1, d2}
    Policy = d1
    None = None
SYMMETRY Symmetry
INVARIANTS TypeOK JobRemembered OnlyApprovedRuns EvidenceTrue ServiceBelieved
CHECK_DEADLOCK FALSE
