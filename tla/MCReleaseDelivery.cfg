\* Two requests of two programs with a request file each; of five releases the builder accepts two.
SPECIFICATION Spec
CONSTANTS
    Requests = {r1, r2}
    Files = {f1, f2}
    Clients = {c1, c2}
    Inputs <- Releases
    Reserved = {"con"}
    MaxParts = 3
    Installed = w1
    MaxAttempts = 2
    MaxTickets = 2
    MaxDeaths = 1
    None = None
    w2 = w2
    w3 = w3
    u1 = u1
    u2 = u2
INVARIANTS TypeOK RequestRecoverable InstalledAsPublished FailsForReason
SYMMETRY Symmetry
CHECK_DEADLOCK FALSE
