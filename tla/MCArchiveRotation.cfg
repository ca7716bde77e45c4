\* Two requests, one gateway, three attempts to archive, one of them, or
\* of the programs, interrupted.
SPECIFICATION Spec
CONSTANTS
    Nonces = {n1, n2}
    Gateways = {g1}
    Worker = Worker
    MaxGeneration = 3
    MaxRequests = 2
    MaxInterruptions = 1
    None = None
SYMMETRY Symmetry
INVARIANTS TypeOK AcceptedRemembered SwapRecoverable EvidenceKept ArchiveMatchesJournal
PROPERTIES ImplementsLifecycle
CHECK_DEADLOCK FALSE
