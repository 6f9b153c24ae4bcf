\* A rejection after an approval, the service alone with the Qdrant mirror.
CONSTANTS
    u1 = u1
    u2 = u2
    service = service
    cli = cli
    r1 = r1
    r2 = r2
    r3 = r3
    Units = {u1, u2}
    Procs = {service}
    NoRequest = NoRequest
    Requests = {r1, r2}
    ProcOf <- Served
    Mode = "read_write"
    UseQdrant = TRUE
    Faults = {}
    MaxDecisions = 2
    Order <- StoreOrder
    AboutUnit <- OwnAndTeam
    Callers <- Readers
    Queries <- SomeQueries
    MinSimilarity = 1
    TopK = 1
SPECIFICATION Spec
INVARIANT RejectionHolds
CHECK_DEADLOCK FALSE
