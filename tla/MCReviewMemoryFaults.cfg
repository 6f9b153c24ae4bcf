\* Every fault, two processes and the Qdrant mirror.
CONSTANTS
    u1 = u1
    u2 = u2
    service = service
    cli = cli
    r1 = r1
    r2 = r2
    r3 = r3
    Units = {u1, u2}
    Procs = {service, cli}
    NoRequest = NoRequest
    Requests = {r1, r2, r3}
    ProcOf <- ServedOrCli
    Mode = "read_write"
    UseQdrant = TRUE
    Faults = {"embed", "write", "mirror", "restart", "crash"}
    MaxDecisions = 2
    Order <- StoreOrder
    AboutUnit <- OwnAndTeam
    Callers <- Readers
    Queries <- SomeQueries
    MinSimilarity = 1
    TopK = 1
SPECIFICATION Spec
SYMMETRY Symmetric
INVARIANT HumanConsent
INVARIANT MirrorHoldsApproved
