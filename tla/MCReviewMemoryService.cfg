\* The service alone with the Qdrant mirror: overlapping requests, embeddings
\* that fail, restarts.
CONSTANTS
    u1 = u1
    u2 = u2
    service = service
    cli = cli
    r1 = r1
    r2 = r2
    r3 = r3
    Units = {u1, u2}
    Procs = {service}
    NoRequest = NoRequest
    Requests = {r1, r2}
    ProcOf <- Served
    Mode = "read_write"
    UseQdrant = TRUE
    Faults = {"embed", "restart"}
    MaxDecisions = 3
    Order <- StoreOrder
    AboutUnit <- OwnAndTeam
    Callers <- Readers
    Queries <- SomeQueries
    MinSimilarity = 1
    TopK = 1
SPECIFICATION FairSpec
INVARIANT DurableWhenQuiet
INVARIANT GuidanceApproved
INVARIANT MirrorCoversApproved
PROPERTY ImplementsRegistry
PROPERTY NoSilentReapproval
PROPERTY RequestsAnswered
