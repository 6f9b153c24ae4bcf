--------------------------- MODULE MCReviewMemory ---------------------------
(* Instances of ReviewMemory: a service with two or three requests in      *)
(* flight, alone or beside a CLI process over the same data directory.     *)
EXTENDS MemoryRetrieval, TLC

CONSTANTS u1, u2, service, cli, r1, r2, r3

Served == [r \in Requests |-> service]
ServedOrCli == [r \in Requests |-> IF r = r3 THEN cli ELSE service]

(* Units are interchangeable, and so are the requests of the service.      *)
Symmetric == Permutations({u1, u2}) \cup Permutations({r1, r2})

(* What is read: a unit of one owner and one of a team; their owner, a     *)
(* member of the team, and the default configuration, which has no owner   *)
(* and the mock for its embeddings.                                        *)
StoreOrder == <<u1, u2>>
OwnAndTeam == u1 :> [owner |-> "ada", scope |-> "private", team |-> ""]
              @@ u2 :> [owner |-> "bo", scope |-> "team", team |-> "lab"]
Readers ==
    {[owner |-> o[1], team |-> o[2], backend |-> b, embedding_provider |-> o[3]] :
       o \in {<<"ada", "", "mock">>, <<"cy", "lab", "openai-compatible">>,
              <<"ada", "lab", "openai-compatible">>, <<"", "", "mock">>},
       b \in {"file", "qdrant"}}
SomeQueries ==
    {[blank |-> FALSE, like |-> u1 :> s[1] @@ u2 :> s[2]] : s \in {<<1, 2>>, <<2, 1>>, <<2, 2>>, <<2, 0>>}}
        \cup {[blank |-> TRUE, like |-> u1 :> 0 @@ u2 :> 0]}
=============================================================================
