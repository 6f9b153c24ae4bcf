--------------------------- MODULE MemoryRetrieval ---------------------------
(***************************************************************************)
(* What is read from Review Memory (paper-guard-app, memory_service.rs,    *)
(* memory/repo.rs, memory/unit.rs, memory/qdrant.rs): the guidance a       *)
(* review gives its reviewers, the hits of a search, and the units that    *)
(* are exported.  Nothing here changes a store; each operator is evaluated *)
(* on whatever state the races of ReviewMemory have left it in.            *)
(*                                                                         *)
(* A unit is its owner, scope and team; a caller is the owner, the team    *)
(* and the backend of a configuration; a query is whether its text is      *)
(* blank and how similar each unit is to it, which is not at all if their  *)
(* embeddings come from different models.                                  *)
(* The filters by category and reviewer kind, which every caller leaves    *)
(* empty, are left out.                                                    *)
(***************************************************************************)
EXTENDS ReviewMemory, Sequencing

CONSTANTS Order,        \* the order of the store's entries
          AboutUnit,    \* AboutUnit[u]: owner, scope and team of unit u
          Callers,      \* the configurations that read: owner, team, backend
                        \* and embedding_provider
          Queries,      \* q.like[u] for q in Queries: how similar u is to q
          MinSimilarity, TopK

(* What stands before the units in a prompt.                               *)
Warning == "untrusted"

ASSUME RetrievalAssumption ==
    /\ Warning \notin Units
    /\ Order \in Seq(Units) /\ IsInjective(Order) /\ Range(Order) = Units
    /\ AboutUnit \in [Units -> [owner : STRING, scope : {"private", "team"}, team : STRING]]
    /\ Callers \subseteq [owner : STRING, team : STRING, backend : {"file", "qdrant"},
                          embedding_provider : {"mock", "openai-compatible"}]
    /\ Queries \subseteq [blank : BOOLEAN, like : [Units -> Nat]]
    /\ MinSimilarity \in Nat /\ TopK \in Nat

(* ReviewMemoryEntry::accessible_to: an empty owner or team grants nothing.*)
AccessibleTo(u, c) ==
    LET unit == AboutUnit[u] IN
    \/ unit.scope = "private" /\ unit.owner # "" /\ unit.owner = c.owner
    \/ unit.scope = "team" /\ unit.team # "" /\ unit.team = c.team

(* What an embeddings endpoint makes of a query: no connection or no       *)
(* answer in time, an error status, a body that is no JSON, one without    *)
(* data[0].embedding, an empty vector, one with entries that are no        *)
(* numbers, a vector.                                                      *)
EmbeddingReplies == {"unreachable", "refused", "malformed", "missing", "empty", "odd", "vector"}

(* OpenAICompatibleEmbeddingProvider::embed: entries that are no numbers   *)
(* are dropped, which leaves a shorter vector; the rest are errors.        *)
Embed(reply) ==
    CASE reply = "vector" -> "vector"
      [] reply = "odd" -> "shorter"
      [] OTHER -> "none"

(* build_embedder: the vectors a caller may get; the mock does not fail.   *)
QueryVectors(c) ==
    IF c.embedding_provider = "openai-compatible" THEN {Embed(r) : r \in EmbeddingReplies}
    ELSE {"vector"}

(* Vectors of different lengths are not alike.  Where there is none, the   *)
(* file store embeds the query with the mock, whose vectors have no        *)
(* likeness with those of a provider.                                      *)
Similarity(u, q, vector) == IF vector = "vector" THEN q.like[u] ELSE 0

Truncate(s, limit) == SubSeq(s, 1, IF Len(s) <= limit THEN Len(s) ELSE limit)

(* What is more similar comes first.                                       *)
Nearer(q, vector) == {p \in Units \X Units : Similarity(p[1], q, vector) > Similarity(p[2], q, vector)}

Relevant(q, vector) ==
    {u \in Units : Similarity(u, q, vector) > 0 /\ Similarity(u, q, vector) >= MinSimilarity}

(* Mutant: the limit is applied to what matches, the caller's rights to    *)
(* what is left.                                                           *)
RetrieveScoredLimitFirst(store, c, q, vector) ==
    LET approved == Sift(Order, {u \in Units : Retrievable(store[u])})
        relevant == Sift(approved, Relevant(q, vector))
        best == Truncate(IF q.blank THEN approved ELSE Ranked(relevant, Nearer(q, vector)), TopK)
    IN  Sift(best, {u \in Units : AccessibleTo(u, c)})

(* FileReviewMemory::retrieve_scored: approval and rights before scores,   *)
(* a stable sort by score, unless nothing is asked, then the limit.        *)
RetrieveScored(store, c, q, vector) ==
    LET eligible == Sift(Order, {u \in Units : Retrievable(store[u]) /\ AccessibleTo(u, c)})
        relevant == Sift(eligible, Relevant(q, vector))
    IN  Truncate(IF q.blank THEN eligible ELSE Ranked(relevant, Nearer(q, vector)), TopK)

(* QdrantReviewMemory::vector_search: the service answers with the nearest *)
(* points above the threshold, of which those not to be shown are dropped. *)
VectorSearch(q, shown) ==
    LET points == Sift(Order, {u \in Units : mirror[u] # Absent /\ q.like[u] >= MinSimilarity})
        nearest == Ranked(points, Nearer(q, "vector"))
    IN  Sift(Truncate(nearest, IF TopK = 0 THEN 1 ELSE TopK), shown)

(* from_payload: an approval the payload does not spell out is none.       *)
FromPayload(s) == IF Retrievable(s) THEN s ELSE "private"

(* retrieve_context, over the store or over the mirror.  Qdrant refuses a  *)
(* vector that has not the length of its own, and the call fails.          *)
RetrieveContext(store, c, q, vector) ==
    IF ~ModeRetrieves THEN << >>
    ELSE IF c.backend = "file" THEN RetrieveScored(store, c, q, vector)
    ELSE IF vector # "vector" THEN << >>
    ELSE VectorSearch(q, {u \in Units : Retrievable(FromPayload(mirror[u])) /\ AccessibleTo(u, c)})

(* MemoryService::search, for a person at the command line: over the       *)
(* mirror it asks for approval alone.                                      *)
Search(store, c, q, vector) ==
    IF ~ModeRetrieves THEN << >>
    ELSE IF c.backend = "file" THEN RetrieveScored(store, c, q, vector)
    ELSE IF vector # "vector" THEN << >>
    ELSE VectorSearch(q, {u \in Units : Retrievable(mirror[u])})

(* export_training_units, where nothing is asked of the caller.            *)
ExportTrainingUnits(store, limit) ==
    Truncate(Sift(Order, {u \in Units : store[u] = "training_approved"}), limit)

(* The store as a command or a review that starts now opens it.            *)
OpenedNow == IF unreadable THEN EmptyStore ELSE file

(* retrieve_memory_context: the units whose finding and feedback go into   *)
(* the prompts of a review under configuration c.                          *)
Guidance(c, q, vector) == Truncate(RetrieveContext(OpenedNow, c, q, vector), IF TopK = 0 THEN 1 ELSE TopK)

(* render_memory_context: what the prompts are told.  The warning that it  *)
(* is no evidence stands before every unit, and there is none without one. *)
MemoryContext(c, q, vector) ==
    LET units == Guidance(c, q, vector)
    IN IF units = << >> THEN << >> ELSE <<Warning>> \o units

-----------------------------------------------------------------------------
ApprovedOnce(u, grants) == \E k \in 1..Len(decisions) : decisions[k][1] = u /\ decisions[k][2] \in grants

(* Whatever races, faults and restarts have left in the file and in the    *)
(* mirror: a review is guided only by units that a human approved and that *)
(* its configuration may see, a search shows only what a human approved,   *)
(* and nothing is exported that no human released for training; and over   *)
(* the file a unit is never missing because of one the caller may not see, *)
(* nor in favour of a less similar one (repo.rs: "Only MEMORY_APPROVED /   *)
(* TRAINING_APPROVED units that the caller is authorized to access").      *)
GuidanceApproved ==
    /\ \A u \in Range(ExportTrainingUnits(OpenedNow, TopK)) : ApprovedOnce(u, {"approve_training"})
    /\ \A c \in Callers, q \in Queries : \A v \in QueryVectors(c) :
          LET given == Range(MemoryContext(c, q, v)) \ {Warning} IN
          /\ \A u \in given :
                /\ AccessibleTo(u, c)
                /\ ApprovedOnce(u, {"approve_memory", "approve_training"})
          /\ \A u \in Range(Search(OpenedNow, c, q, v)) : ApprovedOnce(u, {"approve_memory", "approve_training"})
          /\ ModeRetrieves /\ c.backend = "file" =>
                \A u \in Units \ given :
                   /\ Retrievable(OpenedNow[u]) /\ AccessibleTo(u, c)
                   /\ q.blank \/ u \in Relevant(q, v)
                   => /\ Cardinality(given) = TopK
                      /\ ~q.blank => \A g \in given : Similarity(g, q, v) >= Similarity(u, q, v)
=============================================================================
