--------------------------- MODULE ServiceRuntime ----------------------------
(***************************************************************************)
(* The reviews of the HTTP service on the threads they share               *)
(* (paper-guard-service, api.rs: submit_review; paper-guard-app,           *)
(* pipeline.rs: retrieve_memory_context; paper-guard-cli: #[tokio::main]). *)
(* Each request is a task that one of the runtime's workers polls until it *)
(* awaits something.  What is awaited (an answer, a refused connection, a  *)
(* timeout) reaches the program through the runtime's driver, which is     *)
(* turned by a worker that has nothing else to do.  Memory retrieval does  *)
(* not await: it blocks its worker until it has what it asked for.         *)
(***************************************************************************)
EXTENDS Naturals, FiniteSets

CONSTANTS Submissions,    \* the POST /reviews requests, finitely many
          Workers,        \* worker threads, one for each processor
          RemoteMemory    \* retrieval asks Qdrant or an embedding endpoint

VARIABLES at,      \* at[r]: where the review of submission r is
          woken    \* the tasks that can go on: an event has come for them

runtimeVars == <<at, woken>>

(* "verifying" and "reviewing" are awaits: of arXiv, and of the reviewers. *)
Places == {"absent", "accepted", "verifying", "retrieving", "reviewing", "answered"}

(* A worker is taken only by a task that blocks it: between two awaits a   *)
(* task takes no time that matters here.                                   *)
Blocked == {r \in Submissions : at[r] = "retrieving"}
IdleWorker == Cardinality(Blocked) < Workers

RuntimeInit ==
    /\ at = [r \in Submissions |-> "absent"]
    /\ woken = {}

(* Task r is polled, by a worker that is free, and goes on to place.       *)
Poll(r, from, place) ==
    /\ at[r] = from /\ IdleWorker
    /\ at' = [at EXCEPT ![r] = place]

(* A client connects: an event like any other.                             *)
Accept(r) == Poll(r, "absent", "accepted") /\ UNCHANGED woken

(* resolve_source_path, and run_pipeline up to the first await that really *)
(* waits: the look-up of references that are not in the cache, or else the *)
(* retrieval.                                                              *)
Submit(r) ==
    /\ \/ Poll(r, "accepted", "verifying")
       \/ Poll(r, "accepted", IF RemoteMemory THEN "retrieving" ELSE "reviewing")
    /\ UNCHANGED woken

(* The driver has an event for the task or the thread that waits for it:   *)
(* an answer, an error, or the end of the timeout at the latest.           *)
Turn(r) ==
    /\ IdleWorker
    /\ at[r] \in {"verifying", "retrieving", "reviewing"} /\ r \notin woken
    /\ woken' = woken \cup {r}
    /\ UNCHANGED at

(* The references are looked up: memory is next.                           *)
Verified(r) ==
    /\ r \in woken
    /\ Poll(r, "verifying", IF RemoteMemory THEN "retrieving" ELSE "reviewing")
    /\ woken' = woken \ {r}

(* block_on returns, with memories or without: its thread goes on.         *)
Retrieved(r) ==
    /\ r \in woken /\ at[r] = "retrieving"
    /\ at' = [at EXCEPT ![r] = "reviewing"]
    /\ woken' = woken \ {r}

(* The reviewers are through, and the record is saved.                     *)
Reviewed(r) ==
    /\ r \in woken
    /\ Poll(r, "reviewing", "answered")
    /\ woken' = woken \ {r}

RuntimeNext == \E r \in Submissions :
    Accept(r) \/ Submit(r) \/ Turn(r) \/ Verified(r) \/ Retrieved(r) \/ Reviewed(r)

(* A task that can go on is polled, and an event that is due is delivered, *)
(* when there is a worker to do it.                                        *)
RuntimeFairness ==
    \A r \in Submissions :
        /\ WF_runtimeVars(Submit(r)) /\ WF_runtimeVars(Turn(r))
        /\ WF_runtimeVars(Verified(r)) /\ WF_runtimeVars(Retrieved(r)) /\ WF_runtimeVars(Reviewed(r))

RuntimeSpec == RuntimeInit /\ [][RuntimeNext]_runtimeVars /\ RuntimeFairness

-----------------------------------------------------------------------------
(* Whatever becomes of the retrieval, the review goes on ("A retrieval     *)
(* failure surfaces as MEMORY_UNAVAILABLE (logged) and the review          *)
(* continues without memory", pipeline.rs).                                *)
RetrievalIsHarmless == \A r \in Submissions : (at[r] = "retrieving") ~> (at[r] = "reviewing")
=============================================================================
