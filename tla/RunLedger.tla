----------------------------- MODULE RunLedger -----------------------------
(***************************************************************************)
(* Reviews and the files they leave in the data directory: the manuscript  *)
(* a client uploads (paper-guard-service), the artifacts of a run and its  *)
(* ledger record (paper-guard-app, paper-guard-ledger).  The service runs  *)
(* every POST /reviews to its end in a handler of its own, the CLI runs    *)
(* the same pipeline in its own process; all of them share the directory   *)
(* and nothing locks it.  The run id is chosen when the pipeline starts    *)
(* and is taken only when the record is saved at its end.                  *)
(*                                                                         *)
(* fs::write is two steps, opening (which truncates) and writing.  What    *)
(* the pipeline does between parsing and writing leaves no file here and   *)
(* is the time between two steps: bibliography, reviewers, judge,          *)
(* revision and validation.  A failure of any of these, of a write, of     *)
(* the process, or a client that goes away all end a review where it is.   *)
(***************************************************************************)
EXTENDS Naturals, Sequences, FiniteSets

CONSTANTS Reviews,       \* the submitted reviews; also names their contents
          Uploaded,      \* those submitted to the service with their bytes
          Names,         \* file names of uploads
          NameOf,        \* NameOf[r]: the file name r was uploaded under
          ArtifactFiles, \* the files persist_artifacts writes, in order
          MaxRunId,      \* bound: run ids
          MaxParallel    \* reviews that run at the same time

Missing == "missing"
Torn == "torn"     \* truncated or garbled: not what anybody wrote

ASSUME LedgerAssumption ==
    /\ Missing \notin Reviews /\ Torn \notin Reviews
    /\ Uploaded \subseteq Reviews
    /\ NameOf \in [Uploaded -> Names]
    /\ ArtifactFiles \in Seq(STRING) /\ ArtifactFiles # << >>
    /\ MaxRunId \in Nat
    /\ MaxParallel \in Nat

VARIABLES disk,     \* disk[f]: the content of file f
          pc,       \* pc[r]: where review r is
          id,       \* id[r]: its run id, 0 before it has one
          input,    \* input[r]: the bytes it reviews, hashed into its record
          next,     \* next[r]: the artifact it writes next
          writing,  \* writing[r]: it has a file open and has not written it
          overlaid, \* overlaid[r]: another write to that file ended meanwhile
          before,   \* history: reviews answered before r chose its id
          peers     \* history: reviews in progress at some time while r was

vars == <<disk, pc, id, input, next, writing, overlaid, before, peers>>

Contents == Reviews \cup {Missing, Torn}

Manuscript(name) == <<"manuscript", 0, name>>
Artifact(n, file) == <<"artifact", n, file>>
RunFile(n) == <<"run", n, "ledger">>
RunIds == 1..MaxRunId
ArtifactNames == {ArtifactFiles[k] : k \in 1..Len(ArtifactFiles)}
Files == {Manuscript(name) : name \in Names}
             \cup {Artifact(n, file) : n \in RunIds, file \in ArtifactNames}
             \cup {RunFile(n) : n \in RunIds}

Running == {"upload", "allocate", "parse", "artifacts", "save"}
InProgress == {r \in Reviews : pc[r] \in Running}
Answered == {r \in Reviews : pc[r] = "answered"}

(* The file review r opens or writes where it is.                          *)
Target(r) == CASE pc[r] = "upload"    -> Manuscript(NameOf[r])
               [] pc[r] = "artifacts" -> Artifact(id[r], ArtifactFiles[next[r]])
               [] pc[r] = "save"      -> RunFile(id[r])

(* Mutant: run files that do not parse are not listed.                     *)
ListedReadable(n) == disk[RunFile(n)] \notin {Missing, Torn}

(* LedgerStore::list_runs sees every run file, readable or not.            *)
Listed(n) == disk[RunFile(n)] # Missing

-----------------------------------------------------------------------------
Init ==
    /\ disk = [f \in Files |-> Missing]
    /\ pc = [r \in Reviews |-> "new"]
    /\ id = [r \in Reviews |-> 0]
    /\ input = [r \in Reviews |-> Missing]
    /\ next = [r \in Reviews |-> 1]
    /\ writing = [r \in Reviews |-> FALSE]
    /\ overlaid = [r \in Reviews |-> FALSE]
    /\ before = [r \in Reviews |-> {}]
    /\ peers = [r \in Reviews |-> {}]

(* Mutant: an upload whose file name is there already is not written.      *)
SubmitKeepsExisting(r) ==
    /\ pc[r] = "new"
    /\ Cardinality(InProgress) < MaxParallel
    /\ pc' = [pc EXCEPT ![r] = IF r \in Uploaded /\ disk[Manuscript(NameOf[r])] = Missing
                                 THEN "upload" ELSE "allocate"]
    /\ peers' = [q \in Reviews |-> IF q = r THEN InProgress
                                   ELSE IF q \in InProgress THEN peers[q] \cup {r}
                                   ELSE peers[q]]
    /\ UNCHANGED <<disk, id, input, next, writing, overlaid, before>>

(* A review is submitted: with its bytes, or as a path the process reads.  *)
Submit(r) ==
    /\ pc[r] = "new"
    /\ Cardinality(InProgress) < MaxParallel
    /\ pc' = [pc EXCEPT ![r] = IF r \in Uploaded THEN "upload" ELSE "allocate"]
    /\ peers' = [q \in Reviews |-> IF q = r THEN InProgress
                                   ELSE IF q \in InProgress THEN peers[q] \cup {r}
                                   ELSE peers[q]]
    /\ UNCHANGED <<disk, id, input, next, writing, overlaid, before>>

(* fs::write opens its file: created, or truncated.                        *)
OpenFile(r) ==
    /\ pc[r] \in {"upload", "artifacts", "save"} /\ ~writing[r]
    /\ disk' = [disk EXCEPT ![Target(r)] = Torn]
    /\ writing' = [writing EXCEPT ![r] = TRUE]
    /\ overlaid' = [overlaid EXCEPT ![r] = FALSE]
    /\ UNCHANGED <<pc, id, input, next, before, peers>>

(* Where a review goes when the file it writes is written.                 *)
AfterWrite(r) ==
    CASE pc[r] = "upload"    -> "allocate"
      [] pc[r] = "artifacts" -> IF next[r] < Len(ArtifactFiles) THEN "artifacts" ELSE "save"
      [] pc[r] = "save"      -> "answered"

(* Its bytes reach the file.  Over bytes that another review wrote since   *)
(* they leave its content or a mixture, depending on the lengths.          *)
CloseFile(r) ==
    /\ writing[r]
    /\ \E c \in {r} \cup IF overlaid[r] THEN {Torn} ELSE {} :
          disk' = [disk EXCEPT ![Target(r)] = c]
    /\ writing' = [writing EXCEPT ![r] = FALSE]
    /\ overlaid' = [q \in Reviews |-> /\ q # r
                                      /\ \/ overlaid[q]
                                         \/ writing[q] /\ Target(q) = Target(r)]
    /\ pc' = [pc EXCEPT ![r] = AfterWrite(r)]
    /\ next' = [next EXCEPT ![r] = IF AfterWrite(r) = "artifacts" THEN @ + 1 ELSE @]
    /\ UNCHANGED <<id, input, before, peers>>

(* Mutant: the greatest id of a run file itself.                           *)
AllocateGreatest(r) ==
    /\ pc[r] = "allocate"
    /\ \E n \in RunIds :
          /\ \A m \in RunIds : Listed(m) => m <= n
          /\ Listed(n) \/ (n = 1 /\ \A m \in RunIds : ~Listed(m))
          /\ id' = [id EXCEPT ![r] = n]
    /\ before' = [before EXCEPT ![r] = Answered]
    /\ pc' = [pc EXCEPT ![r] = "parse"]
    /\ UNCHANGED <<disk, input, next, writing, overlaid, peers>>

(* next_run_id: one more than the greatest id of a run file.               *)
Allocate(r) ==
    /\ pc[r] = "allocate"
    /\ \E n \in RunIds :
          /\ \A m \in RunIds : Listed(m) => m < n
          /\ n > 1 => Listed(n - 1)
          /\ id' = [id EXCEPT ![r] = n]
    /\ before' = [before EXCEPT ![r] = Answered]
    /\ pc' = [pc EXCEPT ![r] = "parse"]
    /\ UNCHANGED <<disk, input, next, writing, overlaid, peers>>

(* parse_source_path reads the file the review was given or uploaded; a    *)
(* truncated LaTeX source parses too.  Its hash goes into the record.      *)
Parse(r) ==
    /\ pc[r] = "parse"
    /\ input' = [input EXCEPT ![r] = IF r \in Uploaded THEN disk[Manuscript(NameOf[r])] ELSE r]
    /\ pc' = [pc EXCEPT ![r] = "artifacts"]
    /\ UNCHANGED <<disk, id, next, writing, overlaid, before, peers>>

(* The review ends without an answer; what it has written stays.           *)
Fail(r) ==
    /\ r \in InProgress
    /\ pc' = [pc EXCEPT ![r] = "failed"]
    /\ writing' = [writing EXCEPT ![r] = FALSE]
    /\ overlaid' = [overlaid EXCEPT ![r] = FALSE]
    /\ UNCHANGED <<disk, id, input, next, before, peers>>

Next == \E r \in Reviews :
            \/ Submit(r) \/ OpenFile(r) \/ CloseFile(r) \/ Allocate(r) \/ Parse(r)
            \/ Fail(r)

Spec == Init /\ [][Next]_vars

-----------------------------------------------------------------------------
(* Every variable stays in its range; a review past next_run_id has an id, *)
(* and it has a file open only where it writes one.                        *)
TypeOK ==
    /\ disk \in [Files -> Contents]
    /\ pc \in [Reviews -> Running \cup {"new", "answered", "failed"}]
    /\ id \in [Reviews -> RunIds \cup {0}]
    /\ input \in [Reviews -> Contents]
    /\ next \in [Reviews -> 1..Len(ArtifactFiles)]
    /\ writing \in [Reviews -> BOOLEAN]
    /\ overlaid \in [Reviews -> BOOLEAN]
    /\ before \in [Reviews -> SUBSET Reviews]
    /\ peers \in [Reviews -> SUBSET Reviews]
    /\ \A r \in Reviews :
          /\ pc[r] \in {"parse", "artifacts", "save", "answered"} => id[r] \in RunIds
          /\ writing[r] => pc[r] \in {"upload", "artifacts", "save"}
          /\ pc[r] = "upload" => r \in Uploaded

(* A review that chooses its run id after another has been answered gets a *)
(* later id, whatever failed in between and however their files are torn:  *)
(* no finished run's id is ever given out again (next_run_id).             *)
LaterRunsGetLaterIds ==
    \A r \in Reviews : \A q \in before[r] : id[r] # 0 => id[q] < id[r]

(* A record in the ledger is never changed by a review that did not run at *)
(* the same time as the one that wrote it.                                 *)
SavedRunsKept ==
    [][\A n \in RunIds, q \in Reviews :
          disk[RunFile(n)] = q /\ disk'[RunFile(n)] # q
              => \E r \in peers[q] : id[r] = n /\ pc[r] = "save"]_vars

(* The run of q is what the ledger and every artifact hold under q's id.   *)
Recorded(q) ==
    /\ disk[RunFile(id[q])] = q
    /\ \A file \in ArtifactNames : disk[Artifact(id[q], file)] = q

(* A review that no upload under the same file name overlaps reviews the   *)
(* bytes that were submitted, whatever an earlier upload left there.       *)
ReviewsOwnBytes ==
    \A q \in Reviews :
        input[q] # Missing /\ (\A r \in peers[q] \cap Uploaded :
                                   q \in Uploaded => NameOf[r] # NameOf[q])
            => input[q] = q

(* Every answered review is recorded (api.rs: "a `POST /reviews` completes *)
(* the run and persists it to the ledger before returning"; README.md:     *)
(* "For every run, Paper Guard writes canonical JSON artifacts to the      *)
(* run's data directory").                                                 *)
EveryRunRecorded == \A q \in Answered : Recorded(q)

=============================================================================
