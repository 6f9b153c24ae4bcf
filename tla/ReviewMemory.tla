---------------------------- MODULE ReviewMemory ----------------------------
(***************************************************************************)
(* Review Memory: the human decisions about review units, as they are      *)
(* kept by paper-guard-app (memory_service.rs, memory/repo.rs and          *)
(* memory/qdrant.rs).  Several processes may run a MemoryService over the  *)
(* same data directory: the HTTP service, each CLI command, and each run   *)
(* of the pipeline, which opens its own.  Each keeps the whole store in    *)
(* memory, read once when it is opened; every mutation rewrites the file.  *)
(* With backend = "qdrant" an approval is also mirrored, over HTTP, into   *)
(* a vector store, and retrieval reads the mirror.                         *)
(*                                                                         *)
(* One step is what runs under one acquisition of the entries mutex, or    *)
(* between two awaits, or one of the two halves of fs::write (truncate,    *)
(* then write): these interleave among requests and processes.  Scopes,    *)
(* similarity and top_k are in MemoryRetrieval.                            *)
(***************************************************************************)
EXTENDS Naturals, Sequences, FiniteSets

CONSTANTS Units,      \* memory ids that record_feedback can allocate
          Procs,      \* processes over one data directory
          Requests,   \* requests in flight
          NoRequest,  \* the holder of a mutex nobody holds
          ProcOf,     \* ProcOf[r]: the process that serves request r
          Mode,       \* the configured [memory] mode, not off
          UseQdrant,  \* backend = "qdrant" rather than "file"
          Faults,     \* which of FaultKinds may happen
          MaxDecisions \* bound: consent requests in a behaviour

FaultKinds == {"embed", "write", "mirror", "restart", "crash"}

ASSUME MemoryAssumption ==
    /\ NoRequest \notin Requests
    /\ ProcOf \in [Requests -> Procs]
    /\ Mode \in {"read_only", "write", "read_write"}
    /\ UseQdrant \in BOOLEAN
    /\ Faults \subseteq FaultKinds
    /\ MaxDecisions \in Nat

VARIABLES open,      \* open[p]: process p runs with its store loaded
          mem,       \* mem[p][u]: the approval state in p's entries
          file,      \* file[u]: the approval state in review_memory.json
          unreadable,      \* the file is truncated or garbled: it does not parse
          mutex,     \* mutex[p]: the request in persist, holding p's mutex
          pc,        \* pc[r]: where request r is
          arg,       \* arg[r]: the unit it is about
          grant,     \* grant[r]: the decision, or Nothing for record_feedback
          overlaid,  \* overlaid[r]: another write ended during r's own
          loaded,    \* loaded[r]: the state r is about to mirror
          mirror,    \* mirror[u]: the approval state in the Qdrant payload
          allocated, \* the memory ids given out so far
          decisions  \* the decisions on known units, <<unit, grant>>, as taken

vars == <<open, mem, file, unreadable, mutex, pc, arg, grant, overlaid, loaded,
          mirror, allocated, decisions>>
requestVars == <<pc, arg, grant, overlaid, loaded>>

Nothing == "nothing"
ApprovalStates == {"private", "memory_approved", "training_approved", "rejected"}
Grants == {"approve_memory", "approve_training", "reject"}
Absent == "absent"
EmptyStore == [u \in Units |-> Absent]
Stores == [Units -> ApprovalStates \cup {Absent}]

(* FileReviewMemory::consent: the state a decision puts a unit in,         *)
(* whatever state it was in.                                               *)
StateOf(g) == CASE g = "approve_memory"   -> "memory_approved"
                [] g = "approve_training" -> "training_approved"
                [] g = "reject"           -> "rejected"

Retrievable(s) == s \in {"memory_approved", "training_approved"}

ModeStores == Mode \in {"write", "read_write"}
ModeRetrieves == Mode \in {"read_only", "read_write"}

(* The requests of p that hold or wait for nothing but the mutex.          *)
Free(r) == mutex[ProcOf[r]] = NoRequest

-----------------------------------------------------------------------------
Init ==
    /\ open = [p \in Procs |-> FALSE]
    /\ mem = [p \in Procs |-> EmptyStore]
    /\ file = EmptyStore
    /\ unreadable = TRUE                        \* there is no file yet
    /\ mutex = [p \in Procs |-> NoRequest]
    /\ pc = [r \in Requests |-> "idle"]
    /\ arg = [r \in Requests |-> Nothing]
    /\ grant = [r \in Requests |-> Nothing]
    /\ overlaid = [r \in Requests |-> FALSE]
    /\ loaded = [r \in Requests |-> Absent]
    /\ mirror = EmptyStore
    /\ allocated = {}
    /\ decisions = << >>

(* The requests in rs are over, and with them their local variables.       *)
Drop(rs) ==
    /\ pc' = [r \in Requests |-> IF r \in rs THEN "idle" ELSE pc[r]]
    /\ arg' = [r \in Requests |-> IF r \in rs THEN Nothing ELSE arg[r]]
    /\ grant' = [r \in Requests |-> IF r \in rs THEN Nothing ELSE grant[r]]
    /\ overlaid' = [r \in Requests |-> r \notin rs /\ overlaid[r]]
    /\ loaded' = [r \in Requests |-> IF r \in rs THEN Absent ELSE loaded[r]]

(* Request r is answered, with success or with an error.                   *)
Answer(r) == Drop({r})

(* MemoryService::new / FileReviewMemory::open: a file that cannot be read *)
(* or parsed counts as an empty store.                                     *)
Open(p) ==
    /\ ~open[p]
    /\ open' = [open EXCEPT ![p] = TRUE]
    /\ mem' = [mem EXCEPT ![p] = IF unreadable THEN EmptyStore ELSE file]
    /\ UNCHANGED <<file, unreadable, mutex, requestVars, mirror, allocated, decisions>>

(* Process p stops.  A restart happens between its requests, a crash at    *)
(* any point: a write under way leaves a truncated file behind.            *)
Stop(p) ==
    /\ open[p]
    /\ \/ "restart" \in Faults /\ \A r \in Requests : ProcOf[r] = p => pc[r] = "idle"
       \/ "crash" \in Faults
    /\ open' = [open EXCEPT ![p] = FALSE]
    /\ mem' = [mem EXCEPT ![p] = EmptyStore]
    /\ mutex' = [mutex EXCEPT ![p] = NoRequest]
    /\ Drop({r \in Requests : ProcOf[r] = p})
    /\ UNCHANGED <<file, unreadable, mirror, allocated, decisions>>

(* record_feedback, up to the await of the embedding: a new memory id.  In *)
(* a mode that does not store, the call returns None and changes nothing.  *)
RecordFeedback(r, u) ==
    /\ open[ProcOf[r]] /\ pc[r] = "idle"
    /\ ModeStores
    /\ u \notin allocated
    /\ allocated' = allocated \cup {u}
    /\ pc' = [pc EXCEPT ![r] = "embedding"]
    /\ arg' = [arg EXCEPT ![r] = u]
    /\ grant' = [grant EXCEPT ![r] = Nothing]
    /\ UNCHANGED <<open, mem, file, unreadable, mutex, overlaid, loaded, mirror, decisions>>

(* Mutant: a unit enters the store approved.                               *)
StoreUnitApproved(r) ==
    /\ pc[r] = "embedding" /\ Free(r)
    /\ mem' = [mem EXCEPT ![ProcOf[r]][arg[r]] = "memory_approved"]
    /\ pc' = [pc EXCEPT ![r] = "persist"]
    /\ UNCHANGED <<open, file, unreadable, mutex, arg, grant, overlaid, loaded, mirror,
                   allocated, decisions>>

(* The embedding arrives; FileReviewMemory::store enters the unit, private.*)
StoreUnit(r) ==
    /\ pc[r] = "embedding" /\ Free(r)
    /\ mem' = [mem EXCEPT ![ProcOf[r]][arg[r]] = "private"]
    /\ pc' = [pc EXCEPT ![r] = "persist"]
    /\ UNCHANGED <<open, file, unreadable, mutex, arg, grant, overlaid, loaded, mirror,
                   allocated, decisions>>

(* The embedding fails: the call returns the error and stores nothing.     *)
EmbedFails(r) ==
    /\ "embed" \in Faults
    /\ pc[r] = "embedding"
    /\ Answer(r)
    /\ UNCHANGED <<open, mem, file, unreadable, mutex, mirror, allocated, decisions>>

(* Mutant: a decision about an id nobody knows makes an entry of it.       *)
ConsentUnknown(r, u, g) ==
    /\ open[ProcOf[r]] /\ pc[r] = "idle" /\ Free(r)
    /\ Len(decisions) < MaxDecisions
    /\ decisions' = Append(decisions, <<u, g>>)
    /\ mem' = [mem EXCEPT ![ProcOf[r]][u] = StateOf(g)]
    /\ pc' = [pc EXCEPT ![r] = "persist"]
    /\ arg' = [arg EXCEPT ![r] = u]
    /\ grant' = [grant EXCEPT ![r] = g]
    /\ UNCHANGED <<open, file, unreadable, mutex, overlaid, loaded, mirror, allocated>>

(* Mutant: a decision reaches every entry, not the one it names.           *)
ConsentAll(r, u, g) ==
    /\ open[ProcOf[r]] /\ pc[r] = "idle" /\ Free(r)
    /\ Len(decisions) < MaxDecisions
    /\ mem[ProcOf[r]][u] # Absent
    /\ decisions' = Append(decisions, <<u, g>>)
    /\ mem' = [mem EXCEPT ![ProcOf[r]] =
                  [v \in Units |-> IF mem[ProcOf[r]][v] = Absent THEN Absent ELSE StateOf(g)]]
    /\ pc' = [pc EXCEPT ![r] = "persist"]
    /\ arg' = [arg EXCEPT ![r] = u]
    /\ grant' = [grant EXCEPT ![r] = g]
    /\ UNCHANGED <<open, file, unreadable, mutex, overlaid, loaded, mirror, allocated>>

(* MemoryService::consent up to FileReviewMemory::consent's mutation.  An  *)
(* id the process does not know is refused.                                *)
Consent(r, u, g) ==
    /\ open[ProcOf[r]] /\ pc[r] = "idle" /\ Free(r)
    /\ Len(decisions) < MaxDecisions
    /\ mem[ProcOf[r]][u] # Absent
    /\ decisions' = Append(decisions, <<u, g>>)
    /\ mem' = [mem EXCEPT ![ProcOf[r]][u] = StateOf(g)]
    /\ pc' = [pc EXCEPT ![r] = "persist"]
    /\ arg' = [arg EXCEPT ![r] = u]
    /\ grant' = [grant EXCEPT ![r] = g]
    /\ UNCHANGED <<open, file, unreadable, mutex, overlaid, loaded, mirror, allocated>>

(* Mutant: persist copies the entries and writes without the mutex.        *)
PersistBeginUnlocked(r) ==
    /\ pc[r] = "persist"
    /\ unreadable' = TRUE
    /\ pc' = [pc EXCEPT ![r] = "writing"]
    /\ overlaid' = [overlaid EXCEPT ![r] = FALSE]
    /\ UNCHANGED <<open, mem, file, mutex, arg, grant, loaded, mirror, allocated, decisions>>

(* persist takes the mutex and opens the file for writing: truncated.      *)
PersistBegin(r) ==
    /\ pc[r] = "persist" /\ Free(r)
    /\ mutex' = [mutex EXCEPT ![ProcOf[r]] = r]
    /\ unreadable' = TRUE
    /\ pc' = [pc EXCEPT ![r] = "writing"]
    /\ overlaid' = [overlaid EXCEPT ![r] = FALSE]
    /\ UNCHANGED <<open, mem, file, arg, grant, loaded, mirror, allocated, decisions>>

(* Mutant: the mutex stays locked while the approval is mirrored.          *)
PersistEndLocked(r) ==
    /\ pc[r] = "writing"
    /\ file' = mem[ProcOf[r]]
    /\ unreadable' = FALSE
    /\ LET mirrors == UseQdrant /\ grant[r] # Nothing
       IN  /\ pc' = [pc EXCEPT ![r] = IF mirrors THEN "mirror" ELSE "idle"]
           /\ mutex' = [mutex EXCEPT ![ProcOf[r]] = IF mirrors THEN r ELSE NoRequest]
           /\ arg' = [arg EXCEPT ![r] = IF mirrors THEN @ ELSE Nothing]
           /\ grant' = [grant EXCEPT ![r] = IF mirrors THEN @ ELSE Nothing]
    /\ UNCHANGED <<open, mem, overlaid, loaded, mirror, allocated, decisions>>

(* The entries as they are now reach the file.  Over the bytes another     *)
(* process has written meanwhile they leave a file that parses or not,     *)
(* depending on the lengths.  A consent in Qdrant mode goes on to mirror.  *)
PersistEnd(r) ==
    /\ pc[r] = "writing"
    /\ file' = mem[ProcOf[r]]
    /\ unreadable' \in IF overlaid[r] THEN BOOLEAN ELSE {FALSE}
    /\ mutex' = [mutex EXCEPT ![ProcOf[r]] = NoRequest]
    /\ LET mirrors == UseQdrant /\ grant[r] # Nothing
       IN  /\ pc' = [pc EXCEPT ![r] = IF mirrors THEN "mirror" ELSE "idle"]
           /\ arg' = [arg EXCEPT ![r] = IF mirrors THEN @ ELSE Nothing]
           /\ grant' = [grant EXCEPT ![r] = IF mirrors THEN @ ELSE Nothing]
    /\ overlaid' = [q \in Requests |-> q # r /\ (pc[q] = "writing" \/ overlaid[q])]
    /\ UNCHANGED <<open, mem, loaded, mirror, allocated, decisions>>

(* fs::write fails, before or after truncating the file: the error is      *)
(* returned and nothing is mirrored, the entries keep their new state.     *)
PersistFails(r) ==
    /\ "write" \in Faults
    /\ \/ pc[r] = "persist" /\ Free(r) /\ UNCHANGED mutex
       \/ pc[r] = "writing" /\ mutex' = [mutex EXCEPT ![ProcOf[r]] = NoRequest]
    /\ Answer(r)
    /\ UNCHANGED <<open, mem, file, unreadable, mirror, allocated, decisions>>

(* Mutant: only what is approved as memory goes on to the mirror.          *)
MirrorLoadMemoryOnly(r) ==
    /\ pc[r] = "mirror" /\ Free(r)
    /\ LET s == mem[ProcOf[r]][arg[r]]
       IN  IF s = "memory_approved"
             THEN /\ pc' = [pc EXCEPT ![r] = "upsert"]
                  /\ loaded' = [loaded EXCEPT ![r] = s]
                  /\ UNCHANGED <<arg, grant, overlaid>>
             ELSE Answer(r)
    /\ UNCHANGED <<open, mem, file, unreadable, mutex, mirror, allocated, decisions>>

(* mirror_to_qdrant, up to the await of the upsert: the entry is loaded    *)
(* again, and only a retrievable one goes on.                              *)
MirrorLoad(r) ==
    /\ pc[r] = "mirror" /\ Free(r)
    /\ LET s == mem[ProcOf[r]][arg[r]]
       IN  IF Retrievable(s)
             THEN /\ pc' = [pc EXCEPT ![r] = "upsert"]
                  /\ loaded' = [loaded EXCEPT ![r] = s]
                  /\ UNCHANGED <<arg, grant, overlaid>>
             ELSE Answer(r)
    /\ UNCHANGED <<open, mem, file, unreadable, mutex, mirror, allocated, decisions>>

(* Mutant: the payload carries the state at the time of the upload.        *)
UpsertCurrent(r) ==
    /\ pc[r] = "upsert"
    /\ mirror' = [mirror EXCEPT ![arg[r]] = mem[ProcOf[r]][arg[r]]]
    /\ Answer(r)
    /\ UNCHANGED <<open, mem, file, unreadable, mutex, allocated, decisions>>

(* Qdrant takes the point: the payload carries the state that was loaded.  *)
Upsert(r) ==
    /\ pc[r] = "upsert"
    /\ mirror' = [mirror EXCEPT ![arg[r]] = loaded[r]]
    /\ Answer(r)
    /\ UNCHANGED <<open, mem, file, unreadable, mutex, allocated, decisions>>

(* The upsert fails: the error is returned, the local approval stands.     *)
UpsertFails(r) ==
    /\ "mirror" \in Faults
    /\ pc[r] = "upsert"
    /\ Answer(r)
    /\ UNCHANGED <<open, mem, file, unreadable, mutex, mirror, allocated, decisions>>

Step(r) == StoreUnit(r) \/ PersistBegin(r) \/ PersistEnd(r) \/ MirrorLoad(r) \/ Upsert(r)

Next ==
    \/ \E p \in Procs : Open(p) \/ Stop(p)
    \/ \E r \in Requests :
          \/ \E u \in Units : RecordFeedback(r, u) \/ \E g \in Grants : Consent(r, u, g)
          \/ Step(r)
          \/ EmbedFails(r) \/ PersistFails(r) \/ UpsertFails(r)

(* A request that has been accepted runs on: the mutex is never held       *)
(* across an await, the embedding and the upsert end in a bounded time.    *)
Fairness == \A r \in Requests : WF_vars(Step(r))

Spec == Init /\ [][Next]_vars
FairSpec == Spec /\ Fairness

-----------------------------------------------------------------------------
(* What the next review retrieves, before scopes and similarity: it opens  *)
(* its own MemoryService, whose retrieve_context reads the mirror in       *)
(* Qdrant mode and the entries just read from the file otherwise.          *)
NextReviewRetrieves ==
    IF ~ModeRetrieves \/ (~UseQdrant /\ unreadable) THEN {}
    ELSE {u \in Units : Retrievable(IF UseQdrant THEN mirror[u] ELSE file[u])}

InFlight(u) == \E r \in Requests : pc[r] # "idle" /\ arg[r] = u
Quiet(p) == \A r \in Requests : ProcOf[r] = p => pc[r] \notin {"persist", "writing"}

(* Every variable stays in its range; a request has the locals its place   *)
(* needs, and the mutex is held by a request that writes.                  *)
TypeOK ==
    /\ open \in [Procs -> BOOLEAN]
    /\ mem \in [Procs -> Stores]
    /\ file \in Stores
    /\ unreadable \in BOOLEAN
    /\ mutex \in [Procs -> Requests \cup {NoRequest}]
    /\ pc \in [Requests -> {"idle", "embedding", "persist", "writing", "mirror", "upsert"}]
    /\ arg \in [Requests -> Units \cup {Nothing}]
    /\ grant \in [Requests -> Grants \cup {Nothing}]
    /\ overlaid \in [Requests -> BOOLEAN]
    /\ loaded \in [Requests -> ApprovalStates \cup {Absent}]
    /\ mirror \in Stores
    /\ allocated \in SUBSET Units
    /\ decisions \in Seq(Units \X Grants)
    /\ \A r \in Requests :
          /\ pc[r] # "idle" => arg[r] \in Units
          /\ IF pc[r] = "upsert" THEN Retrievable(loaded[r]) ELSE loaded[r] = Absent
          /\ mutex[ProcOf[r]] = r <=> pc[r] = "writing"

(* A state that needs no human: the unit is not there, or private.         *)
Decided(u, s) ==
    \/ s \in {Absent, "private"}
    \/ \E k \in 1..Len(decisions) :
          decisions[k][1] = u /\ s = StateOf(decisions[k][2])

(* No copy of any unit, in any process, in the file, in the mirror or on   *)
(* its way there, is ever in a state other than private that no human put  *)
(* that very unit in: no race between requests or processes, no stale      *)
(* copy, torn file, failed write, failed upsert or restart promotes a unit *)
(* (state.rs: "only becomes eligible ... through explicit human consent"). *)
HumanConsent ==
    \A u \in Units :
        /\ \A p \in Procs : Decided(u, mem[p][u])
        /\ Decided(u, file[u])
        /\ Decided(u, mirror[u])
        /\ \A r \in Requests : arg[r] = u => Decided(u, loaded[r])

(* Only approved units are ever uploaded to Qdrant (qdrant.rs), whatever   *)
(* decision overtakes the approval between its mutation and its upload.    *)
MirrorHoldsApproved ==
    \A u \in Units : mirror[u] = Absent \/ Retrievable(mirror[u])

(* A process whose requests are not persisting has exactly its entries on  *)
(* disk: concurrent mutations, each followed by a rewrite of everything,   *)
(* lose nothing, and a restart reads back what was decided.                *)
DurableWhenQuiet ==
    \A p \in Procs :
        open[p] /\ Quiet(p) =>
            /\ file = mem[p]
            /\ unreadable => mem[p] = EmptyStore

(* The last decision on u was to reject it.                                *)
LastRejected(u) ==
    \E k \in 1..Len(decisions) :
        /\ decisions[k] = <<u, "reject">>
        /\ \A j \in k+1..Len(decisions) : decisions[j][1] # u

(* Once the last decision about a unit is a rejection that has been        *)
(* answered, no review that starts from now on retrieves the unit          *)
(* (README.md: "Rejected memory is never returned as guidance and is       *)
(* removed from retrieval/export eligibility").                            *)
RejectionHolds ==
    \A u \in Units : LastRejected(u) /\ ~InFlight(u) => u \notin NextReviewRetrieves

(* A unit the file holds as rejected does not become retrievable again     *)
(* while no request about that unit is under way: only a human's decision  *)
(* on it brings it back (state.rs: "Explicitly reject the unit (it is      *)
(* removed from any retrieval/export)").                                   *)
NoSilentReapproval ==
    [][\A u \in Units : file[u] = "rejected" /\ ~InFlight(u) => ~Retrievable(file'[u])]_vars

(* When no consent is under way every unit the store approves is in the    *)
(* mirror as retrievable: whichever of several overlapping consents on it  *)
(* came last has mirrored it.                                              *)
MirrorCoversApproved ==
    \A p \in Procs, u \in Units :
        open[p] /\ Retrievable(mem[p][u]) /\ ~InFlight(u) => Retrievable(mirror[u])

(* Where one process serves the data directory, it is this one.            *)
Process == CHOOSE p \in Procs : TRUE

(* The registry as that process shows it; while it is closed, the file.    *)
Registry == INSTANCE ConsentRegistry WITH
    status <- IF open[Process] THEN mem[Process] ELSE file

(* One process implements ConsentRegistry: its requests do not interfere,  *)
(* and a restart between them loses no decision.                           *)
ImplementsRegistry == Registry!Spec

(* Every accepted request is answered: no request waits for ever for the   *)
(* mutex of its process.                                                   *)
RequestsAnswered == \A r \in Requests : (pc[r] # "idle") ~> (pc[r] = "idle")
=============================================================================
