---------------------------- MODULE Bibliography ----------------------------
(***************************************************************************)
(* Verification of a paper's references against scholarly sources and the  *)
(* cache of their answers on disk (paper-guard-bibliography).  Every       *)
(* review walks its references in order, and the configured sources for    *)
(* each; before it asks one it looks for a stored answer to the same       *)
(* query.  All reviews of a data directory share the cache directory, and  *)
(* nothing locks it: one review reads, rewrites or evicts a file while     *)
(* another is between opening and writing it.                              *)
(*                                                                         *)
(* The sources are arXiv and the slot for Google Scholar, which is never   *)
(* asked; what they say of a reference is ReferenceMatching's.  Listing    *)
(* the directory and reading its files in enforce_bounds is one step.      *)
(***************************************************************************)
EXTENDS ReferenceMatching

CONSTANTS Reviews,     \* the reviews, each with a list of references
          Papers,      \* Papers[r]: the references of r's paper
          Sources,     \* the providers, in the configured order
          Cited,       \* all references of the papers
          FileRank,    \* FileRank[k]: the place of k's file among the names
          SizeOf,      \* SizeOf[status]: bytes of a file with that status
          MaxEntries,  \* the cache's bound on files
          MaxBytes,    \* the cache's bound on bytes
          MaxTime      \* bound: the wall clock

ASSUME BibliographyAssumption ==
    /\ Papers \in [Reviews -> Seq(Cited)]
    /\ Sources \in Seq({"arxiv", "google_scholar"})
    /\ MaxEntries \in Nat \ {0} /\ MaxBytes \in Nat /\ MaxTime \in Nat \ {0}

VARIABLES disk,    \* disk[k]: the cache file of key k
          now,     \* the wall clock
          pc,      \* pc[r]: where review r is
          rows,    \* rows[r]: its results so far
          answer,  \* answer[r]: the answer it stores
          linked,  \* linked[r]: the file it opened is still the one of its key
          evicts   \* evicts[r]: the keys whose files it removes yet, with times

vars == <<disk, now, pc, rows, answer, linked, evicts>>

-----------------------------------------------------------------------------
(* The query of a reference, and what its sources may answer.              *)
Queries == [ref \in Cited |-> QueryDescription(FromReference(ref))]
Query(ref) == Queries[ref]

AllAnswers == [p \in {"arxiv", "google_scholar"} \X Cited |-> Verdicts(p[1], p[2])]
Answers(source, ref) == AllAnswers[<<source, ref>>]

Keys == {<<s, Query(q)>> : s \in {Sources[i] : i \in DOMAIN Sources}, q \in Cited}

(* The reference and the source of the n-th result of r.                   *)
RefAt(r, n) == Papers[r][((n - 1) \div Len(Sources)) + 1]
SourceAt(n) == Sources[((n - 1) % Len(Sources)) + 1]
Total(r) == Len(Papers[r]) * Len(Sources)
Place(r) == Len(rows[r]) + 1
KeyOf(r) == <<SourceAt(Place(r)), Query(RefAt(r, Place(r)))>>

-----------------------------------------------------------------------------
(* Cache files.  A torn one does not parse.  Names of files differ.        *)
ASSUME CacheAssumption ==
    /\ IsFiniteSet(Reviews) /\ IsFiniteSet(Cited)
    /\ FileRank \in Injection(Keys, Nat)
    /\ SizeOf \in [Statuses \cup {"torn"} -> Nat]

Missing == [at |-> 0, row |-> [status |-> "missing"]]
Torn == [at |-> 0, row |-> [status |-> "torn"]]
Present(d) == {k \in Keys : d[k] # Missing}
Bytes(d, ks) == Cardinality(UNION {{k} \X (1..SizeOf[d[k].row.status]) : k \in ks})

(* Mutant: by file name alone.                                             *)
OlderByName(d, j, k) == FileRank[j] < FileRank[k]

(* The order of eviction: by time stored, then by file name.               *)
Older(d, j, k) == \/ d[j].at < d[k].at
                  \/ d[j].at = d[k].at /\ FileRank[j] < FileRank[k]

(* Mutant: one file too many stays.                                        *)
OverdueOffByOne(d) ==
    LET newer(k) == {j \in Present(d) : Older(d, k, j)}
    IN {k \in Present(d) : \/ Cardinality(newer(k)) > MaxEntries
                           \/ Bytes(d, newer(k) \cup {k}) > MaxBytes}

(* The keys whose files go: all but the newest MaxEntries, and then the    *)
(* oldest until the rest fit into MaxBytes.                                *)
Overdue(d) ==
    LET newer(k) == {j \in Present(d) : Older(d, k, j)}
    IN {k \in Present(d) : \/ Cardinality(newer(k)) >= MaxEntries
                           \/ Bytes(d, newer(k) \cup {k}) > MaxBytes}

-----------------------------------------------------------------------------
(* A cache within its bounds, with at most one entry: an answer that was   *)
(* stored by a version that stored failures too.                           *)
Init ==
    /\ \/ disk = [k \in Keys |-> Missing]
       \/ \E q \in Cited, s \in {Sources[i] : i \in DOMAIN Sources} :
             /\ SizeOf["Unavailable"] <= MaxBytes
             /\ disk = [k \in Keys |-> IF k = <<s, Query(q)>>
                                       THEN [at |-> 0, row |-> Row(q, s, "Unavailable", {})]
                                       ELSE Missing]
    /\ now = 1
    /\ pc = [r \in Reviews |-> "get"]
    /\ rows = [r \in Reviews |-> << >>]
    /\ answer = [r \in Reviews |-> Missing]
    /\ linked = [r \in Reviews |-> FALSE]
    /\ evicts = [r \in Reviews |-> {}]

(* A file goes, and with it what others hold open of it.                   *)
Unlink(k) ==
    /\ disk' = [disk EXCEPT ![k] = Missing]
    /\ linked' = [r \in Reviews |-> linked[r] /\ ~(pc[r] = "write" /\ KeyOf(r) = k)]

(* Mutant: what parses is served.                                          *)
UsableParsed(file) == file.row.status \notin {"missing", "torn"}

Usable(file) == file.row.status \notin {"missing", "torn", "Unavailable"}

(* DiskCache::get: a stored answer, flagged as such.                       *)
Hit(r) ==
    /\ pc[r] = "get" /\ Place(r) <= Total(r)
    /\ Usable(disk[KeyOf(r)])
    /\ rows' = [rows EXCEPT ![r] = Append(@, [disk[KeyOf(r)].row EXCEPT !.cached = TRUE])]
    /\ UNCHANGED <<disk, now, pc, answer, linked, evicts>>

(* No answer: a file that does not parse or holds a failure is to go.      *)
Miss(r) ==
    /\ pc[r] = "get" /\ Place(r) <= Total(r)
    /\ ~Usable(disk[KeyOf(r)])
    /\ pc' = [pc EXCEPT ![r] = IF disk[KeyOf(r)] = Missing THEN "fetch" ELSE "drop"]
    /\ UNCHANGED <<disk, now, rows, answer, linked, evicts>>

(* The file of the key goes, whatever it holds by now.                     *)
DropCorrupt(r) ==
    /\ pc[r] = "drop"
    /\ Unlink(KeyOf(r))
    /\ pc' = [pc EXCEPT ![r] = "fetch"]
    /\ UNCHANGED <<now, rows, answer, evicts>>

(* The source answers, at last with a timeout.  Failures are not stored.   *)
(* What is stored is stamped before its file is opened.                    *)
Fetch(r) ==
    /\ pc[r] = "fetch"
    /\ \E row \in Answers(SourceAt(Place(r)), RefAt(r, Place(r))) :
          \/ /\ row.status = "Unavailable"
             /\ rows' = [rows EXCEPT ![r] = Append(@, row)]
             /\ pc' = [pc EXCEPT ![r] = "get"]
             /\ UNCHANGED answer
          \/ /\ row.status # "Unavailable"
             /\ answer' = [answer EXCEPT ![r] = [at |-> now, row |-> row]]
             /\ pc' = [pc EXCEPT ![r] = "open"]
             /\ UNCHANGED rows
    /\ UNCHANGED <<disk, now, linked, evicts>>

(* fs::write opens and truncates the file, or fails to, which is ignored.  *)
OpenEntry(r) ==
    /\ pc[r] = "open"
    /\ \/ /\ disk' = [disk EXCEPT ![KeyOf(r)] = Torn]
          /\ linked' = [linked EXCEPT ![r] = TRUE]
          /\ pc' = [pc EXCEPT ![r] = "write"]
       \/ /\ pc' = [pc EXCEPT ![r] = "sweep"]
          /\ UNCHANGED <<disk, linked>>
    /\ UNCHANGED <<now, rows, answer, evicts>>

(* The entry reaches the file; a write that fails, or one over the bytes   *)
(* of another writer, leaves something that does not parse.                *)
WriteEntry(r) ==
    /\ pc[r] = "write"
    /\ \E file \in {answer[r], Torn} :
          disk' = IF linked[r] THEN [disk EXCEPT ![KeyOf(r)] = file] ELSE disk
    /\ linked' = [linked EXCEPT ![r] = FALSE]
    /\ pc' = [pc EXCEPT ![r] = "sweep"]
    /\ UNCHANGED <<now, rows, answer, evicts>>

(* enforce_bounds reads the directory and decides what goes.               *)
Sweep(r) ==
    /\ pc[r] = "sweep"
    /\ evicts' = [evicts EXCEPT ![r] = {<<k, disk[k].at>> : k \in Overdue(disk)}]
    /\ pc' = [pc EXCEPT ![r] = "evict"]
    /\ UNCHANGED <<disk, now, rows, answer, linked>>

(* The oldest of them is removed next, as old as it was when it was read.  *)
Evict(r) ==
    /\ pc[r] = "evict"
    /\ \E e \in evicts[r] :
          /\ \A f \in evicts[r] : \/ e[2] < f[2]
                                  \/ e[2] = f[2] /\ FileRank[e[1]] <= FileRank[f[1]]
          /\ Unlink(e[1])
          /\ evicts' = [evicts EXCEPT ![r] = @ \ {e}]
    /\ UNCHANGED <<now, pc, rows, answer>>

(* The answer is reported, stored or not.                                  *)
Report(r) ==
    /\ pc[r] = "evict" /\ evicts[r] = {}
    /\ rows' = [rows EXCEPT ![r] = Append(@, answer[r].row)]
    /\ answer' = [answer EXCEPT ![r] = Missing]
    /\ pc' = [pc EXCEPT ![r] = "get"]
    /\ UNCHANGED <<disk, now, linked, evicts>>

Storing == {"write", "sweep", "evict"}

(* The process ends, or the client goes away while arXiv is asked.         *)
Fail(r) ==
    /\ pc[r] \notin {"gone", "cut"} /\ Place(r) <= Total(r)
    /\ pc' = [pc EXCEPT ![r] = IF @ \in Storing THEN "cut" ELSE "gone"]
    /\ linked' = [linked EXCEPT ![r] = FALSE]
    /\ UNCHANGED <<disk, now, rows, answer, evicts>>

(* `bibliography --clear-cache` removes the files one by one, in any order.*)
Clear(k) ==
    /\ disk[k] # Missing
    /\ Unlink(k)
    /\ UNCHANGED <<now, pc, rows, answer, evicts>>

Tick ==
    /\ now < MaxTime
    /\ now' = now + 1
    /\ UNCHANGED <<disk, pc, rows, answer, linked, evicts>>

Next ==
    \/ \E r \in Reviews :
          \/ Hit(r) \/ Miss(r) \/ DropCorrupt(r) \/ Fetch(r) \/ OpenEntry(r)
          \/ WriteEntry(r) \/ Sweep(r) \/ Evict(r) \/ Report(r) \/ Fail(r)
    \/ \E k \in Keys : Clear(k)
    \/ Tick

Spec == Init /\ [][Next]_vars

-----------------------------------------------------------------------------
Rows == [id : {q.id : q \in Cited}, source : {"arxiv", "google_scholar"},
         status : Statuses, mismatches : SUBSET Fields, cached : BOOLEAN]
CacheFiles == [at : 0..MaxTime, row : Rows] \cup {Missing, Torn}

(* Types; a review has an answer to store exactly where it stores one, and *)
(* an open file that is still linked is there.                             *)
TypeOK ==
    /\ disk \in [Keys -> CacheFiles]
    /\ now \in 1..MaxTime
    /\ pc \in [Reviews -> Storing \cup {"get", "drop", "fetch", "open", "gone", "cut"}]
    /\ rows \in [Reviews -> Seq(Rows)]
    /\ answer \in [Reviews -> CacheFiles]
    /\ linked \in [Reviews -> BOOLEAN]
    /\ evicts \in [Reviews -> SUBSET (Keys \X (0..MaxTime))]
    /\ \A r \in Reviews :
          /\ Len(rows[r]) <= Total(r)
          /\ pc[r] \in Storing \cup {"drop", "fetch", "open", "gone", "cut"} => Place(r) <= Total(r)
          /\ pc[r] \in Storing \cup {"open"} => answer[r] \notin {Missing, Torn}
          /\ linked[r] => pc[r] = "write" /\ disk[KeyOf(r)] # Missing

(* What an entry of arXiv has to say for a reference to be confirmed: the  *)
(* title, and nothing that contradicts the citation.                       *)
Agrees(p, entry) ==
    /\ SameTitle(p, entry)
    /\ p.authors = << >> \/ AuthorOverlap(p.authors, entry.authors)
    /\ p.year \in {None, entry.year} \/ entry.year = None
    /\ p.doi \in {None, entry.doi} \/ entry.doi = None
    /\ p.arxiv_id \in {None, entry.id} \/ entry.id = None
    /\ \/ Nothing \in {p.venue, entry.journal_ref} \/ Preprint(p.venue)
       \/ Normalize(p.venue) = Normalize(entry.journal_ref)

Confirmable == [ref \in Cited |->
    LET p == FromReference(ref) IN
    \E x \in Responses[BuildQuery(p)] :
        Fetched(x) /\ \E entry \in ToSet(ParseAtomFeed(x.body)) : Agrees(p, entry)]
Confirmed(ref) == Confirmable[ref]

(* A row that answers the query of r's n-th reference; one from the cache  *)
(* is no failure, and one from the source is about that very reference and *)
(* confirms it only if it agrees.                                          *)
RowFine(row, r, n) ==
    /\ \E q \in Cited : /\ Query(q) = Query(RefAt(r, n))
                        /\ [row EXCEPT !.cached = FALSE] \in Answers(SourceAt(n), q)
                        /\ ~row.cached => q = RefAt(r, n)
    /\ row.cached => row.status # "Unavailable"
    /\ ~row.cached /\ row.status = "Verified" => Confirmed(RefAt(r, n))

(* Whatever the other reviews of the directory write, tear, drop or evict, *)
(* the n-th row of a review is an answer its source gives to the query of  *)
(* its n-th reference, and no failure is ever served from the cache        *)
(* (verify_references).                                                    *)
RowsFaithful == \A r \in Reviews : \A n \in 1..Len(rows[r]) : RowFine(rows[r][n], r, n)

(* The cache is never over its bounds by more than one file for each       *)
(* review that is storing an answer, or that ended while it did: no        *)
(* interleaving of sweeps lets files pile up (DiskCache::enforce_bounds).  *)
CacheBounded ==
    LET over == Cardinality({r \in Reviews : pc[r] \in Storing \cup {"cut"}})
        largest == Max({SizeOf[s] : s \in DOMAIN SizeOf})
    IN /\ Cardinality(Present(disk)) <= MaxEntries + over
       /\ Bytes(disk, Present(disk)) <= MaxBytes + over * largest

(* A sweep keeps no file that was stored before one it evicts, files that  *)
(* do not parse counting as the oldest (cache.rs: "oldest evicted first"). *)
OldestFirst ==
    [][\A r \in Reviews : pc[r] = "sweep" /\ pc'[r] = "evict" =>
          LET going == {e[1] : e \in evicts'[r]}
          IN \A j \in Present(disk) \ going, k \in going : disk[k].at <= disk[j].at]_vars

(* Every reference that is reported as verified is confirmed: "The source  *)
(* entry matches the cited metadata with no contradicting field"           *)
(* (core/bibliography.rs:28).                                              *)
VerifiedMeansAgreement ==
    \A r \in Reviews : \A n \in 1..Len(rows[r]) :
        rows[r][n].status = "Verified" => Confirmed(RefAt(r, n))
=============================================================================
