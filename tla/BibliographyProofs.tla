------------------------- MODULE BibliographyProofs -------------------------
(***************************************************************************)
(* Proofs about Bibliography, for any number of reviews, papers, sources   *)
(* and answers: its types, that every row is an answer to the query of its *)
(* reference whatever the reviews do to each other's cache files, and that *)
(* the cache keeps its bounds and evicts the oldest files first.           *)
(*                                                                         *)
(* The argument: a cache file that parses holds an answer to the query of  *)
(* its key, because it was written whole by a review that asked for that   *)
(* key, through a handle that was still the file of the key; and what a    *)
(* review stores is an answer for the reference it is at.  The bounds:     *)
(* whichever reviews still have to finish their sweeps, the files that     *)
(* would then be left exceed the bounds by one for each other busy review  *)
(* at most (BoundsInv).                                                    *)
(***************************************************************************)
EXTENDS Bibliography, SequencingProofs

(* What is in a file that parses answers the query of its key.             *)
EntriesAnswer ==
    \A k \in Keys : disk[k].row.status \notin {"missing", "torn"} =>
        \E q \in Cited : Query(q) = k[2] /\ disk[k].row \in Answers(k[1], q)

(* What a review stores is an answer for the reference it is at.           *)
AnswerOwn ==
    \A r \in Reviews : pc[r] \in Storing \cup {"open"} =>
        answer[r].row \in Answers(SourceAt(Place(r)), RefAt(r, Place(r)))

IInv == TypeOK /\ RowsFaithful /\ EntriesAnswer /\ AnswerOwn

-----------------------------------------------------------------------------
(* The n-th result of a review has a reference and a source.               *)
LEMMA PlanTyped ==
    ASSUME NEW r \in Reviews, NEW n \in 1..Total(r)
    PROVE  /\ RefAt(r, n) \in Cited
           /\ SourceAt(n) \in {Sources[i] : i \in DOMAIN Sources}
           /\ SourceAt(n) \in {"arxiv", "google_scholar"}
           /\ <<SourceAt(n), Query(RefAt(r, n))>> \in Keys
  <1> DEFINE s == Len(Sources)
             p == Len(Papers[r])
             d == (n - 1) \div s
             m == (n - 1) % s
  <1>1. s \in Nat /\ p \in Nat /\ n \in 1..(p * s)
    BY BibliographyAssumption DEF Total
  <1>2. s > 0
    <2>1. s # 0
      BY <1>1
    <2> QED
      BY <1>1, <2>1
  <1>3. d \in Nat /\ m \in 0..(s - 1) /\ n - 1 = s * d + m
    <2> HIDE DEF s
    <2> QED
      BY <1>1, <1>2
  <1>4. d < p
    <2> SUFFICES ASSUME d >= p PROVE FALSE
      BY <1>1, <1>3
    <2> HIDE DEF d, p, s, m
    <2>1. s * d >= s * p
      BY <1>1, <1>3
    <2> QED
      BY <2>1, <1>1, <1>3
  <1>5. d + 1 \in 1..Len(Papers[r]) /\ m + 1 \in 1..Len(Sources)
    BY <1>1, <1>3, <1>4
  <1>6. RefAt(r, n) \in Cited
    BY <1>5, BibliographyAssumption DEF RefAt
  <1>7. m + 1 \in DOMAIN Sources /\ SourceAt(n) = Sources[m + 1]
    BY <1>5, BibliographyAssumption DEF SourceAt
  <1>8. SourceAt(n) \in {"arxiv", "google_scholar"}
    BY <1>7, BibliographyAssumption
  <1> QED
    BY <1>6, <1>7, <1>8 DEF Keys

(* What decide says is a row, and it is confirmed only by an entry that    *)
(* agrees.                                                                 *)
LEMMA DecideRow ==
    ASSUME NEW ref \in Cited, NEW entries
    PROVE  /\ Decide(ref, entries) \in Rows
           /\ Decide(ref, entries).cached = FALSE
           /\ Decide(ref, entries).status = "Verified" =>
                \E i \in DOMAIN entries : Agrees(FromReference(ref), entries[i])
  <1> DEFINE p == FromReference(ref)
  <1>1. CASE ~ \E i \in DOMAIN entries : IsBest(p, entries, i)
    BY <1>1 DEF Decide, Row, Rows, Statuses
  <1>2. CASE \E i \in DOMAIN entries : IsBest(p, entries, i)
    <2> DEFINE i == CHOOSE i \in DOMAIN entries : IsBest(p, entries, i)
               entry == entries[i]
               found == Mismatches(p, entry)
               status == Classify(Score(p, entry), SameTitle(p, entry), found)
    <2>1. i \in DOMAIN entries
      BY <1>2
    <2>2. Decide(ref, entries) = Row(ref, "arxiv", status, found)
      BY <1>2 DEF Decide
    <2> HIDE DEF i, p
    <2>3. found \in SUBSET Fields
      BY DEF Mismatches
    <2>4. status \in Statuses /\ (status = "Verified" => SameTitle(p, entry) /\ found = {})
      <3> HIDE DEF found, entry
      <3> QED
        BY DEF Classify, Statuses
    <2>5. found = {} /\ SameTitle(p, entry) => Agrees(p, entry)
      <3> SUFFICES ASSUME found = {}, SameTitle(p, entry) PROVE Agrees(p, entry)
        OBVIOUS
      <3> HIDE DEF entry
      <3>1. p.authors = << >> \/ AuthorOverlap(p.authors, entry.authors)
        BY DEF Mismatches, Fields
      <3>2. ~Differ(p.year, entry.year) /\ ~Differ(p.doi, entry.doi) /\ ~Differ(p.arxiv_id, entry.id)
        BY DEF Mismatches, Fields
      <3>3. \/ p.venue = Nothing \/ entry.journal_ref = Nothing \/ Preprint(p.venue)
            \/ Normalize(p.venue) = Normalize(entry.journal_ref)
        BY DEF Mismatches, Fields
      <3> QED
        BY <3>1, <3>2, <3>3 DEF Agrees, Differ
    <2> HIDE DEF status, found
    <2>6. status = "Verified" => Agrees(p, entries[i])
      BY <2>4, <2>5
    <2> QED
      BY <2>1, <2>2, <2>3, <2>4, <2>6 DEF Row, Rows, p
  <1> QED
    BY <1>1, <1>2

(* So is what arXiv is taken to say, whatever it sends.                    *)
LEMMA VerifyRow ==
    ASSUME NEW ref \in Cited, NEW x \in Responses[BuildQuery(FromReference(ref))]
    PROVE  /\ Verify(ref, x) \in Rows
           /\ Verify(ref, x).cached = FALSE
           /\ Verify(ref, x).status = "Verified" => Confirmed(ref)
  <1> DEFINE entries == ParseAtomFeed(x.body)
  <1>1. CASE ~Fetched(x)
    BY <1>1 DEF Verify, Row, Rows, Statuses
  <1>2. CASE Fetched(x)
    <2>1. Verify(ref, x) = Decide(ref, entries)
      BY <1>2 DEF Verify
    <2>2. ASSUME NEW i \in DOMAIN entries, Agrees(FromReference(ref), entries[i])
          PROVE  Confirmed(ref)
      <3>1. entries[i] \in ToSet(entries)
        BY DEF ToSet
      <3> HIDE DEF entries
      <3> QED
        BY <1>2, <2>2, <3>1 DEF Confirmed, Confirmable, entries
    <2> HIDE DEF entries
    <2> QED
      BY <2>1, <2>2, DecideRow
  <1> QED
    BY <1>1, <1>2

(* Answers are rows that do not come from the cache.                       *)
LEMMA AnswerRow ==
    ASSUME NEW source \in {"arxiv", "google_scholar"}, NEW ref \in Cited,
           NEW row \in Answers(source, ref)
    PROVE  /\ row \in Rows /\ row.cached = FALSE
           /\ row.status = "Verified" => Confirmed(ref)
           /\ row.status \notin {"missing", "torn"}
  <1> DEFINE sent == Responses[BuildQuery(FromReference(ref))]
  <1>1. CASE row = Row(ref, source, "Unavailable", {})
    BY <1>1 DEF Row, Rows, Statuses
  <1>2. CASE row \in {Verify(ref, x) : x \in sent}
    BY <1>2, VerifyRow DEF Rows, Statuses
  <1>3. row \in Verdicts(source, ref)
    BY DEF Answers, AllAnswers
  <1> QED
    BY <1>1, <1>2, <1>3 DEF Verdicts

-----------------------------------------------------------------------------
(* The key at which a review is.                                           *)
LEMMA KeyTyped ==
    ASSUME TypeOK, NEW r \in Reviews, Place(r) <= Total(r)
    PROVE  /\ Place(r) \in 1..Total(r)
           /\ KeyOf(r) \in Keys
           /\ RefAt(r, Place(r)) \in Cited
           /\ SourceAt(Place(r)) \in {"arxiv", "google_scholar"}
  <1>1. Total(r) \in Nat /\ Place(r) \in Nat /\ Place(r) >= 1
    BY BibliographyAssumption DEF TypeOK, Total, Place
  <1>2. Place(r) \in 1..Total(r)
    BY <1>1
  <1> QED
    BY <1>2, PlanTyped DEF KeyOf

(* A source may always fail to answer.                                     *)
LEMMA InitialAnswer ==
    ASSUME NEW q \in Cited, NEW s \in {Sources[i] : i \in DOMAIN Sources}
    PROVE  Row(q, s, "Unavailable", {}) \in Answers(s, q)
  <1>1. s \in {"arxiv", "google_scholar"}
    BY BibliographyAssumption
  <1>2. Answers(s, q) = Verdicts(s, q)
    BY <1>1 DEF Answers, AllAnswers
  <1> QED
    BY <1>2 DEF Verdicts

LEMMA InitIInv == Init => IInv
  <1> SUFFICES ASSUME Init PROVE IInv
    OBVIOUS
  <1>1. ASSUME NEW q \in Cited, NEW s \in {Sources[i] : i \in DOMAIN Sources}
        PROVE  [at |-> 0, row |-> Row(q, s, "Unavailable", {})] \in CacheFiles
    <2>1. s \in {"arxiv", "google_scholar"}
      BY BibliographyAssumption
    <2>2. Row(q, s, "Unavailable", {}) \in Rows
      BY <2>1 DEF Row, Rows, Statuses
    <2> QED
      BY <2>2, BibliographyAssumption DEF CacheFiles
  <1>2. disk \in [Keys -> CacheFiles]
    BY <1>1 DEF Init, CacheFiles
  <1>3. \A r \in Reviews : Total(r) \in Nat
    BY BibliographyAssumption DEF Total
  <1>4. TypeOK
    BY <1>2, <1>3, BibliographyAssumption DEF Init, TypeOK, CacheFiles, Storing
  <1>5. EntriesAnswer
    <2>1. CASE disk = [k \in Keys |-> Missing]
      BY <2>1 DEF EntriesAnswer, Missing
    <2>2. ASSUME NEW q \in Cited, NEW s \in {Sources[i] : i \in DOMAIN Sources},
                 disk = [k \in Keys |-> IF k = <<s, Query(q)>>
                                    THEN [at |-> 0, row |-> Row(q, s, "Unavailable", {})]
                                    ELSE Missing]
          PROVE  EntriesAnswer
      BY <2>2, InitialAnswer DEF EntriesAnswer, Missing
    <2> QED
      BY <2>1, <2>2 DEF Init
  <1>6. RowsFaithful /\ AnswerOwn
    BY DEF Init, RowsFaithful, AnswerOwn, Storing
  <1> QED
    BY <1>4, <1>5, <1>6 DEF IInv

-----------------------------------------------------------------------------
(* An answer of the source for the very reference is a fine row.           *)
LEMMA AnswerFine ==
    ASSUME NEW r \in Reviews, NEW n \in 1..Total(r),
           NEW row \in Answers(SourceAt(n), RefAt(r, n))
    PROVE  row \in Rows /\ RowFine(row, r, n)
  <1>1. RefAt(r, n) \in Cited /\ SourceAt(n) \in {"arxiv", "google_scholar"}
    BY PlanTyped
  <1>2. row \in Rows /\ row.cached = FALSE /\ (row.status = "Verified" => Confirmed(RefAt(r, n)))
    BY <1>1, AnswerRow
  <1>3. [row EXCEPT !.cached = FALSE] = row
    BY <1>2 DEF Rows
  <1> QED
    BY <1>1, <1>2, <1>3 DEF RowFine

LEMMA AppendFaithful ==
    ASSUME TypeOK, RowsFaithful, NEW r \in Reviews, NEW row \in Rows,
           rows' = [rows EXCEPT ![r] = Append(@, row)], RowFine(row, r, Place(r)),
           Place(r) <= Total(r)
    PROVE  /\ RowsFaithful'
           /\ rows' \in [Reviews -> Seq(Rows)]
           /\ \A q \in Reviews : Len(rows'[q]) <= Total(q)
           /\ \A q \in Reviews \ {r} : rows'[q] = rows[q]
  <1>1. rows \in [Reviews -> Seq(Rows)] /\ Total(r) \in Nat
    BY BibliographyAssumption DEF TypeOK, Total
  <1>2. rows'[r] = Append(rows[r], row) /\ Len(rows'[r]) = Len(rows[r]) + 1
    BY <1>1
  <1>3. rows' \in [Reviews -> Seq(Rows)] /\ \A q \in Reviews \ {r} : rows'[q] = rows[q]
    BY <1>1
  <1>4. ASSUME NEW q \in Reviews, NEW n \in 1..Len(rows'[q]) PROVE RowFine(rows'[q][n], q, n)
    <2>1. CASE q # r
      BY <2>1, <1>3, <1>4 DEF RowsFaithful
    <2>2. CASE q = r /\ n \in 1..Len(rows[r])
      <3>1. rows'[r][n] = rows[r][n]
        BY <2>2, <1>1, <1>2
      <3> QED
        BY <2>2, <3>1 DEF RowsFaithful
    <2>3. CASE q = r /\ n = Len(rows[r]) + 1
      <3>1. rows'[r][n] = row /\ n = Place(r)
        BY <2>3, <1>1, <1>2 DEF Place
      <3> QED
        BY <2>3, <3>1
    <2> QED
      BY <2>1, <2>2, <2>3, <1>1, <1>2
  <1>5. RowsFaithful'
    BY <1>4 DEF RowsFaithful
  <1>6. \A q \in Reviews : Len(rows'[q]) <= Total(q)
    BY <1>1, <1>2, <1>3 DEF TypeOK, Place
  <1> QED
    BY <1>3, <1>5, <1>6

-----------------------------------------------------------------------------
LEMMA HitIInv == ASSUME IInv, NEW r \in Reviews, Hit(r) PROVE IInv'
  <1> DEFINE k == KeyOf(r)
             row == [disk[k].row EXCEPT !.cached = TRUE]
  <1>1. Place(r) \in 1..Total(r) /\ k \in Keys
    BY KeyTyped DEF Hit, IInv
  <1>2. disk[k] \in CacheFiles /\ disk[k].row.status \notin {"missing", "torn", "Unavailable"}
    BY <1>1 DEF Hit, Usable, IInv, TypeOK
  <1>3. disk[k].row \in Rows
    BY <1>2 DEF CacheFiles, Missing, Torn
  <1>4. row \in Rows /\ row.cached = TRUE /\ row.status = disk[k].row.status
    BY <1>3 DEF Rows
  <1>5. PICK q \in Cited : Query(q) = k[2] /\ disk[k].row \in Answers(k[1], q)
    BY <1>1, <1>2 DEF IInv, EntriesAnswer
  <1>6. k[1] = SourceAt(Place(r)) /\ k[2] = Query(RefAt(r, Place(r)))
    BY DEF KeyOf
  <1>7. [row EXCEPT !.cached = FALSE] = disk[k].row
    <2>1. disk[k].row.cached = FALSE
      BY <1>1, <1>5, <1>6, AnswerRow, KeyTyped DEF IInv, Hit
    <2> QED
      BY <2>1, <1>3 DEF Rows
  <1>8. RowFine(row, r, Place(r))
    BY <1>2, <1>4, <1>5, <1>6, <1>7 DEF RowFine
  <1>9. rows' = [rows EXCEPT ![r] = Append(@, row)] /\ Place(r) <= Total(r)
    BY DEF Hit
  <1> HIDE DEF row, k
  <1>10. /\ RowsFaithful'
         /\ rows' \in [Reviews -> Seq(Rows)]
         /\ \A p \in Reviews : Len(rows'[p]) <= Total(p)
         /\ \A p \in Reviews \ {r} : rows'[p] = rows[p]
    BY <1>4, <1>8, <1>9, AppendFaithful DEF IInv
  <1>11. pc[r] = "get" /\ UNCHANGED <<disk, now, pc, answer, linked, evicts>>
    BY DEF Hit
  <1>12. TypeOK'
    BY <1>10, <1>11 DEF IInv, TypeOK, Place, KeyOf, Storing
  <1>13. EntriesAnswer' /\ AnswerOwn'
    BY <1>10, <1>11 DEF IInv, EntriesAnswer, AnswerOwn, Place, Storing
  <1> QED
    BY <1>10, <1>12, <1>13 DEF IInv

LEMMA MissIInv == ASSUME IInv, NEW r \in Reviews, Miss(r) PROVE IInv'
  <1>1. /\ UNCHANGED <<disk, now, rows, answer, linked, evicts>>
        /\ pc[r] = "get" /\ Place(r) <= Total(r)
        /\ pc' \in [Reviews -> Storing \cup {"get", "drop", "fetch", "open", "gone", "cut"}]
        /\ pc'[r] \in {"fetch", "drop"}
        /\ \A q \in Reviews \ {r} : pc'[q] = pc[q]
    BY DEF Miss, IInv, TypeOK
  <1>2. TypeOK'
    BY <1>1 DEF IInv, TypeOK, Place, KeyOf, Storing
  <1>3. RowsFaithful' /\ EntriesAnswer' /\ AnswerOwn'
    BY <1>1 DEF IInv, RowsFaithful, EntriesAnswer, AnswerOwn, Place, Storing
  <1> QED
    BY <1>2, <1>3 DEF IInv

(* A file goes: what is left answers as before, and no one keeps a handle  *)
(* on it.                                                                  *)
LEMMA UnlinkSafe ==
    ASSUME IInv, NEW k \in Keys, Unlink(k)
    PROVE  /\ disk' \in [Keys -> CacheFiles]
           /\ linked' \in [Reviews -> BOOLEAN]
           /\ \A q \in Reviews : linked'[q] => pc[q] = "write" /\ disk'[KeyOf(q)] # Missing
           /\ EntriesAnswer'
  <1>1. disk \in [Keys -> CacheFiles] /\ linked \in [Reviews -> BOOLEAN]
    BY DEF IInv, TypeOK
  <1>2. disk' = [disk EXCEPT ![k] = Missing] /\ Missing \in CacheFiles
    BY DEF Unlink, CacheFiles
  <1>3. disk' \in [Keys -> CacheFiles]
    BY <1>1, <1>2
  <1>4. linked' \in [Reviews -> BOOLEAN]
    BY <1>1 DEF Unlink
  <1>5. ASSUME NEW q \in Reviews, linked'[q]
        PROVE  pc[q] = "write" /\ disk'[KeyOf(q)] # Missing
    <2>1. linked[q] /\ ~(pc[q] = "write" /\ KeyOf(q) = k)
      BY <1>5 DEF Unlink
    <2>2. pc[q] = "write" /\ disk[KeyOf(q)] # Missing /\ Place(q) <= Total(q)
      BY <2>1 DEF IInv, TypeOK, Storing
    <2>3. KeyOf(q) \in Keys
      BY <2>2, KeyTyped DEF IInv
    <2> QED
      BY <2>1, <2>2, <2>3, <1>1, <1>2
  <1>6. EntriesAnswer'
    BY <1>1, <1>2 DEF IInv, EntriesAnswer, Missing
  <1> QED
    BY <1>3, <1>4, <1>5, <1>6

LEMMA DropCorruptIInv == ASSUME IInv, NEW r \in Reviews, DropCorrupt(r) PROVE IInv'
  <1>1. /\ UNCHANGED <<now, rows, answer, evicts>>
        /\ pc[r] = "drop" /\ Unlink(KeyOf(r)) /\ Place(r) <= Total(r)
        /\ pc' \in [Reviews -> Storing \cup {"get", "drop", "fetch", "open", "gone", "cut"}]
        /\ pc'[r] = "fetch"
        /\ \A q \in Reviews \ {r} : pc'[q] = pc[q]
    BY DEF DropCorrupt, IInv, TypeOK
  <1>2. KeyOf(r) \in Keys
    BY <1>1, KeyTyped DEF IInv
  <1>3. /\ disk' \in [Keys -> CacheFiles]
        /\ linked' \in [Reviews -> BOOLEAN]
        /\ \A q \in Reviews : linked'[q] => pc[q] = "write" /\ disk'[KeyOf(q)] # Missing
        /\ EntriesAnswer'
    BY <1>1, <1>2, UnlinkSafe
  <1>4. TypeOK'
    BY <1>1, <1>3 DEF IInv, TypeOK, Place, KeyOf, Storing
  <1>5. RowsFaithful' /\ AnswerOwn'
    BY <1>1 DEF IInv, RowsFaithful, AnswerOwn, Place, Storing
  <1> QED
    BY <1>3, <1>4, <1>5 DEF IInv

LEMMA FetchIInv == ASSUME IInv, NEW r \in Reviews, Fetch(r) PROVE IInv'
  <1> DEFINE source == SourceAt(Place(r))
             ref == RefAt(r, Place(r))
  <1>1. UNCHANGED <<disk, now, linked, evicts>> /\ pc[r] = "fetch" /\ Place(r) <= Total(r)
    BY DEF Fetch, IInv, TypeOK
  <1>2. Place(r) \in 1..Total(r)
    BY <1>1, KeyTyped DEF IInv
  <1>3. PICK row \in Answers(source, ref) :
          \/ /\ rows' = [rows EXCEPT ![r] = Append(@, row)]
             /\ pc' = [pc EXCEPT ![r] = "get"]
             /\ UNCHANGED answer
          \/ /\ answer' = [answer EXCEPT ![r] = [at |-> now, row |-> row]]
             /\ pc' = [pc EXCEPT ![r] = "open"]
             /\ UNCHANGED rows
    BY DEF Fetch
  <1>4. row \in Rows /\ RowFine(row, r, Place(r))
    BY <1>2, AnswerFine
  <1>5. /\ pc' \in [Reviews -> Storing \cup {"get", "drop", "fetch", "open", "gone", "cut"}]
        /\ pc'[r] \in {"get", "open"}
        /\ \A q \in Reviews \ {r} : pc'[q] = pc[q]
    BY <1>3 DEF IInv, TypeOK
  <1>6. CASE /\ rows' = [rows EXCEPT ![r] = Append(@, row)]
             /\ pc' = [pc EXCEPT ![r] = "get"]
             /\ UNCHANGED answer
    <2>1. /\ RowsFaithful'
          /\ rows' \in [Reviews -> Seq(Rows)]
          /\ \A q \in Reviews : Len(rows'[q]) <= Total(q)
          /\ \A q \in Reviews \ {r} : rows'[q] = rows[q]
      BY <1>1, <1>4, <1>6, AppendFaithful DEF IInv
    <2>2. pc'[r] = "get"
      BY <1>6 DEF IInv, TypeOK
    <2>3. TypeOK'
      BY <1>1, <1>5, <1>6, <2>1, <2>2 DEF IInv, TypeOK, Place, KeyOf, Storing
    <2>4. EntriesAnswer' /\ AnswerOwn'
      BY <1>1, <1>5, <1>6, <2>1, <2>2 DEF IInv, EntriesAnswer, AnswerOwn, Place, Storing
    <2> QED
      BY <2>1, <2>3, <2>4 DEF IInv
  <1>7. CASE /\ answer' = [answer EXCEPT ![r] = [at |-> now, row |-> row]]
             /\ pc' = [pc EXCEPT ![r] = "open"]
             /\ UNCHANGED rows
    <2>1. [at |-> now, row |-> row] \in CacheFiles
      BY <1>4 DEF CacheFiles, IInv, TypeOK
    <2>2. row.status \notin {"missing", "torn"}
      BY <1>4 DEF Rows, Statuses
    <2>3. /\ answer' \in [Reviews -> CacheFiles]
          /\ answer'[r] = [at |-> now, row |-> row]
          /\ \A q \in Reviews \ {r} : answer'[q] = answer[q]
      BY <1>7, <2>1 DEF IInv, TypeOK
    <2>4. answer'[r] \notin {Missing, Torn}
      BY <2>2, <2>3 DEF Missing, Torn
    <2>5. TypeOK'
      BY <1>1, <1>5, <1>7, <2>3, <2>4 DEF IInv, TypeOK, Place, KeyOf, Storing
    <2>6. AnswerOwn'
      BY <1>5, <1>7, <2>3 DEF IInv, AnswerOwn, Place, Storing
    <2>7. RowsFaithful' /\ EntriesAnswer'
      BY <1>1, <1>7 DEF IInv, RowsFaithful, EntriesAnswer
    <2> QED
      BY <2>5, <2>6, <2>7 DEF IInv
  <1> QED
    BY <1>3, <1>6, <1>7

LEMMA OpenEntryIInv == ASSUME IInv, NEW r \in Reviews, OpenEntry(r) PROVE IInv'
  <1>1. /\ UNCHANGED <<now, rows, answer, evicts>>
        /\ pc[r] = "open" /\ Place(r) <= Total(r)
        /\ pc' \in [Reviews -> Storing \cup {"get", "drop", "fetch", "open", "gone", "cut"}]
        /\ pc'[r] \in Storing
        /\ \A q \in Reviews \ {r} : pc'[q] = pc[q]
    BY DEF OpenEntry, IInv, TypeOK, Storing
  <1>2. KeyOf(r) \in Keys
    BY <1>1, KeyTyped DEF IInv
  <1>3. RowsFaithful' /\ AnswerOwn'
    BY <1>1 DEF IInv, RowsFaithful, AnswerOwn, Place, Storing
  <1>4. disk \in [Keys -> CacheFiles] /\ linked \in [Reviews -> BOOLEAN]
    BY DEF IInv, TypeOK
  <1>5. CASE /\ disk' = [disk EXCEPT ![KeyOf(r)] = Torn]
             /\ linked' = [linked EXCEPT ![r] = TRUE]
             /\ pc' = [pc EXCEPT ![r] = "write"]
    <2>1. Torn \in CacheFiles /\ Torn # Missing
      BY DEF CacheFiles, Torn, Missing
    <2>2. disk' \in [Keys -> CacheFiles] /\ linked' \in [Reviews -> BOOLEAN]
      BY <1>4, <1>5, <2>1
    <2>3. pc'[r] = "write"
      BY <1>5 DEF IInv, TypeOK
    <2>4. ASSUME NEW q \in Reviews, linked'[q]
          PROVE  pc'[q] = "write" /\ disk'[KeyOf(q)] # Missing
      <3>1. CASE q = r
        BY <3>1, <2>1, <2>3, <1>2, <1>4, <1>5
      <3>2. CASE q # r
        <4>1. pc[q] = "write" /\ disk[KeyOf(q)] # Missing /\ Place(q) <= Total(q)
          BY <3>2, <2>4, <1>4, <1>5 DEF IInv, TypeOK, Storing
        <4>2. KeyOf(q) \in Keys
          BY <4>1, KeyTyped DEF IInv
        <4> QED
          BY <3>2, <4>1, <4>2, <2>1, <1>1, <1>4, <1>5
      <3> QED
        BY <3>1, <3>2
    <2>5. KeyOf(r)' = KeyOf(r) /\ \A q \in Reviews : KeyOf(q)' = KeyOf(q)
      BY <1>1 DEF KeyOf, Place
    <2>6. TypeOK'
      BY <1>1, <2>2, <2>4, <2>5 DEF IInv, TypeOK, Place, Storing
    <2>7. EntriesAnswer'
      BY <1>4, <1>5 DEF IInv, EntriesAnswer, Torn
    <2> QED
      BY <1>3, <2>6, <2>7 DEF IInv
  <1>6. CASE pc' = [pc EXCEPT ![r] = "sweep"] /\ UNCHANGED <<disk, linked>>
    <2>1. TypeOK'
      BY <1>1, <1>6 DEF IInv, TypeOK, Place, KeyOf, Storing
    <2>2. EntriesAnswer'
      BY <1>6 DEF IInv, EntriesAnswer
    <2> QED
      BY <1>3, <2>1, <2>2 DEF IInv
  <1> QED
    BY <1>5, <1>6 DEF OpenEntry

LEMMA WriteEntryIInv == ASSUME IInv, NEW r \in Reviews, WriteEntry(r) PROVE IInv'
  <1>1. /\ UNCHANGED <<now, rows, answer, evicts>>
        /\ pc[r] = "write" /\ Place(r) <= Total(r)
        /\ pc' \in [Reviews -> Storing \cup {"get", "drop", "fetch", "open", "gone", "cut"}]
        /\ pc'[r] = "sweep"
        /\ \A q \in Reviews \ {r} : pc'[q] = pc[q]
        /\ linked' \in [Reviews -> BOOLEAN]
        /\ ~linked'[r]
        /\ \A q \in Reviews \ {r} : linked'[q] = linked[q]
    BY DEF WriteEntry, IInv, TypeOK, Storing
  <1>2. /\ KeyOf(r) \in Keys
        /\ RefAt(r, Place(r)) \in Cited
        /\ KeyOf(r)[1] = SourceAt(Place(r)) /\ KeyOf(r)[2] = Query(RefAt(r, Place(r)))
    BY <1>1, KeyTyped DEF IInv, KeyOf
  <1>3. RowsFaithful' /\ AnswerOwn'
    BY <1>1 DEF IInv, RowsFaithful, AnswerOwn, Place, Storing
  <1>4. disk \in [Keys -> CacheFiles]
    BY DEF IInv, TypeOK
  <1>5. PICK file \in {answer[r], Torn} :
          disk' = IF linked[r] THEN [disk EXCEPT ![KeyOf(r)] = file] ELSE disk
    BY DEF WriteEntry
  <1>6. file \in CacheFiles /\ file # Missing
    BY <1>1, <1>5 DEF IInv, TypeOK, Storing, CacheFiles, Torn, Missing
  <1>7. disk' \in [Keys -> CacheFiles]
    BY <1>4, <1>5, <1>6
  <1>8. \A k \in Keys : disk'[k] \in {disk[k], file}
    BY <1>4, <1>5
  <1>9. TypeOK'
    <2>1. ASSUME NEW q \in Reviews, linked'[q]
          PROVE  pc'[q] = "write" /\ disk'[KeyOf(q)] # Missing
      <3>1. q # r /\ linked[q] /\ pc'[q] = pc[q]
        BY <1>1, <2>1
      <3>2. pc[q] = "write" /\ disk[KeyOf(q)] # Missing /\ Place(q) <= Total(q)
        BY <3>1 DEF IInv, TypeOK, Storing
      <3>3. KeyOf(q) \in Keys
        BY <3>2, KeyTyped DEF IInv
      <3> QED
        BY <3>1, <3>2, <3>3, <1>6, <1>8
    <2>2. \A q \in Reviews : KeyOf(q)' = KeyOf(q)
      BY <1>1 DEF KeyOf, Place
    <2> QED
      BY <1>1, <1>7, <2>1, <2>2 DEF IInv, TypeOK, Place, Storing
  <1>10. EntriesAnswer'
    <2>1. \A k \in Keys \ {KeyOf(r)} : disk'[k] = disk[k]
      BY <1>4, <1>5
    <2>2. answer[r].row \in Answers(KeyOf(r)[1], RefAt(r, Place(r)))
      BY <1>1, <1>2 DEF IInv, AnswerOwn, Storing
    <2>3. disk'[KeyOf(r)] \in {disk[KeyOf(r)], answer[r], Torn}
      BY <1>2, <1>5, <1>8
    <2>4. disk'[KeyOf(r)].row.status \notin {"missing", "torn"} =>
            \E q \in Cited : /\ Query(q) = KeyOf(r)[2]
                             /\ disk'[KeyOf(r)].row \in Answers(KeyOf(r)[1], q)
      <3>1. CASE disk'[KeyOf(r)] = disk[KeyOf(r)]
        BY <3>1, <1>2 DEF IInv, EntriesAnswer
      <3>2. CASE disk'[KeyOf(r)] = answer[r]
        BY <3>2, <2>2, <1>2
      <3>3. CASE disk'[KeyOf(r)] = Torn
        BY <3>3 DEF Torn
      <3> QED
        BY <2>3, <3>1, <3>2, <3>3
    <2> QED
      BY <2>1, <2>4 DEF IInv, EntriesAnswer
  <1> QED
    BY <1>3, <1>9, <1>10 DEF IInv

LEMMA SweepIInv == ASSUME IInv, NEW r \in Reviews, Sweep(r) PROVE IInv'
  <1>1. /\ UNCHANGED <<disk, now, rows, answer, linked>>
        /\ pc[r] = "sweep" /\ Place(r) <= Total(r)
        /\ pc' \in [Reviews -> Storing \cup {"get", "drop", "fetch", "open", "gone", "cut"}]
        /\ pc'[r] = "evict"
        /\ \A q \in Reviews \ {r} : pc'[q] = pc[q]
    BY DEF Sweep, IInv, TypeOK, Storing
  <1>2. {<<k, disk[k].at>> : k \in Overdue(disk)} \in SUBSET (Keys \X (0..MaxTime))
    <2>1. \A k \in Present(disk) : k \in Keys /\ disk[k].at \in 0..MaxTime
      BY BibliographyAssumption DEF Present, IInv, TypeOK, CacheFiles, Missing, Torn
    <2>2. Overdue(disk) \subseteq Present(disk)
      BY DEF Overdue
    <2> QED
      BY <2>1, <2>2
  <1>3. evicts' \in [Reviews -> SUBSET (Keys \X (0..MaxTime))]
    BY <1>2 DEF Sweep, IInv, TypeOK
  <1>4. TypeOK'
    BY <1>1, <1>3 DEF IInv, TypeOK, Place, KeyOf, Storing
  <1>5. RowsFaithful' /\ EntriesAnswer' /\ AnswerOwn'
    BY <1>1 DEF IInv, RowsFaithful, EntriesAnswer, AnswerOwn, Place, Storing
  <1> QED
    BY <1>4, <1>5 DEF IInv

LEMMA EvictIInv == ASSUME IInv, NEW r \in Reviews, Evict(r) PROVE IInv'
  <1>1. UNCHANGED <<now, pc, rows, answer>>
    BY DEF Evict
  <1>2. PICK e \in evicts[r] : Unlink(e[1]) /\ evicts' = [evicts EXCEPT ![r] = @ \ {e}]
    BY DEF Evict
  <1>3. e[1] \in Keys /\ evicts' \in [Reviews -> SUBSET (Keys \X (0..MaxTime))]
    BY <1>2 DEF IInv, TypeOK
  <1>4. /\ disk' \in [Keys -> CacheFiles]
        /\ linked' \in [Reviews -> BOOLEAN]
        /\ \A q \in Reviews : linked'[q] => pc[q] = "write" /\ disk'[KeyOf(q)] # Missing
        /\ EntriesAnswer'
    BY <1>2, <1>3, UnlinkSafe
  <1>5. TypeOK'
    BY <1>1, <1>3, <1>4 DEF IInv, TypeOK, Place, KeyOf, Storing
  <1>6. RowsFaithful' /\ AnswerOwn'
    BY <1>1 DEF IInv, RowsFaithful, AnswerOwn, Place, Storing
  <1> QED
    BY <1>4, <1>5, <1>6 DEF IInv

LEMMA ClearIInv == ASSUME IInv, NEW k \in Keys, Clear(k) PROVE IInv'
  <1>1. UNCHANGED <<now, pc, rows, answer, evicts>> /\ Unlink(k)
    BY DEF Clear
  <1>2. /\ disk' \in [Keys -> CacheFiles]
        /\ linked' \in [Reviews -> BOOLEAN]
        /\ \A q \in Reviews : linked'[q] => pc[q] = "write" /\ disk'[KeyOf(q)] # Missing
        /\ EntriesAnswer'
    BY <1>1, UnlinkSafe
  <1>3. TypeOK'
    BY <1>1, <1>2 DEF IInv, TypeOK, Place, KeyOf, Storing
  <1>4. RowsFaithful' /\ AnswerOwn'
    BY <1>1 DEF IInv, RowsFaithful, AnswerOwn, Place, Storing
  <1> QED
    BY <1>2, <1>3, <1>4 DEF IInv

LEMMA ReportIInv == ASSUME IInv, NEW r \in Reviews, Report(r) PROVE IInv'
  <1> DEFINE row == answer[r].row
  <1>1. /\ UNCHANGED <<disk, now, linked, evicts>>
        /\ pc[r] = "evict" /\ Place(r) <= Total(r)
        /\ rows' = [rows EXCEPT ![r] = Append(@, row)]
        /\ pc' \in [Reviews -> Storing \cup {"get", "drop", "fetch", "open", "gone", "cut"}]
        /\ pc'[r] = "get"
        /\ \A q \in Reviews \ {r} : pc'[q] = pc[q]
    BY DEF Report, IInv, TypeOK, Storing
  <1>2. /\ answer' \in [Reviews -> CacheFiles]
        /\ \A q \in Reviews \ {r} : answer'[q] = answer[q]
    BY DEF Report, IInv, TypeOK, CacheFiles
  <1>3. Place(r) \in 1..Total(r)
    BY <1>1, KeyTyped DEF IInv
  <1>4. row \in Answers(SourceAt(Place(r)), RefAt(r, Place(r)))
    BY <1>1 DEF IInv, AnswerOwn, Storing
  <1>5. row \in Rows /\ RowFine(row, r, Place(r))
    BY <1>3, <1>4, AnswerFine
  <1> HIDE DEF row
  <1>6. /\ RowsFaithful'
        /\ rows' \in [Reviews -> Seq(Rows)]
        /\ \A q \in Reviews : Len(rows'[q]) <= Total(q)
        /\ \A q \in Reviews \ {r} : rows'[q] = rows[q]
    BY <1>1, <1>5, AppendFaithful DEF IInv
  <1>7. ~linked[r]
    BY <1>1 DEF IInv, TypeOK
  <1>8. TypeOK'
    BY <1>1, <1>2, <1>6, <1>7 DEF IInv, TypeOK, Place, KeyOf, Storing
  <1>9. EntriesAnswer' /\ AnswerOwn'
    BY <1>1, <1>2, <1>6 DEF IInv, EntriesAnswer, AnswerOwn, Place, Storing
  <1> QED
    BY <1>6, <1>8, <1>9 DEF IInv

LEMMA FailIInv == ASSUME IInv, NEW r \in Reviews, Fail(r) PROVE IInv'
  <1>1. /\ UNCHANGED <<disk, now, rows, answer, evicts>>
        /\ Place(r) <= Total(r)
        /\ pc' \in [Reviews -> Storing \cup {"get", "drop", "fetch", "open", "gone", "cut"}]
        /\ pc'[r] \in {"gone", "cut"}
        /\ \A q \in Reviews \ {r} : pc'[q] = pc[q]
        /\ linked' \in [Reviews -> BOOLEAN]
        /\ ~linked'[r]
        /\ \A q \in Reviews \ {r} : linked'[q] = linked[q]
    BY DEF Fail, IInv, TypeOK, Storing
  <1>2. TypeOK'
    BY <1>1 DEF IInv, TypeOK, Place, KeyOf, Storing
  <1>3. RowsFaithful' /\ EntriesAnswer' /\ AnswerOwn'
    BY <1>1 DEF IInv, RowsFaithful, EntriesAnswer, AnswerOwn, Place, Storing
  <1> QED
    BY <1>2, <1>3 DEF IInv

LEMMA QuietIInv == ASSUME IInv, Tick \/ UNCHANGED vars PROVE IInv'
  <1>1. UNCHANGED <<disk, pc, rows, answer, linked, evicts>> /\ now' \in 1..MaxTime
    BY BibliographyAssumption DEF Tick, vars, IInv, TypeOK
  <1>2. TypeOK'
    BY <1>1 DEF IInv, TypeOK, Place, KeyOf, Storing
  <1>3. RowsFaithful' /\ EntriesAnswer' /\ AnswerOwn'
    BY <1>1 DEF IInv, RowsFaithful, EntriesAnswer, AnswerOwn, Place, Storing
  <1> QED
    BY <1>2, <1>3 DEF IInv

-----------------------------------------------------------------------------
LEMMA Inductive == Spec => []IInv
  <1>1. ASSUME IInv, [Next]_vars PROVE IInv'
    <2>1. ASSUME NEW r \in Reviews,
                 \/ Hit(r) \/ Miss(r) \/ DropCorrupt(r) \/ Fetch(r) \/ OpenEntry(r)
                 \/ WriteEntry(r) \/ Sweep(r) \/ Evict(r) \/ Report(r) \/ Fail(r)
          PROVE  IInv'
      BY <1>1, <2>1, HitIInv, MissIInv, DropCorruptIInv, FetchIInv, OpenEntryIInv,
         WriteEntryIInv, SweepIInv, EvictIInv, ReportIInv, FailIInv
    <2>2. ASSUME NEW k \in Keys, Clear(k) PROVE IInv'
      BY <1>1, <2>2, ClearIInv
    <2>3. CASE Tick \/ UNCHANGED vars
      BY <1>1, <2>3, QuietIInv
    <2> QED
      BY <1>1, <2>1, <2>2, <2>3 DEF Next
  <1> QED
    BY <1>1, InitIInv, PTL DEF Spec

(* Types; a review has an answer exactly where it stores one, and only an  *)
(* open file that is still there is linked (DiskCache).                    *)
THEOREM BibliographyTypeCorrect == Spec => []TypeOK
  BY Inductive, PTL DEF IInv

(* Every row of every review is an answer of its source to the query of    *)
(* its reference, and no failure comes from the cache (verify_references). *)
THEOREM RowsAlwaysFaithful == Spec => []RowsFaithful
  BY Inductive, PTL DEF IInv

-----------------------------------------------------------------------------
(***************************************************************************)
(* The bounds of the cache.  A review that evicts has seen a directory     *)
(* that is within the bounds without the files it is about to remove; what *)
(* has come since belongs to a review that is storing, or that ended while *)
(* it did.  For any set R of reviews that evict, what is neither of them   *)
(* going to remove exceeds the bounds by at most one file for every other  *)
(* such review.  A file that is open may still grow: it is counted only    *)
(* once it is written, for any set W of the reviews that have one open.    *)
(***************************************************************************)
Busy == {r \in Reviews : pc[r] \in Storing \cup {"cut"}}
Evicting == {r \in Reviews : pc[r] = "evict"}
Holding == {r \in Reviews : linked[r]}
Going(R) == {e[1] : e \in UNION {evicts[r] : r \in R}}
Held(W) == {KeyOf(r) : r \in W}
Largest == Max({SizeOf[s] : s \in DOMAIN SizeOf})
Room(A) == Cardinality(A) * Largest

Counted ==
    \A R \in SUBSET Evicting :
        Cardinality(Present(disk) \ Going(R)) <= MaxEntries + Cardinality(Busy \ R)

Weighed ==
    \A R \in SUBSET Evicting, W \in SUBSET Holding :
        Bytes(disk, (Present(disk) \ Going(R)) \ Held(W)) <= MaxBytes + Room((Busy \ R) \ W)

BoundsInv == Counted /\ Weighed

-----------------------------------------------------------------------------
LEMMA UpTo ==
    ASSUME NEW n \in Nat
    PROVE  IsFiniteSet(1..n) /\ Cardinality(1..n) = n
  BY FS_Interval

LEMMA KeysFinite == IsFiniteSet(Keys)
  <1> DEFINE P == {"arxiv", "google_scholar"} \X Cited
             T == {<<s, Query(q)>> : s \in {"arxiv", "google_scholar"}, q \in Cited}
             f == [p \in P |-> <<p[1], Query(p[2])>>]
  <1> HIDE DEF Query
  <1>1. IsFiniteSet({"arxiv", "google_scholar"})
    <2>1. IsFiniteSet({"arxiv"}) /\ {"arxiv", "google_scholar"} = {"arxiv"} \cup {"google_scholar"}
      BY FS_Singleton
    <2> QED
      BY <2>1, FS_AddElement
  <1>2. IsFiniteSet(P)
    BY <1>1, CacheAssumption, FS_Product
  <1>3. f \in Surjection(P, T)
    <2>1. f \in [P -> T]
      OBVIOUS
    <2>2. ASSUME NEW t \in T PROVE \E p \in P : f[p] = t
      <3>1. PICK s \in {"arxiv", "google_scholar"}, q \in Cited : t = <<s, Query(q)>>
        OBVIOUS
      <3>2. <<s, q>> \in P /\ f[<<s, q>>] = t
        BY <3>1
      <3> QED
        BY <3>2
    <2> HIDE DEF f, P, T
    <2> QED
      BY <2>1, <2>2 DEF Surjection
  <1>4. IsFiniteSet(T)
    BY <1>2, <1>3, FS_Surjection
  <1>5. Keys \in SUBSET T
    BY BibliographyAssumption DEF Keys
  <1> QED
    BY <1>4, <1>5, FS_Subset

LEMMA LargestSize ==
    /\ Largest \in Nat
    /\ \A s \in Statuses \cup {"torn"} : SizeOf[s] \in Nat /\ SizeOf[s] <= Largest
  <1> DEFINE S == {SizeOf[s] : s \in DOMAIN SizeOf}
  <1>1. S \in SUBSET Nat /\ S # {} /\ \A s \in Statuses \cup {"torn"} : SizeOf[s] \in S
    BY CacheAssumption
  <1>2. \E b \in Nat : \A x \in S : x <= b
    <2> DEFINE b == SizeOf["Verified"] + SizeOf["LikelyMatch"] + SizeOf["PartialMatch"]
                    + SizeOf["ConflictingMetadata"] + SizeOf["NotFound"]
                    + SizeOf["Unavailable"] + SizeOf["torn"]
    <2>1. \A s \in Statuses \cup {"torn"} : SizeOf[s] \in Nat
      BY CacheAssumption
    <2>2. b \in Nat /\ \A s \in Statuses \cup {"torn"} : SizeOf[s] <= b
      <3>1. /\ SizeOf["Verified"] \in Nat /\ SizeOf["LikelyMatch"] \in Nat
            /\ SizeOf["PartialMatch"] \in Nat /\ SizeOf["ConflictingMetadata"] \in Nat
            /\ SizeOf["NotFound"] \in Nat /\ SizeOf["Unavailable"] \in Nat /\ SizeOf["torn"] \in Nat
        BY <2>1 DEF Statuses
      <3> QED
        BY <3>1 DEF Statuses
    <2> QED
      BY <2>2, CacheAssumption
  <1>3. PICK m \in Nat : /\ \A x \in S : x <= m
                         /\ \A n \in Nat : (\A x \in S : x <= n) => m <= n
    <2> HIDE DEF S
    <2>1. {n \in Nat : \A x \in S : x <= n} # {}
      BY <1>2
    <2> QED
      BY <2>1, NatMin
  <1> HIDE DEF S
  <1>4. m \in S
    <2> SUFFICES ASSUME m \notin S PROVE FALSE
      OBVIOUS
    <2>1. \A x \in S : x \in Nat /\ x < m
      BY <1>1, <1>3
    <2>2. m # 0 /\ m - 1 \in Nat
      <3>1. PICK x \in S : x \in Nat /\ x < m
        BY <1>1, <2>1
      <3> QED
        BY <3>1
    <2>3. \A x \in S : x <= m - 1
      BY <2>1
    <2> QED
      BY <1>3, <2>2, <2>3
  <1>5. Max(S) \in S /\ \A y \in S : Max(S) >= y
    BY <1>1, <1>3, <1>4 DEF Max
  <1> QED
    BY <1>1, <1>5 DEF Largest, S

(* The bytes of some files: a file more adds at most the largest size.     *)
Octets(d, ks) == UNION {{k} \X (1..SizeOf[d[k].row.status]) : k \in ks}

Sized(d, ks) == ks \subseteq Keys /\ \A k \in ks : d[k].row.status \in Statuses \cup {"torn"}

LEMMA OctetsFinite ==
    ASSUME NEW d, NEW ks, Sized(d, ks)
    PROVE  /\ IsFiniteSet(Octets(d, ks))
           /\ Bytes(d, ks) = Cardinality(Octets(d, ks)) /\ Bytes(d, ks) \in Nat
  <1>1. IsFiniteSet(Keys \X (1..Largest))
    <2>1. IsFiniteSet(1..Largest)
      BY LargestSize, FS_Interval
    <2> QED
      BY <2>1, KeysFinite, FS_Product
  <1>2. Octets(d, ks) \in SUBSET (Keys \X (1..Largest))
    <2> SUFFICES ASSUME NEW k \in ks, NEW i \in 1..SizeOf[d[k].row.status]
                 PROVE  k \in Keys /\ i \in 1..Largest
      BY DEF Octets
    <2> QED
      BY LargestSize DEF Sized
  <1> QED
    BY <1>1, <1>2, FS_Subset, FS_CardinalityType DEF Bytes, Octets

LEMMA BytesGrow ==
    ASSUME NEW d, NEW e, NEW S, NEW T, Sized(d, S), Sized(e, T), T \subseteq S,
           \A k \in T : e[k] = d[k]
    PROVE  Bytes(e, T) <= Bytes(d, S)
  <1>1. Octets(e, T) \in SUBSET Octets(d, S)
    BY DEF Octets
  <1> QED
    BY <1>1, OctetsFinite, FS_Subset

LEMMA BytesAdd ==
    ASSUME NEW d, NEW e, NEW S, NEW T, NEW k, Sized(d, S), Sized(e, T), T \subseteq S \cup {k},
           \A j \in T \ {k} : e[j] = d[j]
    PROVE  Bytes(e, T) <= Bytes(d, S) + Largest
  <1> DEFINE N == {k} \X (1..Largest)
  <1>1. IsFiniteSet(N) /\ Cardinality(N) = Largest
    <2>1. IsFiniteSet(1..Largest) /\ Cardinality(1..Largest) = Largest
      BY LargestSize, FS_Interval
    <2>2. IsFiniteSet({k}) /\ Cardinality({k}) = 1
      BY FS_Singleton
    <2>3. IsFiniteSet(N) /\ Cardinality(N) = Cardinality({k}) * Cardinality(1..Largest)
      BY <2>1, <2>2, FS_Product, Zenon
    <2> HIDE DEF N
    <2> QED
      BY <2>1, <2>2, <2>3, LargestSize
  <1>2. Octets(e, T) \in SUBSET (Octets(d, S) \cup N)
    <2> SUFFICES ASSUME NEW j \in T, NEW i \in 1..SizeOf[e[j].row.status]
                 PROVE  <<j, i>> \in Octets(d, S) \cup N
      BY DEF Octets
    <2>1. CASE j = k
      BY <2>1, LargestSize DEF Sized
    <2>2. CASE j # k
      BY <2>2 DEF Octets
    <2> QED
      BY <2>1, <2>2
  <1>3. IsFiniteSet(Octets(d, S)) /\ IsFiniteSet(Octets(d, S) \cup N)
    BY <1>1, OctetsFinite, FS_Union
  <1>4. Cardinality(Octets(d, S) \cup N) <= Cardinality(Octets(d, S)) + Largest
    <2>1. /\ IsFiniteSet(Octets(d, S) \cap N) /\ Cardinality(Octets(d, S) \cap N) \in Nat
          /\ Cardinality(Octets(d, S)) \in Nat
      BY <1>3, FS_Intersection, FS_CardinalityType
    <2>2. Cardinality(Octets(d, S) \cup N)
            = Cardinality(Octets(d, S)) + Largest - Cardinality(Octets(d, S) \cap N)
      BY <1>1, <1>3, FS_Union
    <2> HIDE DEF N
    <2> QED
      BY <2>1, <2>2, LargestSize
  <1>5. Cardinality(Octets(e, T)) <= Cardinality(Octets(d, S) \cup N)
    BY <1>2, <1>3, FS_Subset
  <1>6. /\ Cardinality(Octets(d, S)) \in Nat /\ Cardinality(Octets(d, S) \cup N) \in Nat
        /\ Cardinality(Octets(e, T)) \in Nat
    BY <1>3, OctetsFinite, FS_CardinalityType
  <1>7. Bytes(e, T) = Cardinality(Octets(e, T)) /\ Bytes(d, S) = Cardinality(Octets(d, S))
    BY OctetsFinite
  <1> HIDE DEF N
  <1> QED
    BY <1>4, <1>5, <1>6, <1>7, LargestSize

(* Sets of reviews and the room they are given.                            *)
LEMMA ReviewSets ==
    ASSUME NEW A \in SUBSET Reviews
    PROVE  /\ IsFiniteSet(A) /\ Cardinality(A) \in Nat /\ Room(A) \in Nat
           /\ \A B \in SUBSET A : Cardinality(B) <= Cardinality(A) /\ Room(B) <= Room(A)
           /\ \A r \in A : /\ Cardinality(A) = Cardinality(A \ {r}) + 1
                           /\ Room(A) = Room(A \ {r}) + Largest
  <1>1. IsFiniteSet(A) /\ Cardinality(A) \in Nat
    BY CacheAssumption, FS_Subset, FS_CardinalityType
  <1>2. Room(A) \in Nat
    BY <1>1, LargestSize DEF Room
  <1>3. ASSUME NEW B \in SUBSET A PROVE Cardinality(B) <= Cardinality(A) /\ Room(B) <= Room(A)
    <2>1. Cardinality(B) \in Nat /\ Cardinality(B) <= Cardinality(A)
      BY <1>1, FS_Subset, FS_CardinalityType
    <2>2. \A a, b, c \in Nat : a <= b => a * c <= b * c
      OBVIOUS
    <2> QED
      BY <1>1, <2>1, <2>2, LargestSize DEF Room
  <1>4. ASSUME NEW r \in A
        PROVE  Cardinality(A) = Cardinality(A \ {r}) + 1 /\ Room(A) = Room(A \ {r}) + Largest
    <2>1. Cardinality(A \ {r}) = Cardinality(A) - 1 /\ Cardinality(A \ {r}) \in Nat
      BY <1>1, FS_RemoveElement, FS_CardinalityType
    <2>2. \A a, c \in Nat : (a + 1) * c = a * c + c
      OBVIOUS
    <2>3. Cardinality(A) = Cardinality(A \ {r}) + 1
      BY <1>1, <2>1
    <2> QED
      BY <2>1, <2>2, <2>3, LargestSize DEF Room
  <1> QED
    BY <1>1, <1>2, <1>3, <1>4

(* What a sweep leaves is within the bounds: it is the oldest file left    *)
(* with all that are newer.                                                *)
LEMMA PresentSized ==
    ASSUME disk \in [Keys -> CacheFiles]
    PROVE  Sized(disk, Present(disk)) /\ \A k \in Present(disk) : disk[k].at \in Nat
  <1> SUFFICES ASSUME NEW k \in Present(disk)
               PROVE  disk[k].row.status \in Statuses \cup {"torn"} /\ disk[k].at \in Nat
    BY DEF Sized, Present
  <1>1. disk[k] \in CacheFiles \ {Missing}
    BY DEF Present
  <1> QED
    BY <1>1, BibliographyAssumption DEF CacheFiles, Torn, Rows

LEMMA OldestOf ==
    ASSUME disk \in [Keys -> CacheFiles], NEW S \in SUBSET Present(disk), S # {}
    PROVE  \E k \in S : \A j \in S \ {k} : Older(disk, k, j)
  <1>1. \A k \in S : disk[k].at \in Nat /\ k \in Keys
    BY PresentSized DEF Present
  <1>2. /\ \A k \in Keys : FileRank[k] \in Nat
        /\ \A j, k \in Keys : FileRank[j] = FileRank[k] => j = k
    BY CacheAssumption DEF Injection, IsInjective
  <1> DEFINE times == {disk[k].at : k \in S}
  <1>3. PICK t \in times : \A u \in times : t <= u
    <2>1. times \in SUBSET Nat /\ times # {}
      BY <1>1
    <2> HIDE DEF times
    <2> QED
      BY <2>1, NatMin
  <1> DEFINE first == {k \in S : disk[k].at = t}
             ranks == {FileRank[k] : k \in first}
  <1>4. PICK n \in ranks : \A m \in ranks : n <= m
    <2>1. ranks \in SUBSET Nat /\ ranks # {}
      BY <1>1, <1>2, <1>3
    <2> HIDE DEF ranks
    <2> QED
      BY <2>1, NatMin
  <1>5. PICK k \in first : FileRank[k] = n
    BY <1>4
  <1>6. ASSUME NEW j \in S \ {k} PROVE Older(disk, k, j)
    <2>1. j \in Keys /\ k \in Keys /\ k \in S /\ disk[k].at = t
      BY <1>1
    <2>2. t <= disk[j].at /\ t \in Nat /\ disk[j].at \in Nat
      BY <1>1, <1>3, <2>1
    <2>3. disk[j].at = t => n <= FileRank[j]
      BY <1>4
    <2>4. FileRank[j] # n /\ FileRank[j] \in Nat /\ n \in Nat
      BY <1>2, <1>5, <2>1
    <2> QED
      BY <1>5, <2>1, <2>2, <2>3, <2>4 DEF Older
  <1> QED
    BY <1>5, <1>6

LEMMA SweepWithin ==
    ASSUME disk \in [Keys -> CacheFiles]
    PROVE  /\ Cardinality(Present(disk) \ Overdue(disk)) <= MaxEntries
           /\ Bytes(disk, Present(disk) \ Overdue(disk)) <= MaxBytes
  <1> DEFINE kept == Present(disk) \ Overdue(disk)
             newer(k) == {j \in Present(disk) : Older(disk, k, j)}
  <1>1. CASE kept = {}
    <2>1. Octets(disk, kept) = {} /\ Sized(disk, kept)
      BY <1>1 DEF Octets, Sized
    <2>2. Bytes(disk, kept) = 0 /\ Cardinality(kept) = 0
      BY <1>1, <2>1, OctetsFinite, FS_EmptySet
    <2> QED
      BY <2>2, BibliographyAssumption
  <1>2. CASE kept # {}
    <2> HIDE DEF kept
    <2>1. PICK k \in kept : \A j \in kept \ {k} : Older(disk, k, j)
      BY <1>2, OldestOf DEF kept
    <2>2. /\ k \in Present(disk) /\ ~(Cardinality(newer(k)) >= MaxEntries)
          /\ ~(Bytes(disk, newer(k) \cup {k}) > MaxBytes)
      BY <2>1 DEF kept, Overdue
    <2>3. kept \in SUBSET (newer(k) \cup {k})
      BY <2>1 DEF kept
    <2>4. Sized(disk, kept) /\ Sized(disk, newer(k) \cup {k})
      BY <2>2, PresentSized DEF Sized, kept
    <2>5. IsFiniteSet(newer(k)) /\ Cardinality(newer(k)) \in Nat
      <3>1. newer(k) \in SUBSET Keys
        BY DEF Present
      <3> QED
        BY <3>1, KeysFinite, FS_Subset, FS_CardinalityType
    <2> HIDE DEF newer
    <2>6. /\ IsFiniteSet(newer(k) \cup {k})
          /\ Cardinality(newer(k) \cup {k}) \in Nat
          /\ Cardinality(newer(k) \cup {k}) <= Cardinality(newer(k)) + 1
      <3>1. /\ IsFiniteSet(newer(k) \cup {k})
            /\ Cardinality(newer(k) \cup {k})
                 = IF k \in newer(k) THEN Cardinality(newer(k)) ELSE Cardinality(newer(k)) + 1
        BY <2>5, FS_AddElement
      <3> QED
        BY <2>5, <3>1
    <2>7. Cardinality(kept) <= Cardinality(newer(k) \cup {k}) /\ Cardinality(kept) \in Nat
      BY <2>3, <2>6, FS_Subset, FS_CardinalityType
    <2>8. Cardinality(kept) <= MaxEntries
      BY <2>2, <2>5, <2>6, <2>7, BibliographyAssumption
    <2>9. Bytes(disk, kept) <= Bytes(disk, newer(k) \cup {k})
      BY <2>3, <2>4, BytesGrow
    <2>10. Bytes(disk, kept) \in Nat /\ Bytes(disk, newer(k) \cup {k}) \in Nat
      BY <2>4, OctetsFinite
    <2> QED
      BY <2>2, <2>8, <2>9, <2>10, BibliographyAssumption DEF kept
  <1> QED
    BY <1>1, <1>2

LEMMA InitBounds == Init => BoundsInv
  <1> SUFFICES ASSUME Init PROVE BoundsInv
    OBVIOUS
  <1>1. TypeOK
    BY InitIInv DEF IInv
  <1>2. Evicting = {} /\ Holding = {} /\ Busy = {}
    BY DEF Init, Evicting, Holding, Busy, Storing
  <1>3. ASSUME NEW S \in SUBSET Present(disk)
        PROVE  Cardinality(S) <= MaxEntries /\ Bytes(disk, S) <= MaxBytes
    <2>1. CASE S = {}
      <3>1. Octets(disk, S) = {} /\ Sized(disk, S)
        BY <2>1 DEF Octets, Sized
      <3>2. Bytes(disk, S) = 0 /\ Cardinality(S) = 0
        BY <2>1, <3>1, OctetsFinite, FS_EmptySet
      <3> QED
        BY <3>2, BibliographyAssumption
    <2>2. CASE S # {}
      <3>1. PICK q \in Cited, s \in {Sources[i] : i \in DOMAIN Sources} :
              /\ SizeOf["Unavailable"] <= MaxBytes
              /\ disk = [k \in Keys |-> IF k = <<s, Query(q)>>
                                        THEN [at |-> 0, row |-> Row(q, s, "Unavailable", {})]
                                        ELSE Missing]
        BY <2>2 DEF Init, Present
      <3> DEFINE k == <<s, Query(q)>>
      <3>2. S = {k} /\ k \in Keys
        BY <2>2, <3>1 DEF Present
      <3>3. disk[k].row.status = "Unavailable"
        BY <3>1, <3>2 DEF Row
      <3> HIDE DEF k
      <3>4. Octets(disk, S) = {k} \X (1..SizeOf["Unavailable"])
        BY <3>2, <3>3 DEF Octets
      <3>5. SizeOf["Unavailable"] \in Nat
        BY LargestSize DEF Statuses
      <3>6. /\ IsFiniteSet({k}) /\ Cardinality({k}) = 1
            /\ IsFiniteSet(1..SizeOf["Unavailable"])
            /\ Cardinality(1..SizeOf["Unavailable"]) = SizeOf["Unavailable"]
        <4>1. IsFiniteSet({k}) /\ Cardinality({k}) = 1
          BY FS_Singleton
        <4>2. \A n \in Nat : IsFiniteSet(1..n) /\ Cardinality(1..n) = n
          BY UpTo
        <4> QED
          BY <3>5, <4>1, <4>2, Zenon
      <3>7. Cardinality(Octets(disk, S)) = Cardinality({k}) * Cardinality(1..SizeOf["Unavailable"])
        BY <3>4, <3>6, FS_Product, Zenon
      <3>8. Bytes(disk, S) = SizeOf["Unavailable"]
        BY <3>5, <3>6, <3>7, <3>2, <3>3, OctetsFinite DEF Sized, Statuses
      <3> QED
        BY <3>1, <3>2, <3>6, <3>8, BibliographyAssumption
    <2> QED
      BY <2>1, <2>2
  <1>4. Counted
    <2> SUFFICES ASSUME NEW R \in SUBSET Evicting
                 PROVE  Cardinality(Present(disk) \ Going(R)) <= MaxEntries + Cardinality(Busy \ R)
      BY DEF Counted
    <2>1. Cardinality(Busy \ R) = 0
      BY <1>2, FS_EmptySet
    <2> QED
      BY <1>3, <2>1, BibliographyAssumption
  <1>5. Weighed
    <2> SUFFICES ASSUME NEW R \in SUBSET Evicting, NEW W \in SUBSET Holding
                 PROVE  Bytes(disk, (Present(disk) \ Going(R)) \ Held(W))
                            <= MaxBytes + Room((Busy \ R) \ W)
      BY DEF Weighed
    <2>1. Room((Busy \ R) \ W) = 0
      BY <1>2, FS_EmptySet, LargestSize DEF Room
    <2> QED
      BY <1>3, <2>1, BibliographyAssumption
  <1> QED
    BY <1>4, <1>5 DEF BoundsInv

(* Present files have sizes, and all counts are numbers.                   *)
LEMMA Numbers ==
    ASSUME TypeOK, NEW S \in SUBSET Present(disk)
    PROVE  /\ Sized(disk, S) /\ Bytes(disk, S) \in Nat
           /\ IsFiniteSet(S) /\ Cardinality(S) \in Nat
  <1>1. Sized(disk, S)
    BY PresentSized DEF Sized, TypeOK
  <1>2. IsFiniteSet(S) /\ Cardinality(S) \in Nat
    BY KeysFinite, FS_Subset, FS_CardinalityType DEF Present
  <1> QED
    BY <1>1, <1>2, OctetsFinite

(* A step that adds no file, changes none, gives up no removal and ends no *)
(* review that was storing keeps the bounds.                               *)
LEMMA QuietBounds ==
    ASSUME TypeOK, TypeOK', BoundsInv, Busy \subseteq Busy',
           Present(disk)' \subseteq Present(disk), \A k \in Present(disk)' : disk'[k] = disk[k],
           Evicting' \subseteq Evicting,
           \A R \in SUBSET Evicting' : Present(disk)' \cap Going(R) \subseteq Going(R)',
           Holding' \subseteq Holding, \A r \in Holding' : KeyOf(r)' = KeyOf(r)
    PROVE  BoundsInv'
  <1>1. ASSUME NEW R \in SUBSET Evicting'
        PROVE  Cardinality((Present(disk) \ Going(R))') <= MaxEntries + Cardinality(Busy' \ R)
    <2> DEFINE S == Present(disk) \ Going(R)
               T == Present(disk)' \ Going(R)'
    <2>1. Cardinality(S) <= MaxEntries + Cardinality(Busy \ R)
      BY DEF BoundsInv, Counted
    <2>2. T \in SUBSET S
      OBVIOUS
    <2>3. IsFiniteSet(S) /\ Cardinality(S) \in Nat
      BY Numbers
    <2> HIDE DEF S, T
    <2>4. Cardinality(T) <= Cardinality(S) /\ Cardinality(T) \in Nat
      BY <2>2, <2>3, FS_Subset, FS_CardinalityType
    <2>5. /\ Cardinality(Busy \ R) <= Cardinality(Busy' \ R)
          /\ Cardinality(Busy \ R) \in Nat /\ Cardinality(Busy' \ R) \in Nat
      BY ReviewSets DEF Busy
    <2>6. Cardinality(T) <= MaxEntries + Cardinality(Busy' \ R)
      BY <2>1, <2>3, <2>4, <2>5, BibliographyAssumption
    <2> QED
      BY <2>6 DEF T
  <1>2. ASSUME NEW R \in SUBSET Evicting', NEW W \in SUBSET Holding'
        PROVE  Bytes(disk, (Present(disk) \ Going(R)) \ Held(W))'
                  <= MaxBytes + Room((Busy' \ R) \ W)
    <2> DEFINE S == (Present(disk) \ Going(R)) \ Held(W)
               T == (Present(disk)' \ Going(R)') \ Held(W)'
    <2>1. Bytes(disk, S) <= MaxBytes + Room((Busy \ R) \ W)
      BY DEF BoundsInv, Weighed
    <2>2. Held(W)' = Held(W)
      BY DEF Held
    <2>3. T \subseteq S /\ \A k \in T : disk'[k] = disk[k]
      BY <2>2
    <2>4. Sized(disk, S) /\ Bytes(disk, S) \in Nat
      BY Numbers
    <2>5. Sized(disk', T) /\ Bytes(disk', T) \in Nat
      <3>1. ASSUME NEW k \in T
            PROVE  k \in Keys /\ disk'[k].row.status \in Statuses \cup {"torn"}
        BY <2>3, <2>4 DEF Sized
      <3>2. Sized(disk', T)
        BY <3>1 DEF Sized
      <3> QED
        BY <3>2, OctetsFinite
    <2> HIDE DEF S, T
    <2>6. Bytes(disk', T) <= Bytes(disk, S)
      BY <2>3, <2>4, <2>5, BytesGrow
    <2>7. /\ Room((Busy \ R) \ W) <= Room((Busy' \ R) \ W)
          /\ Room((Busy \ R) \ W) \in Nat /\ Room((Busy' \ R) \ W) \in Nat
      BY ReviewSets DEF Busy
    <2>8. Bytes(disk', T) <= MaxBytes + Room((Busy' \ R) \ W)
      BY <2>1, <2>4, <2>5, <2>6, <2>7, BibliographyAssumption
    <2> QED
      BY <2>8 DEF T
  <1> QED
    BY <1>1, <1>2 DEF BoundsInv, Counted, Weighed, Room

LEMMA UnlinkBounds ==
    ASSUME IInv, IInv', BoundsInv, NEW k \in Keys, Unlink(k), UNCHANGED rows,
           Busy \subseteq Busy', Evicting' \subseteq Evicting,
           \A R \in SUBSET Evicting' : Going(R) \subseteq Going(R)' \cup {k}
    PROVE  BoundsInv'
  <1>1. TypeOK /\ TypeOK'
    BY DEF IInv
  <1>2. /\ Present(disk)' = Present(disk) \ {k}
        /\ \A j \in Present(disk)' : disk'[j] = disk[j]
    BY <1>1 DEF Unlink, Present, TypeOK
  <1>3. Holding' \subseteq Holding /\ \A r \in Holding' : KeyOf(r)' = KeyOf(r)
    BY DEF Unlink, Holding, KeyOf, Place
  <1> QED
    BY <1>1, <1>2, <1>3, QuietBounds

LEMMA DropCorruptBounds ==
    ASSUME IInv, IInv', BoundsInv, NEW r \in Reviews, DropCorrupt(r) PROVE BoundsInv'
  <1>1. TypeOK
    BY DEF IInv
  <1>2. /\ Unlink(KeyOf(r)) /\ UNCHANGED <<rows, evicts>>
        /\ pc[r] = "drop" /\ pc' = [pc EXCEPT ![r] = "fetch"]
    BY DEF DropCorrupt
  <1>3. KeyOf(r) \in Keys
    BY <1>1, <1>2, KeyTyped DEF TypeOK
  <1>4. Busy \subseteq Busy' /\ Evicting' \subseteq Evicting
    BY <1>1, <1>2 DEF Busy, Evicting, Storing, TypeOK
  <1>5. \A R \in SUBSET Evicting' : Going(R)' = Going(R)
    BY <1>2 DEF Going
  <1> HIDE DEF KeyOf
  <1> QED
    BY <1>2, <1>3, <1>4, <1>5, UnlinkBounds

LEMMA EvictBounds == ASSUME IInv, IInv', BoundsInv, NEW r \in Reviews, Evict(r) PROVE BoundsInv'
  <1>1. TypeOK
    BY DEF IInv
  <1>2. PICK e \in evicts[r] : Unlink(e[1]) /\ evicts' = [evicts EXCEPT ![r] = @ \ {e}]
    BY DEF Evict
  <1>3. e[1] \in Keys
    BY <1>1, <1>2 DEF TypeOK
  <1>4. UNCHANGED <<pc, rows>>
    BY DEF Evict
  <1>5. Busy \subseteq Busy' /\ Evicting' \subseteq Evicting
    BY <1>4 DEF Busy, Evicting
  <1>6. ASSUME NEW R \in SUBSET Evicting', NEW k \in Going(R) PROVE k \in Going(R)' \cup {e[1]}
    <2>1. PICK q \in R : \E f \in evicts[q] : k = f[1]
      BY <1>6 DEF Going
    <2>2. PICK f \in evicts[q] : k = f[1]
      BY <2>1
    <2>3. CASE f = e
      BY <2>2, <2>3
    <2>4. CASE f # e
      <3>1. q \in Reviews /\ f \in evicts'[q]
        BY <1>1, <1>2, <2>1, <2>2, <2>4 DEF TypeOK, Evicting
      <3> QED
        BY <2>2, <3>1 DEF Going
    <2> QED
      BY <2>3, <2>4
  <1> QED
    BY <1>2, <1>3, <1>4, <1>5, <1>6, UnlinkBounds

LEMMA ClearBounds == ASSUME IInv, IInv', BoundsInv, NEW k \in Keys, Clear(k) PROVE BoundsInv'
  <1>1. Unlink(k) /\ UNCHANGED <<pc, rows, evicts>>
    BY DEF Clear
  <1> QED
    BY <1>1, UnlinkBounds DEF Busy, Evicting, Going

(* Steps that leave the directory alone and end no storing.                *)
LEMMA SameDirectory ==
    ASSUME TypeOK, TypeOK', BoundsInv, NEW r \in Reviews, UNCHANGED <<disk, evicts>>,
           \A q \in Reviews \ {r} : pc'[q] = pc[q] /\ linked'[q] = linked[q] /\ rows'[q] = rows[q],
           linked'[r] => linked[r] /\ rows'[r] = rows[r],
           pc[r] \in Storing \cup {"cut"} => pc'[r] \in Storing \cup {"cut"},
           pc'[r] = "evict" => pc[r] = "evict"
    PROVE  BoundsInv'
  <1>1. Busy \subseteq Busy' /\ Evicting' \subseteq Evicting
    BY DEF Busy, Evicting
  <1>2. Holding' \subseteq Holding /\ \A q \in Holding' : KeyOf(q)' = KeyOf(q)
    BY DEF Holding, KeyOf, Place
  <1>3. Present(disk)' = Present(disk) /\ \A R \in SUBSET Evicting' : Going(R)' = Going(R)
    BY DEF Present, Going
  <1> QED
    BY <1>1, <1>2, <1>3, QuietBounds

LEMMA SettledBounds ==
    ASSUME IInv, IInv', BoundsInv, NEW r \in Reviews,
           \/ Hit(r) \/ Miss(r) \/ Fetch(r) \/ Fail(r)
           \/ WriteEntry(r) /\ ~linked[r]
           \/ OpenEntry(r) /\ pc'[r] # "write"
    PROVE  BoundsInv'
  <1>1. TypeOK /\ TypeOK'
    BY DEF IInv
  <1>2. pc[r] # "write" => ~linked[r]
    BY <1>1 DEF TypeOK
  <1>3. CASE Hit(r)
    BY <1>1, <1>2, <1>3, SameDirectory DEF Hit, TypeOK
  <1>4. CASE Miss(r)
    BY <1>1, <1>2, <1>4, SameDirectory DEF Miss, TypeOK, Storing
  <1>5. CASE Fetch(r)
    BY <1>1, <1>2, <1>5, SameDirectory DEF Fetch, TypeOK, Storing
  <1>6. CASE Fail(r)
    BY <1>1, <1>2, <1>6, SameDirectory DEF Fail, TypeOK, Storing
  <1>7. CASE WriteEntry(r) /\ ~linked[r]
    BY <1>1, <1>2, <1>7, SameDirectory DEF WriteEntry, TypeOK, Storing
  <1>8. CASE OpenEntry(r) /\ pc'[r] # "write"
    BY <1>1, <1>2, <1>8, SameDirectory DEF OpenEntry, TypeOK, Storing
  <1> QED
    BY <1>3, <1>4, <1>5, <1>6, <1>7, <1>8

(* A file that is opened is one more, for a review that begins to store.   *)
LEMMA OpenBounds ==
    ASSUME IInv, BoundsInv, NEW r \in Reviews, OpenEntry(r), pc'[r] = "write"
    PROVE  BoundsInv'
  <1> DEFINE K == KeyOf(r)
  <1>1. TypeOK
    BY DEF IInv
  <1>2. /\ pc[r] = "open" /\ pc' = [pc EXCEPT ![r] = "write"]
        /\ disk' = [disk EXCEPT ![K] = Torn] /\ linked' = [linked EXCEPT ![r] = TRUE]
        /\ UNCHANGED <<rows, evicts>>
    BY <1>1 DEF OpenEntry, TypeOK
  <1>3. K \in Keys /\ K' = K /\ \A q \in Reviews : KeyOf(q)' = KeyOf(q)
    BY <1>1, <1>2, KeyTyped DEF TypeOK, KeyOf, Place
  <1> HIDE DEF K
  <1>4. /\ disk'[K] = Torn /\ \A k \in Keys \ {K} : disk'[k] = disk[k]
        /\ Present(disk') = Present(disk) \cup {K}
    BY <1>1, <1>2, <1>3 DEF TypeOK, Present, Missing, Torn
  <1>5. /\ Busy' = Busy \cup {r} /\ r \notin Busy /\ Busy \subseteq Reviews
        /\ Evicting' = Evicting /\ r \notin Evicting
        /\ Holding' = Holding \cup {r} /\ Holding \subseteq Reviews
    BY <1>1, <1>2 DEF TypeOK, Busy, Evicting, Holding, Storing
  <1>6. \A R \in SUBSET Evicting : Going(R)' = Going(R)
    BY <1>2 DEF Going
  <1>7. ASSUME NEW R \in SUBSET Evicting
        PROVE  Cardinality(Present(disk') \ Going(R)) <= MaxEntries + Cardinality(Busy' \ R)
    <2> DEFINE S == Present(disk) \ Going(R)
               T == Present(disk') \ Going(R)
    <2>1. Cardinality(S) <= MaxEntries + Cardinality(Busy \ R)
      BY DEF BoundsInv, Counted
    <2>2. IsFiniteSet(S) /\ Cardinality(S) \in Nat
      BY <1>1, Numbers
    <2>3. T \in SUBSET (S \cup {K})
      BY <1>4
    <2> HIDE DEF S, T
    <2>4. IsFiniteSet(S \cup {K}) /\ Cardinality(S \cup {K}) \in Nat
      BY <2>2, FS_AddElement, FS_CardinalityType
    <2>5. Cardinality(S \cup {K}) <= Cardinality(S) + 1
      BY <2>2, FS_AddElement
    <2>6. Cardinality(T) <= Cardinality(S \cup {K}) /\ Cardinality(T) \in Nat
      BY <2>3, <2>4, FS_Subset, FS_CardinalityType
    <2>7. /\ Cardinality(Busy' \ R) = Cardinality(Busy \ R) + 1
          /\ Cardinality(Busy \ R) \in Nat
      <3>1. r \in Busy' \ R /\ (Busy' \ R) \ {r} = Busy \ R
        BY <1>5
      <3>2. Cardinality(Busy' \ R) = Cardinality((Busy' \ R) \ {r}) + 1
        BY <1>5, <3>1, ReviewSets
      <3> QED
        BY <1>5, <3>1, <3>2, ReviewSets
    <2>8. Cardinality(T) <= MaxEntries + Cardinality(Busy' \ R)
      BY <2>1, <2>2, <2>4, <2>5, <2>6, <2>7, BibliographyAssumption
    <2> QED
      BY <2>8 DEF T
  <1>8. ASSUME NEW R \in SUBSET Evicting, NEW W \in SUBSET Holding'
        PROVE  Bytes(disk', (Present(disk') \ Going(R)) \ Held(W))
                  <= MaxBytes + Room((Busy' \ R) \ W)
    <2> DEFINE V == W \ {r}
               S == (Present(disk) \ Going(R)) \ Held(V)
               T == (Present(disk') \ Going(R)) \ Held(W)
    <2>1. Bytes(disk, S) <= MaxBytes + Room((Busy \ R) \ V)
      BY <1>5 DEF BoundsInv, Weighed
    <2>2. Sized(disk, S) /\ Bytes(disk, S) \in Nat
      BY <1>1, Numbers
    <2>3. T \subseteq S \cup {K} /\ (r \in W => K \notin T)
      BY <1>4 DEF Held, K
    <2>4. Sized(disk', T) /\ Bytes(disk', T) \in Nat
      <3>1. ASSUME NEW k \in T
            PROVE  k \in Keys /\ disk'[k].row.status \in Statuses \cup {"torn"}
        <4>1. CASE k = K
          BY <1>3, <1>4, <4>1 DEF Torn
        <4>2. CASE k # K
          BY <1>4, <2>2, <2>3, <4>2 DEF Sized
        <4> QED
          BY <4>1, <4>2
      <3>2. Sized(disk', T)
        BY <3>1 DEF Sized
      <3> QED
        BY <3>2, OctetsFinite
    <2>5. \A k \in T \ {K} : disk'[k] = disk[k]
      BY <1>4, <2>4 DEF Sized
    <2>6. /\ Room((Busy \ R) \ V) \in Nat /\ Room((Busy' \ R) \ W) \in Nat
          /\ r \in W => (Busy' \ R) \ W = (Busy \ R) \ V
          /\ r \notin W => Room((Busy' \ R) \ W) = Room((Busy \ R) \ V) + Largest
      <3>1. /\ (Busy \ R) \ V \in SUBSET Reviews /\ (Busy' \ R) \ W \in SUBSET Reviews
            /\ r \in W => (Busy' \ R) \ W = (Busy \ R) \ V
        BY <1>5
      <3>2. r \notin W => r \in (Busy' \ R) \ W /\ ((Busy' \ R) \ W) \ {r} = (Busy \ R) \ V
        BY <1>5
      <3> HIDE DEF V
      <3> QED
        BY <3>1, <3>2, ReviewSets
    <2> HIDE DEF S, T, V
    <2>7. CASE r \in W
      <3>1. Bytes(disk', T) <= Bytes(disk, S)
        BY <2>2, <2>3, <2>4, <2>5, <2>7, BytesGrow
      <3>2. Room((Busy' \ R) \ W) = Room((Busy \ R) \ V)
        BY <2>6, <2>7
      <3>3. Bytes(disk', T) <= MaxBytes + Room((Busy' \ R) \ W)
        BY <2>1, <2>2, <2>4, <2>6, <3>1, <3>2, BibliographyAssumption
      <3> QED
        BY <3>3 DEF T
    <2>8. CASE r \notin W
      <3>1. Bytes(disk', T) <= Bytes(disk, S) + Largest
        BY <2>2, <2>3, <2>4, <2>5, BytesAdd
      <3>2. Bytes(disk', T) <= MaxBytes + Room((Busy' \ R) \ W)
        BY <2>1, <2>2, <2>4, <2>6, <2>8, <3>1, BibliographyAssumption, LargestSize
      <3> QED
        BY <3>2 DEF T
    <2> QED
      BY <2>7, <2>8
  <1>9. \A W \in SUBSET Holding' : Held(W)' = Held(W)
    BY <1>3, <1>5 DEF Held
  <1> QED
    BY <1>5, <1>6, <1>7, <1>8, <1>9 DEF BoundsInv, Counted, Weighed, Room

(* An open file that is written may grow to the largest size.              *)
LEMMA WriteBounds ==
    ASSUME IInv, BoundsInv, NEW r \in Reviews, WriteEntry(r), linked[r]
    PROVE  BoundsInv'
  <1> DEFINE K == KeyOf(r)
  <1>1. TypeOK
    BY DEF IInv
  <1>2. PICK file \in {answer[r], Torn} : disk' = [disk EXCEPT ![K] = file]
    BY DEF WriteEntry
  <1>3. /\ pc[r] = "write" /\ pc' = [pc EXCEPT ![r] = "sweep"]
        /\ linked' = [linked EXCEPT ![r] = FALSE] /\ UNCHANGED <<rows, evicts>>
    BY DEF WriteEntry
  <1>4. K \in Keys /\ disk[K] # Missing /\ \A q \in Reviews : KeyOf(q)' = KeyOf(q)
    BY <1>1, <1>3, KeyTyped DEF TypeOK, KeyOf, Place, Storing
  <1>5. file \in CacheFiles \ {Missing}
    BY <1>1, <1>2, <1>3 DEF TypeOK, Storing, CacheFiles, Missing, Torn
  <1> HIDE DEF K
  <1>6. /\ disk'[K] = file /\ \A k \in Keys \ {K} : disk'[k] = disk[k]
        /\ Present(disk') = Present(disk)
    BY <1>1, <1>2, <1>4, <1>5 DEF TypeOK, Present
  <1>7. /\ Busy' = Busy /\ r \in Busy /\ Busy \subseteq Reviews
        /\ Evicting' = Evicting /\ r \notin Evicting
        /\ Holding' = Holding \ {r} /\ r \in Holding /\ Holding \subseteq Reviews
    BY <1>1, <1>3 DEF TypeOK, Busy, Evicting, Holding, Storing
  <1>8. \A R \in SUBSET Evicting : Going(R)' = Going(R)
    BY <1>3 DEF Going
  <1>9. Counted'
    BY <1>6, <1>7, <1>8 DEF BoundsInv, Counted
  <1>10. ASSUME NEW R \in SUBSET Evicting, NEW W \in SUBSET Holding'
         PROVE  Bytes(disk', (Present(disk') \ Going(R)) \ Held(W))
                  <= MaxBytes + Room((Busy' \ R) \ W)
    <2> DEFINE V == W \cup {r}
               S == (Present(disk) \ Going(R)) \ Held(V)
               T == (Present(disk') \ Going(R)) \ Held(W)
    <2>1. Bytes(disk, S) <= MaxBytes + Room((Busy \ R) \ V)
      BY <1>7 DEF BoundsInv, Weighed
    <2>2. Sized(disk, S) /\ Bytes(disk, S) \in Nat
      BY <1>1, Numbers
    <2>3. T \subseteq S \cup {K}
      BY <1>6 DEF Held, K
    <2>4. Sized(disk', T) /\ Bytes(disk', T) \in Nat
      <3>1. ASSUME NEW k \in T
            PROVE  k \in Keys /\ disk'[k].row.status \in Statuses \cup {"torn"}
        <4>1. CASE k = K
          BY <1>4, <1>5, <1>6, <4>1 DEF CacheFiles, Torn, Rows
        <4>2. CASE k # K
          BY <1>6, <2>2, <2>3, <4>2 DEF Sized
        <4> QED
          BY <4>1, <4>2
      <3>2. Sized(disk', T)
        BY <3>1 DEF Sized
      <3> QED
        BY <3>2, OctetsFinite
    <2>5. \A k \in T \ {K} : disk'[k] = disk[k]
      BY <1>6, <2>4 DEF Sized
    <2>6. /\ Room((Busy \ R) \ V) \in Nat
          /\ Room((Busy' \ R) \ W) = Room((Busy \ R) \ V) + Largest
      <3>1. /\ (Busy \ R) \ V \in SUBSET Reviews /\ (Busy' \ R) \ W \in SUBSET Reviews
            /\ r \in (Busy' \ R) \ W /\ ((Busy' \ R) \ W) \ {r} = (Busy \ R) \ V
        BY <1>7
      <3> HIDE DEF V
      <3> QED
        BY <3>1, ReviewSets
    <2> HIDE DEF S, T, V
    <2>7. Bytes(disk', T) <= Bytes(disk, S) + Largest
      BY <2>2, <2>3, <2>4, <2>5, BytesAdd
    <2>8. Bytes(disk', T) <= MaxBytes + Room((Busy' \ R) \ W)
      BY <2>1, <2>2, <2>4, <2>6, <2>7, BibliographyAssumption, LargestSize
    <2> QED
      BY <2>8 DEF T
  <1>11. \A W \in SUBSET Holding' : Held(W)' = Held(W)
    BY <1>4, <1>7 DEF Held
  <1>12. Weighed'
    BY <1>7, <1>8, <1>10, <1>11 DEF Weighed, Room
  <1> QED
    BY <1>9, <1>12 DEF BoundsInv

(* A sweep decides what goes: what stays is within the bounds.             *)
LEMMA SweepBounds == ASSUME IInv, BoundsInv, NEW r \in Reviews, Sweep(r) PROVE BoundsInv'
  <1>1. TypeOK
    BY DEF IInv
  <1>2. /\ pc[r] = "sweep" /\ pc' = [pc EXCEPT ![r] = "evict"]
        /\ evicts' = [evicts EXCEPT ![r] = {<<k, disk[k].at>> : k \in Overdue(disk)}]
        /\ UNCHANGED <<disk, rows, linked>>
    BY DEF Sweep
  <1>3. Busy' = Busy /\ Busy \subseteq Reviews /\ Evicting' = Evicting \cup {r} /\ Holding' = Holding
    BY <1>1, <1>2 DEF TypeOK, Busy, Evicting, Holding, Storing
  <1>4. \A R \in SUBSET Evicting : r \notin R => Going(R)' = Going(R)
    BY <1>1, <1>2 DEF TypeOK, Going, Evicting
  <1>5. \A W \in SUBSET Holding : Held(W)' = Held(W)
    BY <1>2 DEF Held, KeyOf, Place
  <1>6. ASSUME NEW R \in SUBSET Evicting', r \in R PROVE Overdue(disk) \subseteq Going(R)'
    <2>1. evicts'[r] = {<<k, disk[k].at>> : k \in Overdue(disk)}
      BY <1>1, <1>2 DEF TypeOK
    <2> SUFFICES ASSUME NEW k \in Overdue(disk) PROVE k \in Going(R)'
      OBVIOUS
    <2> DEFINE e == <<k, disk[k].at>>
    <2>2. e \in evicts'[r] /\ e[1] = k
      BY <2>1
    <2> HIDE DEF e
    <2> QED
      BY <1>6, <2>2 DEF Going
  <1>7. ASSUME NEW T \in SUBSET (Present(disk) \ Overdue(disk)), NEW A \in SUBSET Busy
        PROVE  Cardinality(T) <= MaxEntries + Cardinality(A) /\ Bytes(disk, T) <= MaxBytes + Room(A)
    <2> DEFINE kept == Present(disk) \ Overdue(disk)
    <2>1. Cardinality(kept) <= MaxEntries /\ Bytes(disk, kept) <= MaxBytes
      BY <1>1, SweepWithin DEF TypeOK
    <2>2. /\ Sized(disk, kept) /\ IsFiniteSet(kept)
          /\ Bytes(disk, kept) \in Nat /\ Cardinality(kept) \in Nat
      BY <1>1, Numbers
    <2>3. T \in SUBSET kept /\ Sized(disk, T) /\ Bytes(disk, T) \in Nat /\ Cardinality(T) \in Nat
      BY <1>1, Numbers
    <2> HIDE DEF kept
    <2>4. Cardinality(T) <= Cardinality(kept) /\ Bytes(disk, T) <= Bytes(disk, kept)
      BY <2>2, <2>3, FS_Subset, BytesGrow
    <2>5. Cardinality(A) \in Nat /\ Room(A) \in Nat
      BY <1>3, ReviewSets
    <2> QED
      BY <2>1, <2>2, <2>3, <2>4, <2>5, BibliographyAssumption
  <1> HIDE DEF Overdue
  <1>8. ASSUME NEW R \in SUBSET Evicting', NEW W \in SUBSET Holding
        PROVE  /\ Cardinality(Present(disk) \ Going(R)') <= MaxEntries + Cardinality(Busy \ R)
               /\ Bytes(disk, (Present(disk) \ Going(R)') \ Held(W))
                      <= MaxBytes + Room((Busy \ R) \ W)
    <2>1. CASE r \in R
      BY <1>6, <1>7, <2>1
    <2>2. CASE r \notin R
      <3>1. R \in SUBSET Evicting /\ Going(R)' = Going(R)
        BY <1>3, <1>4, <2>2
      <3> QED
        BY <3>1 DEF BoundsInv, Counted, Weighed
    <2> QED
      BY <2>1, <2>2
  <1>9. ASSUME NEW R \in SUBSET Evicting', NEW W \in SUBSET Holding
        PROVE  /\ Cardinality(Present(disk') \ Going(R)') <= MaxEntries + Cardinality(Busy \ R)
               /\ Bytes(disk', (Present(disk') \ Going(R)') \ Held(W))
                      <= MaxBytes + Room((Busy \ R) \ W)
    BY <1>2, <1>8
  <1> QED
    BY <1>3, <1>5, <1>9 DEF BoundsInv, Counted, Weighed, Room

(* A review that reports has nothing left to remove.                       *)
LEMMA ReportBounds == ASSUME IInv, BoundsInv, NEW r \in Reviews, Report(r) PROVE BoundsInv'
  <1>1. TypeOK
    BY DEF IInv
  <1>2. /\ pc[r] = "evict" /\ evicts[r] = {} /\ pc' = [pc EXCEPT ![r] = "get"]
        /\ rows' = [rows EXCEPT ![r] = Append(@, answer[r].row)]
        /\ UNCHANGED <<disk, linked, evicts>>
    BY DEF Report
  <1>3. /\ Busy' = Busy \ {r} /\ Evicting' = Evicting \ {r} /\ r \in Evicting
        /\ Holding' = Holding /\ r \notin Holding /\ Holding \subseteq Reviews
    BY <1>1, <1>2 DEF TypeOK, Busy, Evicting, Holding, Storing
  <1>4. \A W \in SUBSET Holding : Held(W)' = Held(W)
    <2>1. \A q \in Holding : KeyOf(q)' = KeyOf(q)
      BY <1>1, <1>2, <1>3 DEF KeyOf, Place, TypeOK
    <2> QED
      BY <2>1 DEF Held
  <1>5. ASSUME NEW R \in SUBSET Evicting', NEW W \in SUBSET Holding
        PROVE  /\ Cardinality(Present(disk) \ Going(R)') <= MaxEntries + Cardinality(Busy' \ R)
               /\ Bytes(disk, (Present(disk) \ Going(R)') \ Held(W))
                      <= MaxBytes + Room((Busy' \ R) \ W)
    <2> DEFINE Q == R \cup {r}
    <2>1. Q \in SUBSET Evicting /\ Busy' \ R = Busy \ Q
      BY <1>3
    <2>2. Going(R)' = Going(Q)
      BY <1>2 DEF Going
    <2> HIDE DEF Q
    <2> QED
      BY <2>1, <2>2 DEF BoundsInv, Counted, Weighed
  <1>6. ASSUME NEW R \in SUBSET Evicting', NEW W \in SUBSET Holding
        PROVE  /\ Cardinality(Present(disk') \ Going(R)') <= MaxEntries + Cardinality(Busy' \ R)
               /\ Bytes(disk', (Present(disk') \ Going(R)') \ Held(W))
                      <= MaxBytes + Room((Busy' \ R) \ W)
    BY <1>2, <1>5
  <1> QED
    BY <1>3, <1>4, <1>6 DEF BoundsInv, Counted, Weighed, Room

LEMMA StepBounds == IInv /\ IInv' /\ BoundsInv /\ [Next]_vars => BoundsInv'
  <1> SUFFICES ASSUME IInv, IInv', BoundsInv, [Next]_vars PROVE BoundsInv'
    OBVIOUS
  <1>1. CASE Tick \/ UNCHANGED vars
    <2>1. UNCHANGED <<disk, pc, rows, linked, evicts>> /\ TypeOK /\ TypeOK'
      BY <1>1 DEF Tick, vars, IInv
    <2>2. Busy' = Busy /\ Evicting' = Evicting /\ Holding' = Holding
      BY <2>1 DEF Busy, Evicting, Holding
    <2>3. \A r \in Holding : KeyOf(r)' = KeyOf(r)
      BY <2>1 DEF KeyOf, Place
    <2>4. Present(disk)' = Present(disk) /\ \A R \in SUBSET Evicting : Going(R)' = Going(R)
      BY <2>1 DEF Present, Going
    <2> QED
      BY <2>1, <2>2, <2>3, <2>4, QuietBounds
  <1>2. ASSUME NEW r \in Reviews, WriteEntry(r) PROVE BoundsInv'
    BY <1>2, WriteBounds, SettledBounds
  <1>3. ASSUME NEW r \in Reviews, OpenEntry(r) PROVE BoundsInv'
    BY <1>3, OpenBounds, SettledBounds
  <1> QED
    BY <1>1, <1>2, <1>3, DropCorruptBounds, EvictBounds, ClearBounds, SettledBounds, SweepBounds,
       ReportBounds DEF Next

LEMMA BoundsInductive == Spec => [](IInv /\ BoundsInv)
  <1>1. Init => BoundsInv
    BY InitBounds
  <1>2. IInv /\ IInv' /\ BoundsInv /\ [Next]_vars => BoundsInv'
    BY StepBounds
  <1> QED
    BY <1>1, <1>2, Inductive, PTL DEF Spec

(* The cache exceeds its bounds by at most one file, of at most the        *)
(* largest size, for each review that is storing or ended while it did.    *)
THEOREM CacheAlwaysBounded == Spec => []CacheBounded
  <1>1. IInv /\ BoundsInv => CacheBounded
    <2> SUFFICES ASSUME IInv, BoundsInv PROVE CacheBounded
      OBVIOUS
    <2>1. Going({}) = {} /\ Held({}) = {}
      BY DEF Going, Held
    <2>2. /\ Cardinality(Present(disk)) <= MaxEntries + Cardinality(Busy)
          /\ Bytes(disk, Present(disk)) <= MaxBytes + Room(Busy)
      <3>1. /\ Cardinality(Present(disk) \ Going({})) <= MaxEntries + Cardinality(Busy \ {})
            /\ Bytes(disk, (Present(disk) \ Going({})) \ Held({}))
                 <= MaxBytes + Room((Busy \ {}) \ {})
        BY DEF BoundsInv, Counted, Weighed
      <3>2. /\ Present(disk) \ Going({}) = Present(disk)
            /\ (Present(disk) \ Going({})) \ Held({}) = Present(disk)
            /\ Busy \ {} = Busy /\ (Busy \ {}) \ {} = Busy
        BY <2>1
      <3> QED
        BY <3>1, <3>2
    <2> QED
      BY <2>2 DEF CacheBounded, Busy, Room, Largest
  <1> QED
    BY <1>1, BoundsInductive, PTL

(* A sweep keeps no file that was stored before one it evicts.             *)
THEOREM AlwaysOldestFirst == Spec => OldestFirst
  <1> DEFINE Oldest ==
        \A r \in Reviews : pc[r] = "sweep" /\ pc'[r] = "evict" =>
          LET going == {e[1] : e \in evicts'[r]}
          IN \A j \in Present(disk) \ going, k \in going : disk[k].at <= disk[j].at
  <1>1. IInv /\ [Next]_vars => Oldest
    <2> SUFFICES ASSUME IInv, [Next]_vars, NEW r \in Reviews, pc[r] = "sweep", pc'[r] = "evict",
                        NEW j \in Present(disk) \ {e[1] : e \in evicts'[r]},
                        NEW k \in {e[1] : e \in evicts'[r]}
                 PROVE  disk[k].at <= disk[j].at
      OBVIOUS
    <2>1. TypeOK
      BY DEF IInv
    <2>2. Sweep(r)
      <3>1. ASSUME NEW q \in Reviews,
                   \/ Hit(q) \/ Miss(q) \/ DropCorrupt(q) \/ Fetch(q) \/ OpenEntry(q)
                   \/ WriteEntry(q) \/ Evict(q) \/ Report(q) \/ Fail(q)
            PROVE  pc' = pc \/ \E v \in {"get", "fetch", "drop", "open", "write", "sweep", "cut",
                                         "gone"} : pc' = [pc EXCEPT ![q] = v]
        BY <3>1 DEF Hit, Miss, DropCorrupt, Fetch, OpenEntry, WriteEntry, Evict, Report, Fail
      <3>2. ASSUME NEW q \in Reviews, Sweep(q) PROVE q = r
        BY <2>1, <3>2 DEF Sweep, TypeOK
      <3>3. pc' # pc /\ \A q \in Reviews, v \in {"get", "fetch", "drop", "open", "write", "sweep",
                                                 "cut", "gone"} : pc' # [pc EXCEPT ![q] = v]
        BY <2>1 DEF TypeOK
      <3> QED
        BY <3>1, <3>2, <3>3 DEF Next, vars, Clear, Tick
    <2>3. {e[1] : e \in evicts'[r]} = Overdue(disk)
      <3>1. evicts'[r] = {<<i, disk[i].at>> : i \in Overdue(disk)}
        BY <2>1, <2>2 DEF Sweep, TypeOK
      <3>2. ASSUME NEW i \in Overdue(disk) PROVE \E e \in evicts'[r] : e[1] = i
        <4>1. <<i, disk[i].at>> \in evicts'[r] /\ <<i, disk[i].at>>[1] = i
          BY <3>1
        <4> QED
          BY <4>1
      <3>3. \A e \in evicts'[r] : e[1] \in Overdue(disk)
        BY <3>1
      <3> HIDE DEF Overdue
      <3> QED
        BY <3>2, <3>3
    <2> DEFINE newer(i) == {h \in Present(disk) : Older(disk, i, h)}
    <2>4. /\ k \in Present(disk) /\ j \in Present(disk)
          /\ Cardinality(newer(k)) >= MaxEntries \/ Bytes(disk, newer(k) \cup {k}) > MaxBytes
          /\ ~(Cardinality(newer(j)) >= MaxEntries) /\ ~(Bytes(disk, newer(j) \cup {j}) > MaxBytes)
      BY <2>3 DEF Overdue
    <2>5. \A i \in Present(disk) : disk[i].at \in Nat
      BY <2>1, PresentSized DEF TypeOK
    <2>6. SUFFICES ASSUME disk[j].at < disk[k].at PROVE FALSE
      BY <2>4, <2>5
    <2>7. newer(k) \cup {k} \subseteq newer(j)
      BY <2>4, <2>5, <2>6 DEF Older
    <2>8. newer(k) \in SUBSET Present(disk) /\ newer(j) \in SUBSET Present(disk)
      OBVIOUS
    <2> HIDE DEF newer
    <2>9. /\ IsFiniteSet(newer(j)) /\ Cardinality(newer(j)) \in Nat /\ Cardinality(newer(k)) \in Nat
          /\ Sized(disk, newer(k) \cup {k}) /\ Bytes(disk, newer(k) \cup {k}) \in Nat
          /\ Sized(disk, newer(j) \cup {j}) /\ Bytes(disk, newer(j) \cup {j}) \in Nat
      <3>1. newer(k) \cup {k} \in SUBSET Present(disk) /\ newer(j) \cup {j} \in SUBSET Present(disk)
        BY <2>4, <2>8
      <3> QED
        BY <2>1, <2>8, <3>1, Numbers
    <2>10. Cardinality(newer(k)) <= Cardinality(newer(j))
      BY <2>7, <2>9, FS_Subset
    <2>11. Bytes(disk, newer(k) \cup {k}) <= Bytes(disk, newer(j) \cup {j})
      BY <2>7, <2>9, BytesGrow
    <2> QED
      BY <2>4, <2>9, <2>10, <2>11, BibliographyAssumption
  <1>2. IInv /\ [Next]_vars => [Oldest]_vars
    BY <1>1
  <1> QED
    BY <1>2, Inductive, PTL DEF Spec, OldestFirst
=============================================================================
