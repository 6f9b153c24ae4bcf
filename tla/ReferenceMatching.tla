-------------------------- MODULE ReferenceMatching --------------------------
(***************************************************************************)
(* What a source says of a reference (paper-guard-bibliography): the probe *)
(* made of a reference, the query arXiv is asked, the entries its answer   *)
(* is read as, and the decision how well they match.                       *)
(*                                                                         *)
(* A text is a sequence of words.  What a word is in lower case without    *)
(* its punctuation, which words spell an arXiv id or a DOI, and which have *)
(* fewer than three letters are constants: the matcher knows no more of    *)
(* letters.  The authors are a sequence of units: what stands between two  *)
(* separators of a list.  Likeness is in parts of 10000, fine enough for   *)
(* titles of less than a hundred words.                                    *)
(***************************************************************************)
EXTENDS Naturals, FiniteSets, SequencesExt

CONSTANTS Plain,         \* Plain[w]: the word normalized, "" if nothing is left
          ArxivIdOf,     \* ArxivIdOf[w]: the id, without version, that w spells
          ArxivMentions, \* the words of the form arXiv:<id>
          DoiOf,         \* DoiOf[w]: the DOI that w spells
          ShortWords,    \* the normalized words a title search leaves out
          Within(_, _),  \* Within(v, w): the letters of text v occur within w
          Responses,     \* Responses[query]: what arXiv may send
          MAX_RESPONSE_BYTES

None == "none"           \* an absent id or year
Nothing == << >>         \* an empty text

Statuses == {"Verified", "LikelyMatch", "PartialMatch", "ConflictingMetadata",
             "NotFound", "Unavailable"}
Fields == {"title", "authors", "year", "doi", "arxiv_id", "venue"}

-----------------------------------------------------------------------------
(* normalize_title, normalize_token: words without letters vanish.         *)
Normalize(t) == SelectSeq([i \in DOMAIN t |-> Plain[t[i]]], LAMBDA w : w # "")

NormalizeArxivId(w) == IF w \in DOMAIN ArxivIdOf THEN ArxivIdOf[w] ELSE w

(* The identifier in the first of a text's words that spells one.          *)
Extract(t, spelling, IdOf) ==
    LET found == SelectSeq(t, LAMBDA w : w \in spelling)
    IN  IF found = Nothing THEN None ELSE IdOf[Head(found)]

(* ReferenceProbe::from_reference: a citation carries its identifiers      *)
(* within its other fields.                                                *)
FromReference(ref) ==
    LET combined == ref.title \o ref.venue \o FlattenSeq(ref.authors)
    IN  [id |-> ref.id, title |-> ref.title, authors |-> ref.authors,
         year |-> ref.year, venue |-> ref.venue,
         doi |-> Extract(combined, DOMAIN DoiOf, DoiOf),
         arxiv_id |-> Extract(combined, ArxivMentions, ArxivIdOf)]

(* query_description, of which the cache key is made: the parts there are, *)
(* not told apart, the id of the reference only where there is none, and   *)
(* never the venue.                                                        *)
QueryDescription(p) ==
    LET Given(label, x) == IF x = None THEN Nothing ELSE label \o <<x>>
        authors == FlattenSeq([n \in DOMAIN p.authors |->
                                  IF n = 1 THEN p.authors[1] ELSE <<";">> \o p.authors[n]])
        parts == SelectSeq(<<Given(<<"arXiv:">>, p.arxiv_id), Given(<<"DOI:">>, p.doi), p.title,
                             authors, Given(Nothing, p.year)>>,
                           LAMBDA part : part # Nothing)
    IN  IF parts = << >> THEN << <<p.id>> >> ELSE parts

(* build_query: an id lookup, or a search for the first words of the title.*)
BuildQuery(p) ==
    LET significant == SelectSeq(Normalize(p.title), LAMBDA w : w \notin ShortWords)
        words == SubSeq(significant, 1, IF Len(significant) <= 8 THEN Len(significant) ELSE 8)
    IN  IF p.arxiv_id # None THEN <<"id_list", p.arxiv_id>>
        ELSE IF words = Nothing THEN <<"title", <<NormalizeArxivId(p.id)>> >>
        ELSE <<"title", words>>

-----------------------------------------------------------------------------
(* ArxivClient::fetch: a body, unless the server refuses or sends too much.*)
Fetched(response) == response.status \in 200..299 /\ response.size <= MAX_RESPONSE_BYTES

(* parse_atom_feed: what stands between <entry> and </entry>, unless it    *)
(* has no id or no title.                                                  *)
ParseAtomFeed(body) ==
    LET usable == SelectSeq(body, LAMBDA e : e.id # None /\ e.title # Nothing)
    IN  [i \in DOMAIN usable |-> [usable[i] EXCEPT !.id = NormalizeArxivId(@)]]

-----------------------------------------------------------------------------
(* title_similarity: half the share of the common words in all words, half *)
(* their share in the longer title.                                        *)
TitleSimilarity(t, u) ==
    LET a == Normalize(t)
        b == Normalize(u)
        common == Cardinality(ToSet(a) \cap ToSet(b))
        all == Cardinality(ToSet(a) \cup ToSet(b))
        longer == IF Cardinality(ToSet(a)) >= Cardinality(ToSet(b))
                    THEN Cardinality(ToSet(a)) ELSE Cardinality(ToSet(b))
    IN  IF a = Nothing \/ b = Nothing THEN 0
        ELSE IF a = b THEN 10000
        ELSE (5000 * common * (all + longer)) \div (all * longer)

(* author_surnames: all that is before the comma, or the last word.        *)
Surnames(authors) ==
    LET Commas(unit) == {i \in DOMAIN unit : unit[i] = ","}
        LastWord(t) == IF t = Nothing THEN t ELSE <<Last(t)>>
        Family(unit) == IF Commas(unit) = {} THEN LastWord(Normalize(unit))
                        ELSE Normalize(SubSeq(unit, 1, Min(Commas(unit)) - 1))
    IN  {Family(unit) : unit \in ToSet(authors)} \ {Nothing}

(* author_overlap: one of the surnames occurs among the authors found.     *)
AuthorOverlap(cited, found) ==
    \/ Surnames(cited) = {}
    \/ \E v \in Surnames(cited) : Within(v, Normalize(FlattenSeq(found)))

-----------------------------------------------------------------------------
(* How well an entry fits; a direct lookup is anchored on the arXiv id.    *)
Score(p, entry) ==
    IF p.arxiv_id # None /\ p.arxiv_id = entry.id THEN 10000
    ELSE TitleSimilarity(p.title, entry.title)

(* The first of the entries that fit best, if any fits at all.             *)
IsBest(p, entries, i) ==
    /\ Score(p, entries[i]) > 0
    /\ \A j \in DOMAIN entries :
          IF j < i THEN Score(p, entries[j]) < Score(p, entries[i])
                   ELSE Score(p, entries[j]) <= Score(p, entries[i])

SameTitle(p, entry) == p.title # Nothing /\ Normalize(p.title) = Normalize(entry.title)

Differ(x, y) == x # None /\ y # None /\ x # y

Preprint(venue) == Within(<<"arxiv">>, Normalize(venue))

(* evaluate_match: the fields that both have and that differ; the venue of *)
(* a preprint is not compared.                                             *)
Mismatches(p, entry) ==
    {f \in Fields :
        CASE f = "title"    -> p.title # Nothing /\ ~SameTitle(p, entry)
          [] f = "authors"  -> p.authors # << >> /\ ~AuthorOverlap(p.authors, entry.authors)
          [] f = "year"     -> Differ(p.year, entry.year)
          [] f = "doi"      -> Differ(p.doi, entry.doi)
          [] f = "arxiv_id" -> Differ(p.arxiv_id, entry.id)
          [] f = "venue"    -> /\ p.venue # Nothing /\ entry.journal_ref # Nothing
                               /\ ~Preprint(p.venue)
                               /\ Normalize(p.venue) # Normalize(entry.journal_ref)}

Classify(score, sameTitle, mismatches) ==
    IF score < 4500 THEN "NotFound"
    ELSE IF {"year", "doi", "arxiv_id", "authors"} \cap mismatches # {}
      THEN IF score >= 6000 THEN "ConflictingMetadata" ELSE "PartialMatch"
    ELSE IF sameTitle
      THEN IF mismatches = {} THEN "Verified" ELSE "LikelyMatch"
    ELSE IF score >= 7500 THEN "LikelyMatch" ELSE "PartialMatch"

Row(ref, source, status, mismatches) ==
    [id |-> ref.id, source |-> source, status |-> status, mismatches |-> mismatches,
     cached |-> FALSE]

(* decide: the row of a reference, given the entries arXiv has for it.     *)
Decide(ref, entries) ==
    LET p == FromReference(ref) IN
    IF \E i \in DOMAIN entries : IsBest(p, entries, i)
      THEN LET entry == entries[CHOOSE i \in DOMAIN entries : IsBest(p, entries, i)]
               mismatches == Mismatches(p, entry)
           IN Row(ref, "arxiv",
                  Classify(Score(p, entry), SameTitle(p, entry), mismatches), mismatches)
      ELSE Row(ref, "arxiv", "NotFound", {})

(* ArxivProvider::verify: no answer is no verdict.                         *)
Verify(ref, response) ==
    IF Fetched(response) THEN Decide(ref, ParseAtomFeed(response.body))
    ELSE Row(ref, "arxiv", "Unavailable", {})

(* What a source may say of a reference.  arXiv may not be reached, or not *)
(* in time; the slot of Google Scholar asks nobody.                        *)
Verdicts(source, ref) ==
    {Row(ref, source, "Unavailable", {})}
        \cup IF source = "arxiv"
               THEN {Verify(ref, x) : x \in Responses[BuildQuery(FromReference(ref))]}
               ELSE {}
=============================================================================
