---------------------------- MODULE ReviewReport -----------------------------
(***************************************************************************)
(* What becomes of the decisions of ReviewDecisions: the document the edits *)
(* were made in is rendered (paper-guard-renderer), parsed again           *)
(* (paper-guard-parser) and compared with the original by the text         *)
(* validator (paper-guard-validation); the run record goes to the report   *)
(* of paper-guard-report.                                                  *)
(*                                                                         *)
(* A document is a title, an abstract, paragraphs with the headings of the *)
(* sections they open, and bibliography entries, each a sequence of words; *)
(* a claim in it stands for the numeric overstatement (" by 40%") that     *)
(* ReviewDecisions removes, two words for the validator.  Words with TeX   *)
(* markup in them, as a PDF has them and as the first parse leaves them    *)
(* (\{a\} becomes \a\), are of a few kinds, by what the second parse makes *)
(* of them; a word inside of a formula counts as one of its own, and a     *)
(* word that a command takes in part, and an environment or a claim inside *)
(* of markup are left out.  Wording and layout of the report are left out: *)
(* it is what each of its sections names.  A finding's reviewer, category  *)
(* and location are its key, and that reviewer is what the reply says, not *)
(* who replied.                                                            *)
(***************************************************************************)
EXTENDS ReviewDecisions, Sequencing

CONSTANTS REVIEWER_KINDS, \* the reviewers the report has a block for, in order
          ReviewerOf,  \* the reviewer of a key; none of them if the reply names no known one
          Documents,   \* the document of each of the Sources
          Structural,  \* the words with which a line is_structural_command
          Comments,    \* the words that begin with a percent sign
          Reread,      \* what is read, if anything, of a word with markup in it
          Swallowing,  \* those that are a command and take the word after as well
          Lettered,    \* the words a command takes: letters only
          NGRAM        \* TextValidatorConfig::ngram

VARIABLES document,  \* the canonical document of the run
          authors,   \* whose reply each finding is from: its place in REVIEWER_KINDS
          statuses,  \* reviewer_results; "absent": the reviewer is disabled
          lost,      \* the paragraphs of the validation issues
          report     \* what the report names, or NoReport

reportVars == <<document, authors, statuses, lost, report>>

NoReport == [none |-> TRUE]

Kinds == Range(REVIEWER_KINDS)

ASSUME ReportAssumption ==
    /\ DOMAIN ReviewerOf = Keys
    /\ IsInjective(REVIEWER_KINDS)
    /\ NGRAM \in Nat \ {0}
    /\ Reread \in [DOMAIN Reread -> Seq(STRING)] /\ Swallowing \subseteq DOMAIN Reread
    /\ Claims \cap DOMAIN Reread = {}

-----------------------------------------------------------------------------
(* LatexRenderer::render: what the edits are made in, in this order.  The  *)
(* heading before a paragraph is empty unless it opens a section.          *)
Rendered(d) ==
    <<d.title, d.abstract>>
      \o Concat([n \in DOMAIN d.paragraphs |-> <<d.headings[n], d.paragraphs[n]>>])
      \o d.bibliography

Overstatements(text) == Sift(text, Claims)

Text(d) == Concat(Rendered(d))

(* Every overstatement of a document is a claim of its own, and none opens *)
(* a paragraph.                                                            *)
ASSUME DocumentsAssumption ==
    \A d \in Documents :
        /\ d \in [title : Seq(STRING), abstract : Seq(STRING), headings : Seq(Seq(STRING)),
                  paragraphs : Seq(Seq(STRING)), bibliography : Seq(Seq(STRING))]
        /\ Len(d.headings) = Len(d.paragraphs)
        /\ \A p \in Range(d.paragraphs) : p # << >> /\ p[1] \notin Claims
        /\ IsInjective(Overstatements(Text(d)))

Removed == {e[2] : e \in edits}

(* What the edits so far have left of a paragraph.                         *)
Revised(p) == Sift(p, Range(p) \ Removed)

(* tokenize: an overstatement is two words.                                *)
Tokens(p) == Concat([n \in DOMAIN p |-> IF p[n] \in Claims THEN <<"by", p[n]>> ELSE <<p[n]>>])

(* clean_tex, of the n-th word of a line.                                  *)
CleanedAt(tokens, n) ==
    IF tokens[n] \in DOMAIN Reread THEN Reread[tokens[n]]
    ELSE IF n > 1 /\ tokens[n - 1] \in Swallowing /\ tokens[n] \in Lettered THEN << >>
    ELSE <<tokens[n]>>

Cleaned(tokens) == Concat([n \in DOMAIN tokens |-> CleanedAt(tokens, n)])

(* A paragraph is rendered as one line: build_sections passes over one     *)
(* that begins with a command, but for citations and labels, and over one  *)
(* of which clean_tex leaves nothing, as of a comment.                     *)
ReadAgain(line) ==
    LET words == Cleaned(Tokens(line))
    IN  IF line[1] \in Structural \cup Comments \/ words = << >> THEN << >> ELSE <<words>>

(* parse_latex of the rendered source: the words of its paragraphs.        *)
Reparsed ==
    Concat([n \in DOMAIN document.paragraphs |-> ReadAgain(Revised(document.paragraphs[n]))])

Grams(tokens) == {SubSeq(tokens, i, i + NGRAM - 1) : i \in 1..Len(tokens) + 1 - NGRAM}

(* Mutant: all that was said has to be there again.                        *)
OverlapsWhole(p, ps) ==
    \E tokens \in Range(ps) : Grams(Tokens(p)) \subseteq Grams(tokens)

(* paragraph_overlaps: NGRAM words in a row of p are in one of ps, or, of  *)
(* a shorter p, every word.                                                *)
Overlaps(p, ps) ==
    LET words == Tokens(p)
        grams == Grams(words)
    IN  \E tokens \in Range(ps) :
            IF Len(words) < NGRAM THEN Range(words) \subseteq Range(tokens)
            ELSE grams \cap Grams(tokens) # {}

-----------------------------------------------------------------------------
(* run_pipeline before the judge: disabled reviewers have no result, and   *)
(* only a successful one has findings, which are collected in the          *)
(* reviewers' order.                                                       *)
ReportInit ==
    /\ Init
    /\ document \in Documents
    /\ original = Overstatements(Text(document))
    /\ authors \in [DOMAIN findings -> DOMAIN REVIEWER_KINDS]
    /\ \A i, j \in DOMAIN findings : i < j => authors[i] <= authors[j]
    /\ statuses \in [Kinds -> {"success", "failed", "absent"}]
    /\ \A i \in DOMAIN findings : statuses[REVIEWER_KINDS[authors[i]]] = "success"
    /\ lost = {} /\ report = NoReport

Decide == Next /\ UNCHANGED reportVars

(* TextValidator::validate, its first part.  The others have nothing to    *)
(* look at: no citation and no float survives the rendering.               *)
Validate ==
    /\ phase = "done"
    /\ phase' = "validated"
    /\ LET again == Reparsed
       IN  lost' = {n \in DOMAIN document.paragraphs :
                       ~Overlaps(document.paragraphs[n], again)}
    /\ UNCHANGED <<findings, taken, merged, revisions, records, original, revisionVars,
                   document, authors, statuses, report>>

(* render_reviewer_block: a reviewer without a result is reported failed,  *)
(* and whatever names it is not shown.                                     *)
Block(kind) ==
    [status |-> IF statuses[kind] = "absent" THEN "failed" ELSE statuses[kind],
     count |-> Cardinality({i \in DOMAIN findings : REVIEWER_KINDS[authors[i]] = kind}),
     findings |-> IF statuses[kind] = "absent" THEN {}
                  ELSE {i \in DOMAIN findings : ReviewerOf[findings[i].key] = kind}]

(* Mutant: the finding of an entry is looked up by the entry's number.     *)
ConsolidatedByNumber(k) ==
    [finding |-> k, severity |-> revisions[k].severity,
     reviewers |-> {ReviewerOf[findings[k].key]}]

(* render_consolidated_findings: an entry shows the first finding that has *)
(* its id, and every reviewer with a finding of that id.                   *)
Consolidated(k) ==
    LET same == {i \in DOMAIN findings : findings[i].id = records[k].id}
    IN [finding |-> CHOOSE i \in same : \A j \in same : i <= j,
        severity |-> revisions[k].severity,
        reviewers |-> {ReviewerOf[findings[i].key] : i \in same}]

(* render_approval_section                                                 *)
Approvals == {records[k].revision : k \in {j \in DOMAIN records : records[j].human}}

(* build_human_report                                                      *)
WriteReport ==
    /\ phase = "validated"
    /\ phase' = "reported"
    /\ report' = [blocks |-> [kind \in Kinds |-> Block(kind)],
                  entries |-> [k \in DOMAIN records |-> Consolidated(k)],
                  approvals |-> Approvals,
                  applied |-> Cardinality(applied),
                  validation |-> IF lost = {} THEN "PASSED" ELSE "FAILED",
                  issues |-> lost]
    /\ UNCHANGED <<findings, taken, merged, revisions, records, original, revisionVars,
                   document, authors, statuses, lost>>

ReportNext == Decide \/ Validate \/ WriteReport

ReportSpec == ReportInit /\ [][ReportNext]_<<vars, reportVars>>

-----------------------------------------------------------------------------
IdsTellKeys ==
    \A i, j \in DOMAIN findings : findings[i].id = findings[j].id => findings[i].key = findings[j].key

(* Every reply names its own reviewer.                                     *)
OwnNames == \A i \in DOMAIN findings : ReviewerOf[findings[i].key] = REVIEWER_KINDS[authors[i]]

(* The report shows what the pipeline did, as long as only findings that   *)
(* are merged share an id and replies name their own reviewers: every      *)
(* block has the findings of its reviewer and as many as it says, and is   *)
(* completed if there is one; every consolidated entry                     *)
(* with a finding of its own and the severity the Judge gave it, no lower  *)
(* than the finding's; for approval exactly the revisions that were left   *)
(* to a human; and with them all that was neither applied nor refused      *)
(* ("Never silently omit a reviewer", report.rs).                          *)
ReportFaithful ==
    phase = "reported" /\ IdsTellKeys /\ OwnNames =>
        /\ \A i \in DOMAIN findings :
              LET block == report.blocks[REVIEWER_KINDS[authors[i]]] IN
              /\ i \in block.findings /\ Cardinality(block.findings) = block.count
              /\ block.status = "success"
        /\ \A k \in DOMAIN report.entries :
              LET f == findings[report.entries[k].finding] IN
              /\ f.key = revisions[k].key
              /\ Ranks[report.entries[k].severity] >= Rank(f)
              /\ report.entries[k].reviewers = {ReviewerOf[f.key]}
        /\ ~ApproveAll => report.approvals = awaiting
        /\ report.applied + Cardinality(awaiting \cup rejected) = Len(report.entries)

(* The validation reports no paragraph that was only rendered and parsed   *)
(* again.  One that it reports begins with a command or a comment, which   *)
(* the parser passes over; or an edit took an overstatement out of it, or  *)
(* it has words that are read differently, and every NGRAM words in a row  *)
(* of it contain such a place or are next to one.  So no paragraph without *)
(* markup is lost by rendering (renderer/latex.rs: "does not invent        *)
(* content, it only emits what is present").                               *)
NoFalseAlarm ==
    phase = "reported" =>
        \A n \in report.issues :
            LET p == document.paragraphs[n]
                words == Tokens(p)
                touched == {k \in DOMAIN words : words[k] \in Removed \cup DOMAIN Reread}
            IN
            \/ p[1] \in Structural \cup Comments
            \/ /\ touched # {}
               /\ \A i \in 1..Len(words) + 1 - NGRAM : touched \cap (i - 1..i + NGRAM) # {}
=============================================================================
