--------------------------- MODULE DocumentSource ----------------------------
(***************************************************************************)
(* From the file under review to the document model (paper-guard-parser,   *)
(* lib.rs, latex.rs, latex_project.rs, pdf.rs): what IncludeResolver put   *)
(* together is cut into sections and paragraphs, element by element, by    *)
(* build_sections, which carries the open section from one fragment to the *)
(* next and takes citations and claims out of each paragraph it closes;    *)
(* bibliographies and floats are taken file by file; a PDF page by page.   *)
(***************************************************************************)
EXTENDS IncludeResolver, Sequencing, SequencesExt

CONSTANTS PagesOf,         \* the PDF files there may be: sequences of pages
          ENV_LINES        \* lines of an abstract or bibliography in a file

ASSUME SourceAssumption ==
    /\ PagesOf \subseteq Seq({"text", "scan", "broken"})
    /\ ENV_LINES \in Nat \ {0}

VARIABLES format,    \* "latex", "pdf" or "other", by the extension of the path
          pages,     \* the pages of a PDF
          stage,     \* "source", "merge", "pages", "done", "error" or "panic"
          at,        \* the fragment and the element, or the page, to come
          pending,   \* elements of the open paragraph
          counter,   \* section_counter
          current,   \* the open section
          sections,  \* the closed ones
          citations, claims,     \* taken from the closed paragraphs
          references, floats     \* taken from the files that are done

extracts == <<citations, claims, references, floats>>
docVars == <<format, pages, stage, at, pending, counter, current, sections,
             citations, claims, references, floats>>
sourceVars == <<text, outcome, frames, fragments, missing, cycles, visited,
                format, pages, stage, at, pending, counter, current, sections,
                citations, claims, references, floats>>

NoSection == [id |-> <<"none", 0>>, paragraphs |-> << >>]

SourceInit ==
    /\ ResolverInit
    /\ format \in {"latex", "pdf", "other"}
    /\ pages \in IF format = "pdf" THEN PagesOf ELSE {<< >>}
    /\ stage = "source" /\ at = <<1, 1>>
    /\ pending = << >> /\ counter = 0 /\ current = NoSection /\ sections = << >>
    /\ citations = << >> /\ claims = << >> /\ references = << >> /\ floats = << >>

-----------------------------------------------------------------------------
(* build_sections                                                          *)

FileOf(i) == fragments[i].file
Says(e) == text[FileOf(e[1])][e[2]]

Before(f, k, kind) == Cardinality({j \in 1..k - 1 : text[f][j].kind = kind})

(* split_bibliography: the first bibliography of the file is taken out.    *)
IsFirst(f, k) == Before(f, k, "bibliography") = 0

(* Line of element k in the text build_sections is given: the abstract has *)
(* been replaced by a newline, which leaves two lines of it, and the first *)
(* bibliography by nothing, which leaves one.                              *)
BodyLine(f, k) ==
    LET bibs == Before(f, k, "bibliography") IN
    k + Before(f, k, "abstract") + IF bibs > 1 THEN (ENV_LINES - 1) * (bibs - 1) ELSE 0

(* Line of element k in the file.                                          *)
FileLine(f, k) ==
    k + (ENV_LINES - 1) * (Before(f, k, "abstract") + Before(f, k, "bibliography"))

(* Only the paragraphs of a project say where they come from.              *)
Located == Len(fragments) > 1

Location(i, k) ==
    IF Located THEN [file |-> FileOf(i), line |-> BodyLine(FileOf(i), k)]
    ELSE [file |-> Nowhere, line |-> 0]

(* Mutant: paragraphs are numbered through the document's closed sections. *)
ParagraphIdClosed(sec) == <<sec.id, Len(sections) + 1>>

ParagraphId(sec) == <<sec.id, Len(sec.paragraphs) + 1>>

(* The section a paragraph of its goes to: text before the first section   *)
(* opens a section of its own.                                             *)
Opened == IF current = NoSection THEN [id |-> <<"front", 0>>, paragraphs |-> << >>] ELSE current

(* clean_tex: what is left of the open paragraph; comments are dropped.    *)
Cleaned(par) ==
    Concat([n \in 1..Len(par) |-> IF Says(par[n]).kind = "prose" THEN <<par[n]>> ELSE << >>])

Kept == Cleaned(pending) # << >>

(* Paragraph of the open lines.                                            *)
Open == [id |-> ParagraphId(Opened), lines |-> Cleaned(pending),
         start |-> Location(pending[1][1], pending[1][2])]

(* extract_citations: from the raw lines, comments among them.             *)
Citing(par) ==
    Concat([n \in 1..Len(par) |-> IF Says(par[n]).keys # << >> THEN <<par[n]>> ELSE << >>])

CitationsIn(par) ==
    [n \in 1..Len(Citing(par)) |->
        [id |-> <<Open.id, n>>, location |-> Open.id, refs |-> Says(Citing(par)[n]).keys]]

Claiming(par) == {n \in 1..Len(par) : Says(par[n]).claim > 0}

(* extract_claims: at most one claim, by the first indicator of the list.  *)
ClaimsIn(par) ==
    LET first == CHOOSE n \in Claiming(par) :
                    \A k \in Claiming(par) : Says(par[n]).claim <= Says(par[k]).claim
    IN  IF Claiming(par) = {} THEN << >>
        ELSE <<[id |-> <<Open.id, Says(par[first]).claim>>, location |-> Open.id]>>

(* flush!: the open paragraph joins the open section, unless nothing of it *)
(* is left, with its citations and its claim.                              *)
Flushed == IF Kept THEN [Opened EXCEPT !.paragraphs = Append(@, Open)] ELSE current

Flush ==
    /\ pending' = << >>
    /\ citations' = citations \o IF Kept THEN CitationsIn(pending) ELSE << >>
    /\ claims' = claims \o IF Kept THEN ClaimsIn(Cleaned(pending)) ELSE << >>

(* The claim is cut out of the paragraph by byte offsets: when these fall  *)
(* inside a character the slice panics.                                    *)
Panic ==
    /\ Kept /\ Claiming(Cleaned(pending)) # {}
    /\ \E e \in Range(Cleaned(pending)) : ~Says(e).ascii
    /\ stage' = "panic"
    /\ UNCHANGED <<at, pending, counter, current, sections, citations, claims>>

Closed(sec) == IF sec = NoSection THEN sections ELSE Append(sections, sec)

(* The source is resolved, or cannot be: the merge begins.  A project that *)
(* comes down to its root is parsed as a single file.                      *)
BeginMerge ==
    /\ stage = "source" /\ format = "latex"
    /\ \/ outcome \in {"single", "resolved"} /\ stage' = "merge"
       \/ outcome = "failed" /\ stage' = "error"
    /\ UNCHANGED <<format, pages, at, pending, counter, current, sections, extracts>>

Resolve == stage = "source" /\ format = "latex" /\ ResolverNext /\ UNCHANGED docVars

(* Any other format is refused.                                            *)
Unsupported ==
    /\ stage = "source" /\ format = "other"
    /\ stage' = "error"
    /\ UNCHANGED <<format, pages, at, pending, counter, current, sections, extracts>>

(* A blank line ends a paragraph; an abstract and the bibliography that is *)
(* taken out leave one.                                                    *)
BlankLine ==
    LET kind == Says(at).kind IN
    /\ \/ kind \in {"blank", "abstract"}
       \/ kind = "bibliography" /\ IsFirst(FileOf(at[1]), at[2])
    /\ current' = Flushed /\ Flush
    /\ UNCHANGED <<counter, sections>>

SectionLine ==
    /\ Says(at).kind = "section"
    /\ Flush
    /\ sections' = Closed(Flushed)
    /\ counter' = counter + 1
    /\ current' = [id |-> <<"section", counter + 1>>, paragraphs |-> << >>]

(* is_structural_command: a line that begins with a command is left out    *)
(* with all that follows on it, and ends no paragraph; so are the lines of *)
(* a float and of a second bibliography.                                   *)
StructuralLine ==
    LET kind == Says(at).kind IN
    /\ \/ kind \in {"command", "include", "float"}
       \/ kind = "bibliography" /\ ~IsFirst(FileOf(at[1]), at[2])
    /\ UNCHANGED <<pending, counter, current, sections, citations, claims>>

ProseLine ==
    /\ Says(at).kind \in {"prose", "comment"}
    /\ pending' = Append(pending, at)
    /\ UNCHANGED <<counter, current, sections, citations, claims>>

ReadLine ==
    /\ stage = "merge" /\ at[1] <= Len(fragments) /\ at[2] <= Len(text[FileOf(at[1])])
    /\ \/ /\ BlankLine \/ SectionLine \/ StructuralLine \/ ProseLine
          /\ at' = <<at[1], at[2] + 1>>
          /\ UNCHANGED stage
       \/ Says(at).kind \in {"blank", "abstract", "section"} /\ Panic
    /\ UNCHANGED <<format, pages, references, floats>>

(* parse_references, of the bibliography that was taken out: an entry      *)
(* without a key gets a positional id.                                     *)
ReferencesIn(f) ==
    LET bibs == {k \in 1..Len(text[f]) : text[f][k].kind = "bibliography" /\ IsFirst(f, k)}
        entries == IF bibs = {} THEN << >> ELSE text[f][CHOOSE k \in bibs : TRUE].keys
    IN [n \in 1..Len(entries) |-> IF entries[n] = NoKey THEN <<"R", n>> ELSE <<"key", entries[n]>>]

(* In a project the first reference of a key is kept (seen_refs); a single *)
(* file keeps all of its.                                                  *)
MergeReferences(refs, more) ==
    IF ~Located THEN refs \o more
    ELSE refs \o Concat([n \in 1..Len(more) |->
            IF more[n] \in Range(refs) \cup {more[m] : m \in 1..n - 1} THEN << >> ELSE <<more[n]>>])

(* extract_figures and the like: numbered in each file from one.           *)
FloatsIn(f) ==
    [n \in 1..Cardinality({k \in 1..Len(text[f]) : text[f][k].kind = "float"}) |-> <<"F", n>>]

(* Mutant: a paragraph that is open where a file ends goes on in the next. *)
EndFragmentKeeps ==
    /\ stage = "merge" /\ at[1] <= Len(fragments) /\ at[2] > Len(text[FileOf(at[1])])
    /\ at' = <<at[1] + 1, 1>>
    /\ references' = MergeReferences(references, ReferencesIn(FileOf(at[1])))
    /\ floats' = floats \o FloatsIn(FileOf(at[1]))
    /\ UNCHANGED <<format, pages, stage, counter, sections, pending, current, citations, claims>>

(* The end of a fragment ends its paragraph, but not its section.          *)
EndFragment ==
    /\ stage = "merge" /\ at[1] <= Len(fragments) /\ at[2] > Len(text[FileOf(at[1])])
    /\ \/ /\ at' = <<at[1] + 1, 1>>
          /\ current' = Flushed /\ Flush
          /\ references' = MergeReferences(references, ReferencesIn(FileOf(at[1])))
          /\ floats' = floats \o FloatsIn(FileOf(at[1]))
          /\ UNCHANGED <<stage, counter, sections>>
       \/ Panic /\ UNCHANGED <<references, floats>>
    /\ UNCHANGED <<format, pages>>

(* Mutant: only an open section is closed, and without one nothing ends.   *)
FinalizeOpen ==
    /\ stage = "merge" /\ at[1] > Len(fragments) /\ current # NoSection
    /\ sections' = Closed(current)
    /\ current' = NoSection
    /\ stage' = "done"
    /\ UNCHANGED <<format, pages, at, pending, counter, extracts>>

(* finalize_sections                                                       *)
Finalize ==
    /\ stage = "merge" /\ at[1] > Len(fragments)
    /\ sections' = Closed(current)
    /\ current' = NoSection
    /\ stage' = "done"
    /\ UNCHANGED <<format, pages, at, pending, counter, extracts>>

-----------------------------------------------------------------------------
(* parse_pdf                                                               *)

(* A file lopdf cannot load, or an encrypted one, fails at once.           *)
OpenPdf ==
    /\ stage = "source" /\ format = "pdf"
    /\ stage' \in {"pages", "error"}
    /\ UNCHANGED <<format, pages, at, pending, counter, current, sections, extracts>>

(* Mutant: a page that cannot be extracted is left out.                    *)
ReadPageLenient ==
    /\ stage = "pages" /\ at[1] <= Len(pages)
    /\ IF pages[at[1]] = "text"
       THEN /\ counter' = counter + 1
            /\ sections' = Append(sections,
                 [id |-> <<"section", counter + 1>>,
                  paragraphs |-> <<[id |-> <<<<"page", at[1]>>, 1>>, lines |-> <<at>>,
                                    start |-> [file |-> Root, line |-> at[1]]]>>])
       ELSE UNCHANGED <<counter, sections>>
    /\ at' = <<at[1] + 1, 1>>
    /\ UNCHANGED <<format, pages, stage, pending, current, extracts>>

(* A page with text is a section; a scanned one has nothing to extract; a  *)
(* page that cannot be extracted fails the whole document.                 *)
ReadPage ==
    /\ stage = "pages" /\ at[1] <= Len(pages)
    /\ \/ /\ pages[at[1]] = "text"
          /\ counter' = counter + 1
          /\ sections' = Append(sections,
               [id |-> <<"section", counter + 1>>,
                paragraphs |-> <<[id |-> <<<<"page", at[1]>>, 1>>, lines |-> <<at>>,
                                  start |-> [file |-> Root, line |-> at[1]]]>>])
          /\ at' = <<at[1] + 1, 1>>
          /\ UNCHANGED stage
       \/ /\ pages[at[1]] = "scan"
          /\ at' = <<at[1] + 1, 1>>
          /\ UNCHANGED <<stage, counter, sections>>
       \/ /\ pages[at[1]] = "broken"
          /\ stage' = "error"
          /\ UNCHANGED <<at, counter, sections>>
    /\ UNCHANGED <<format, pages, pending, current, extracts>>

(* A PDF without any text is no document.                                  *)
ClosePdf ==
    /\ stage = "pages" /\ at[1] > Len(pages)
    /\ stage' = IF sections = << >> THEN "error" ELSE "done"
    /\ UNCHANGED <<format, pages, at, pending, counter, current, sections, extracts>>

SourceNext ==
    \/ Resolve
    \/ (\/ BeginMerge \/ ReadLine \/ EndFragment \/ Finalize
        \/ Unsupported \/ OpenPdf \/ ReadPage \/ ClosePdf) /\ UNCHANGED resolverVars

SourceSpec == SourceInit /\ [][SourceNext]_sourceVars

-----------------------------------------------------------------------------
(* What the builder makes of it; a PDF has sections only.                  *)
Document == [sections |-> sections, bibliography |-> references, citations |-> citations,
             claims |-> claims, figures |-> floats]

Paragraphs == Concat([n \in 1..Len(sections) |-> sections[n].paragraphs])

(* The lines of prose of fragment i.                                       *)
ProseIn(i) == {<<i, k>> : k \in {j \in 1..Len(text[FileOf(i)]) : Says(<<i, j>>).kind = "prose"}}

LinesOf(pars) == Concat([n \in 1..Len(pars) |-> pars[n].lines])

NoEnvironment(f) == \A k \in 1..Len(text[f]) : text[f][k].kind \notin {"abstract", "bibliography"}

(* What may stand between the first line of a paragraph and the first of   *)
(* its prose.                                                              *)
Passed == {"comment", "command", "include", "float", "bibliography"}

(* The location of a paragraph is its own.                                 *)
Placed(p) ==
    /\ \A e \in Range(p.lines) : FileOf(e[1]) = p.start.file
    /\ \E k \in 1..p.lines[1][2] :
          /\ p.start.line = BodyLine(p.start.file, k)
          /\ \A j \in k..p.lines[1][2] - 1 : text[p.start.file][j].kind \in Passed
          /\ NoEnvironment(p.start.file) => p.start.line = FileLine(p.start.file, k)

(* Every line of prose of every fragment is in exactly one paragraph, and  *)
(* those of one fragment are in order: nothing is lost, doubled or moved   *)
(* where fragments, comments, commands or an abstract interrupt a          *)
(* paragraph.  Where the fragments stand to each other is not said:        *)
(* included text follows the whole of the including file (see              *)
(* SplicedInPlace).  In a project no paragraph mixes two files, as its     *)
(* location names one and the line in it ("The 1-based line number within  *)
(* `file`", canonical.rs), if that has no environment that is cut out.     *)
ProseKept ==
    stage = "done" /\ format = "latex" =>
        LET lines == LinesOf(Paragraphs) IN
        /\ Range(lines) = UNION {ProseIn(i) : i \in 1..Len(fragments)}
        /\ \A m, n \in 1..Len(lines) :
              m < n /\ lines[m][1] = lines[n][1] => lines[m][2] < lines[n][2]
        /\ Located => \A n \in 1..Len(Paragraphs) : Placed(Paragraphs[n])

(* The fragment whose include fragment i is: the last one before it that   *)
(* is one level up.                                                        *)
Includer(i) == Max({j \in 1..i - 1 : fragments[j].depth + 1 = fragments[i].depth})

(* Included text stands where the include is: the prose of a fragment      *)
(* comes before what follows the include in the including file ("Included  *)
(* files are spliced in document order", "expanded at each occurrence,     *)
(* exactly as LaTeX does", latex_project.rs).  The code puts each whole    *)
(* file before all that it includes.                                       *)
SplicedInPlace ==
    stage = "done" /\ format = "latex" =>
        LET lines == LinesOf(Paragraphs) IN
        \A m, n \in 1..Len(lines) :
            LET i == lines[m][1] IN
            i > 1 /\ lines[n][1] = Includer(i) /\ lines[n][2] > fragments[i].line => m < n

DistinctIds(seq) == \A m, n \in 1..Len(seq) : seq[m].id = seq[n].id => m = n

(* Each citation of the prose of p is in cits.                             *)
Cites(p, cits) ==
    \A e \in Range(p.lines) : Says(e).keys # << >> =>
        \E c \in Range(cits) : c.location = p.id /\ c.refs = Says(e).keys

(* There is a claim of p in cls if one of its lines has an indicator.      *)
Claims(p, cls) == Claiming(p.lines) # {} <=> \E c \in Range(cls) : c.location = p.id

CitedIn(c, p) ==
    /\ c.location = p.id
    /\ \E line \in Range(text[FileOf(p.lines[1][1])]) :
          line.kind \in {"prose", "comment"} /\ line.keys = c.refs

(* Sections and paragraphs have ids of their own in the whole document     *)
(* ("globally-unique section/paragraph IDs", latex_project.rs), however    *)
(* often a file is included, and so have the citations and claims that     *)
(* refer to them: each citation of the prose is in the paragraph of its    *)
(* line, and each paragraph has a claim if one of its lines has an         *)
(* indicator.  What is cited in one file and listed in another resolves    *)
(* ("so that in-text \cite{key} references resolve to the bibliography    *)
(* entry", latex.rs), to one reference of a project.                       *)
DocumentLinked ==
    stage = "done" =>
        /\ DistinctIds(Document.sections) /\ DistinctIds(Paragraphs)
        /\ DistinctIds(Document.citations) /\ DistinctIds(Document.claims)
        /\ format = "latex" =>
              /\ \A p \in Range(Paragraphs) : Cites(p, citations) /\ Claims(p, claims)
              /\ \A c \in Range(citations) : \E p \in Range(Paragraphs) : CitedIn(c, p)
              /\ \A i \in 1..Len(fragments) : Range(ReferencesIn(FileOf(i))) \subseteq Range(references)
              /\ Located => Cardinality(Range(references)) = Len(references)

(* A PDF is reviewed with the text of all its pages or not at all ("never  *)
(* silently reviews an incomplete PDF", docs/architecture.md).             *)
PdfComplete ==
    stage = "done" /\ format = "pdf" =>
        /\ \A p \in 1..Len(pages) : pages[p] # "broken"
        /\ {Paragraphs[n].start.line : n \in 1..Len(Paragraphs)}
             = {p \in 1..Len(pages) : pages[p] = "text"}
        /\ sections # << >>
=============================================================================
