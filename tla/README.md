# Formal models of Paper Guard

Paper Guard reviews scientific manuscripts: it parses a paper, asks several
LLM reviewers about it at the same time, merges what they find, revises what
may be revised without a human, checks the references against arXiv, and keeps
every run, every artifact and every human decision in files of one data
directory.  That directory is shared by an HTTP service, which runs each
request in a handler of its own, and by any number of command-line processes,
and nothing locks it.

This directory holds TLA+ models of the program from the file under review to
the record of its run, TLC runs that check them on small instances, and TLAPS
proofs of properties that hold for instances of every size.

    tlc -config MCReviewMemoryService.cfg MCReviewMemory    # one run
    tlapm ReviewMemoryProofs.tla                            # one proof module

Paths below are relative to `src/crates/`.

## The system

### Components, their state and what makes them correct

| Component | State | Operations | What has to hold | Models |
|---|---|---|---|---|
| Reviewer runner (`paper-guard-review/src/runner.rs`, `reviewer.rs`) | spawned tasks, semaphore, results | `run`, `run_one` | permits conserved, nobody starves, every result is its reviewer's own, a review ends | `ReviewRunner`, `AgentOutcomes` |
| LLM provider (`paper-guard-llm`) | a call's attempt, backoff and time | `generate`, `generate_once` | bounded retries of transient errors, and of nothing else | `ReviewCalls` |
| Review Memory (`paper-guard-app/src/memory_service.rs`, `memory/`) | entries of each process, `review_memory.json`, Qdrant points | `open`, `record_feedback`, `consent`, `persist`, `mirror_to_qdrant`, `retrieve_context`, `search`, export | nothing is approved without a human; what was decided stays decided; only approved units in scope guide a review | `ReviewMemory`, `ConsentRegistry`, `MemoryRetrieval` |
| Run ledger, artifacts, uploads (`paper-guard-ledger`, `paper-guard-app/src/pipeline.rs`, `paper-guard-service/src/api.rs`) | `run-NNN.json`, artifact files, managed manuscripts | `submit_review`, `next_run_id`, `persist_artifacts`, `save_run` | no run loses its record; each review is of its own bytes | `RunLedger` |
| What reads them: web interface, GETs, `report`, `findings`, `feedback`, ... | the view being put together | lists and loads, one file after the other | what is shown of a run is that run's | `LedgerViews` |
| Judge, approval gate, revision engine (`paper-guard-review/src/judge.rs`, `schema.rs`, `output.rs`; `paper-guard-agents/src/revision.rs`) | merged findings, instructions, records, revised source | `resolve_findings`, `consolidate`, the revision loop, `RevisionEngine::apply` | no finding is lost, no major revision without a human, every instruction settled once | `FindingSchema`, `ReviewDecisions` |
| Report, renderer and validation | the second document, the report | `render`, `validate`, `build_report` | the report shows what was found and done; validation alarms only where an edit or markup explains it | `ReviewReport` |
| Bibliography verification and cache (`paper-guard-bibliography`) | one JSON file per query | `build_query`, `parse_feed`, `decide`, `get`, `put`, `enforce_bounds`, `clear` | each row is about its reference, failures are never served, the cache stays bounded | `ReferenceMatching`, `Bibliography` |
| LaTeX project resolution (`paper-guard-parser/src/latex_project.rs`) | chain of files, fragments, diagnostics | `resolve_latex_project` | ends on every include graph, accounts for every include, nothing from outside the root | `IncludeResolver` |
| LaTeX and PDF parsing (`latex.rs`, `pdf.rs`) | open section and paragraph, counters, the document | `build_sections`, `extract_citations`, `extract_claims`, `parse_references`, `parse_pdf` | prose is kept once and in order, ids are unique, links lead somewhere, no half of a PDF | `DocumentSource` |
| The pipeline's stages (`pipeline.rs`, `bibliography.rs`, `main.rs`) | where a review is and what it sent | `run_pipeline`, `bibliography`, `inspect` | nothing leaves the machine but what the configuration sends, where it sends it; it ends | `ReviewPipeline` |
| HTTP service on its threads (`paper-guard-service`, tokio) | tasks, workers, the driver | `submit_review` polled and woken | a retrieval delays a review but never stops it | `ServiceRuntime` |
| Service discovery (`paper-guard-discovery`) | answers heard so far | browse, verify, select | only a verified service is used, never a guess among several, none without a preference | `ServiceDiscovery` |
| Command line, configuration, prompts, setup (`paper-guard-cli`, `config.rs`, `setup.rs`, `prompts.rs`) | `~/.paper-guard`, running commands | `setup`, `prompts init`, `config edit`, `review`, `discover` | no file of the user's is overwritten, a record names the prompts it sent | `CommandLine` |

### How they interact

`submit_review` (or the CLI) calls `run_pipeline`, an async function that runs
through all stages: it chooses a run id, parses the source, verifies the
references, asks Review Memory for guidance, runs the reviewers, lets the Judge
merge their findings, walks through the revision instructions, validates, and at
the end writes the artifacts and the ledger record.  Every stage awaits, so two
overlapping requests interleave at any of them.  Feedback on a finding and the
approval of a memory unit are other requests to the same process; the pipeline
opens a `MemoryService` of its own, so even one process may hold two copies of
the store.

Composition of the models, `A <- B` meaning that B extends A and adds to it:

    ReviewRunner    <- ReviewCalls       the call a running reviewer makes
    ReviewMemory    <- MemoryRetrieval   what is read from any state of the store
    RunLedger       <- LedgerViews       views over what overlapping reviews write
    ReviewDecisions <- ReviewReport      the document and the report of the decisions
    IncludeResolver <- DocumentSource <- ReviewPipeline
    ServiceDiscovery <- CommandLine
    ReferenceMatching <- Bibliography

`ReviewPipeline` is the frame: each of its stages leaves open what the module of
that stage decides.  `AgentOutcomes` and `ConsentRegistry` are abstract
specifications; `ReviewRunner` in turn is one for `ReviewCalls`.

### What is hard here

The difficult behaviours are listed, each at its line, under `hazards` in
`PROJECT.json`.  In short: files shared without locks between awaits (run ids,
uploads, the memory file, cache files, prompt files), `fs::write` that truncates
before it writes, in-memory copies that are written back whole, an HTTP mirror
that is updated after the state it mirrors may have changed again, panicking
tasks and dropped futures that hold permits, retries that hold them too, a
retrieval that blocks a thread others need, include graphs with cycles and
diamonds, parser state carried from one file into the next, and merging and
linking by ids that models make up.

## The modules

Each component is one module with one action per operation or per part of an
operation between two awaits (or file system calls).  A module `MCx` gives `x`
small constants, `xProofs` holds its theorems.  Operators whose comment starts
with "Mutant:" are deliberately wrong variants of the definition that follows
them; each property was seen to fail when such a variant replaces it.

**ReviewRunner** (`runner.rs:37-136`). `Spawn` and `Join` are the two loops of
the caller, which awaits the handles in list order; `Acquire(i)` is the first
poll of a task's `semaphore.acquire()`; `EndTask(i)` is the return or the panic
of `run_one` with the drop of its permit, which tokio hands to the longest
waiter; `Cancel` drops the caller's future, as axum does when the client
disconnects.  A reply of an LLM is a failure, something that does not parse, or
a list of items that validate or do not: `resolve_findings` takes all or none.
`max_concurrent = 0` means four permits.

**AgentOutcomes** is what a caller may rely on: one result per reviewer, in the
order of the list, under its name, with a status it can have.

**ReviewCalls** (`openai_compatible.rs:195-498`, `reviewer.rs`) opens up
`EndTask`: a running reviewer builds its request (refused if it has images that
the provider does not take), makes an attempt, gets no status in time, a refusal,
an HTTP status, or a success whose body arrives, is no completion or is cut off
on its way, classifies it, sleeps its backoff and attempts again while the
error is transient and retries are left, and only then ends.  It keeps its
permit all the while.  The request is one immutable value for all attempts, so
its contents are left out.  Time is counted per call in seconds, each attempt charged
with its whole timeout, so that `CallTimeBounded` compares the clock with what
the configuration allows.  `ImplementsRunner` is the refinement, fairness
included: the runner's assumption that a running task ends follows from attempts
and sleeps that end.

**ReviewMemory** (`memory_service.rs:229-288, 476-495`, `memory/repo.rs`,
`memory/qdrant.rs`).  A request goes through `RecordFeedback`, `StoreUnit`,
`PersistBegin`, `PersistEnd`, or `Consent`, the same two, and in Qdrant mode
`MirrorLoad`, `Upsert`.  `mem[p]` is the map behind process p's mutex, `file`
and `unreadable` the JSON file, `mirror` the approval state in the points.  The
mutex is taken once for the mutation and once for `persist`, as in the code, so
other requests come in between.  `Open` takes an unreadable file for an empty
store.  Failures: the embedding, opening or writing the file, the upsert,
restarts between requests, crashes anywhere.

**ConsentRegistry** is the store without any of that: units enter once,
privately, and change one at a time by a decision.

**MemoryRetrieval** (`memory_service.rs:338-465`, `unit.rs`, `qdrant.rs`,
`reviewer.rs:82-118`) has no steps of its own: `Guidance`, `Search` and
`ExportTrainingUnits` are evaluated for every caller and query on every state `ReviewMemory`
reaches.  A query whose text is blank is answered from the file in the order of
the store.  Of the file backend the retrieval is complete up to `TopK`; of Qdrant it
is only sound, because `vector_search` limits before it filters.
`MemoryContext` is what the prompts are told.  `Embed` and `QueryVectors` say
which vector a query gets from what the embeddings endpoint answers
(`embedding.rs:155-200`): none, one that lost entries, or a good one.

**RunLedger** (`pipeline.rs:123-359, 468-548`, `store.rs`, `api.rs:307-329,
588-630`).  A review uploads (`OpenFile`/`CloseFile` of the managed
manuscript), allocates, parses, writes each artifact and then the record, each
of them open-and-truncate first and write later.  `Fail` stops it anywhere.
`before` and `peers` are history variables: who had been answered when a review
chose its id, and who overlapped it.

**LedgerViews** (`paper-guard-gui`, `api.rs`, the reading commands).  `Open` and
`GiveFeedback` begin a view, with its first read if the run is given; `LoadRow`,
`LoadRecord`, `LoadRecordAgain`, `LoadPaper` and `LoadFindings` read one file
each, and the view is shown or fails.  Run files are listed by name, which is not the order of
their numbers.  One view is open at a time: a view changes nothing, so several
see no more than one does.  `since` is a history variable.

**FindingSchema** (`schema.rs`, `output.rs`, `finding.rs`, `judge.rs:54-92`,
`core/src/revision.rs`, `agents/revision.rs:53-240`) has no state: the tables
between a reply and an edit.  `ResolveFindings` turns a reply's payloads into
findings, all or none; unknown words become `judge`, `other`, `minor`.
`EngineApplies` says of an instruction whether the engine makes a change and
validates it.  `MCReviewReport` extends it and asserts, as assumptions TLC
evaluates, that the keys and the transformable categories `ReviewDecisions` is
instantiated with are those the tables give.

**ReviewDecisions** (`judge.rs:114-240`, `pipeline.rs:260-323`).  `Merge` takes
one finding at a time, `JudgeAll` chooses any order the `HashMap` and the stable
sort by severity can give, then `AwaitApproval`, `Apply` and `Reject` walk
through the instructions.  Texts are left out, and evidence, which the
Judge merges but no instruction and no record holds; a source is the sequence of
claims in which a numeric overstatement stands, because `weaken_numeric_global`
removes the first of them.

**ReviewReport** (`renderer/src/latex.rs`, `parser/src/latex.rs:228-532`,
`validation/src/text.rs`, `report/src/report.rs`) follows with the document: title,
abstract, the headings of sections, paragraphs and bibliography entries, each of
words, an overstatement being two words.  The edited document is rendered, parsed
again and compared by n-grams with the original; `Block` is the report's block of a
reviewer.  Parsing again is no identity, because `clean_tex` is not idempotent and a
PDF was never cleaned: a line that begins with a structural command or a percent
sign is passed over, and `CleanedAt` says what is read of a word with markup in it
(`\{a\}` is left as `\a\` and vanishes the second time, `$x$` becomes "math", a
command may take the word after it).  What cannot be told of the letters is a
constant: `Reread`, `Swallowing`, `Lettered`; a word of which a command takes a part,
and an environment or an overstatement inside of markup, are left out.  Two
properties are as weak as the code makes them.  `ReportFaithful` speaks of reviews in
which only findings that merge share an id and in which a reply names its own
reviewer.  `NoFalseAlarm` says what explains each paragraph that the validation
reports as lost: it begins with a command or a comment, or every NGRAM words in a row
of it contain, or are next to, a removed overstatement or a word that is read
differently; so a paragraph without markup and without an edit is never reported.

**Sequencing** (`Vec::extend`, `Iterator::filter`, `slice::sort_by`) is what several
modules do to a list: `Concat`, `Sift`, `Ranked`.  A condition is a set and an order
a set of pairs, so that one lemma speaks of all of them.

**ReferenceMatching** (`probe.rs`, `arxiv.rs`, `scholar.rs`) is the pure part of
the bibliography: the probe made of a reference, the query, the entries of a
response, similarity of titles, the hard conflicts, the verdict.  A text is a
sequence of words.

**Bibliography** (`verifier.rs:79-102`, `cache.rs`, `probe.rs:75-97`).  A review
walks its references and sources: `Hit`, or `Miss` (then `DropCorrupt`),
`Fetch`, `OpenEntry`, `WriteEntry`, `Sweep`, `Evict`, `Report`; `Clear` is
another process's `--clear-cache`.  `linked` says whether the file a review has
open is still the one under its name: an unlinked file takes the bytes with it,
as on Unix.  Simplifications, all towards the code on a healthy disk: listing
the directory and reading its files in `enforce_bounds` is one step, a removal
succeeds, the wall clock does not go back.

**IncludeResolver** (`latex_project.rs:118-435`).  `ResolveFile` opens a file
below the depth and fragment limits and off the chain, `Follow` takes the next
directive, `Report` notes what is not followed (missing, unreadable, outside,
circular, too deep, too many), `Return` goes back to the including file.  Paths
are what they lead to, links followed; `Inside` is the check against the
canonical root.

**DocumentSource** (`lib.rs:218-292`, `latex.rs`, `latex_project.rs:440-526`,
`pdf.rs`).  The fragments are read line by line (`ReadLine`) with the open
section carried from one to the next; a paragraph is flushed with its citations
and claims; bibliographies and floats are taken per file.  `stage = "panic"` is
the byte offset of `extract_claims` that falls inside a character.  A PDF is read
page by page; one broken page refuses all of it.

**ReviewPipeline** (`pipeline.rs:123-359`, `bibliography.rs`, `main.rs:785-841,
1033-1125`).  One action per stage; `sent` collects what went to arXiv, the LLM
endpoint, the embedding endpoint and Qdrant.  A review completes, fails or
panics; `bibliography` and `inspect` leave the same way earlier.

**ServiceRuntime** (`api.rs:307-329`, `pipeline.rs:586-640`, `#[tokio::main]`).
Places of a review on worker threads; an event reaches a task only if a worker
is free to turn the driver.  `Turn` either awaits or, in memory retrieval, blocks
its worker.

**ServiceDiscovery** (`mdns.rs:72-178`, `verify.rs:53-164`, `model.rs`).
Answers in any order, repeated and late, a window, one health check per
candidate, the selection.

**CommandLine** (`main.rs`, `config.rs`, `setup.rs`, `prompts.rs`).  Terminals
run commands over the files of `~/.paper-guard`; testing for a file, creating
it and writing it are three steps, the editor, where one is found, may be open
meanwhile, commands are
killed between steps, and the user changes and deletes files.  `review` loads the
configuration, then takes one role's prompt after the other, or talks to a server
instead; a prompt is inspected (`InspectPrompt`), its path is resolved and must be in
the directory (`ResolvePath`), and then it is opened by its name once more
(`ReadPrompt`), so that what is read may be another file than what was resolved.

## The runs

Passing runs; each explores its whole state space.

| Run | Instance | Shows |
|---|---|---|
| `calls` | three reviewers, one disabled, one permit, up to two retries, delays of 2 s and (capped) 3 s, a provider with and one without vision, panics, a cancellation | `PermitsConserved`, `NoIdlePermit`, `ResultsFaithful`, `CallTimeBounded`, `RetriesAreForTransients`; `ReviewEnds`; implements `AgentOutcomes` and the runner (`ImplementsRunner`) |
| `memory_faults` | two processes, three requests, two units, Qdrant, all faults, two decisions | `HumanConsent`: no copy of a unit is ever in a state no human put it in; `MirrorHoldsApproved` |
| `memory_service` | one service, two overlapping requests, two units, Qdrant, failing embeddings, restarts, three decisions; four callers by each of two backends, four queries and a blank one, one unit of guidance | `DurableWhenQuiet`, `MirrorCoversApproved`, `GuidanceApproved`, `NoSilentReapproval`, `RequestsAnswered`; implements `ConsentRegistry` |
| `ledger` | three reviews, two of them uploads under one name, two artifact files, three run ids of which the third sorts before the second, a dashboard of one row, failures anywhere | `LaterRunsGetLaterIds`, `RecordedUnlessShared`, `ReviewsOwnBytes`, `SavedRunsKept` |
| `decisions` | every review with up to three findings of two reviewers, three keys (one of unknown words), two claims, three severities, two documents of three and four paragraphs, one that begins with a command, one with a percent sign, others with markup further on, 4-grams | `NothingLost`, `NoSilentMajorRevision`, `EveryInstructionSettled`, `ReportFaithful`, `NoFalseAlarm` |
| `bibliography` | two reviews, three references with a family name of two words, five kinds of response, room for one file of two bytes, two instants | `RowsFaithful`, `CacheBounded`, `OldestFirst` |
| `documents` | a root and two files that include each other in any way, one unreadable, one outside, bibliographies in two files with a common key and an entry without; four PDFs; depth 2, six fragments; eight configurations of three commands; prompts cut at four lines | `ChainBounded`, `IncludesAccounted`, `ProseKept`, `DocumentLinked`, `PdfComplete`, `Egress`; `PipelineEnds` |
| `command_line` | two terminals, two prompt files and the configuration, six plans, one change by the user, five services, a window of two ticks | `EditsKept`, `PromptsAuditable`, `ChosenFromAll`; `CommandsEnd` |

Why the bounds are enough.  One permit for two enabled reviewers is the least
that queues a task, and the disabled one shifts the results if anything does;
two retries reach the cap of the backoff and a success after each error.  Two
requests are the least that overlap on one unit, three decisions let an
approval, its rejection and a further approval follow each other; two processes
are the least with a stale copy.  Three reviews allow one that fails, one that
overlaps and one that comes later, and three run ids are all that three reviews
can take; while a view is open at most one other review is in progress
(`MAX_BUSY`), since a view reads one file per step and what one writer does
between two reads a second could only repeat.  Three findings allow a pair that
merges and one that does not, in each order.  One cache file per directory makes
every store evict, and two instants tell "same time" from "older".  Two included
files give cycles, diamonds and repetition; depth 2 and six fragments are reached
by some of these graphs and not by others.  One permit is also why the default of
four (`max_concurrent = 0`) is covered by the proofs only.  The symmetry sets
exchange units, requests of one process, or uploads under one name, which no
definition tells apart; no liveness property is checked in a run with symmetry.

`CHECK_DEADLOCK FALSE` is given where the system really stops: a review that
ended, a walk that is done, terminals without further commands.  The memory runs
without it have no terminal state.

### Runs that end in a counterexample

Each of these states what the repository says and is violated by the code.

* `memory_reject_mirror`, `RejectionHolds`.  With the Qdrant backend an approved
  unit is uploaded; rejecting it changes the entry and the file, but
  `mirror_to_qdrant` returns when the unit is not retrievable and nothing
  deletes the point.  The next review, which reads only the mirror, retrieves
  it.  README: "Rejected memory is never returned as guidance."
* `ledger_shared_id`, `EveryRunRecorded`.  Two overlapping reviews take the same
  run id, the second overwrites the first's record and artifacts.
* `bibliography_venue`, `VerifiedMeansAgreement`.  The cache key leaves out the
  venue and the reference id, of which the cached row depends: a reference whose
  venue contradicts the source is reported as verified, under the id of another.
* `service_runtime`, `RetrievalIsHarmless`.  `retrieve_memory_context` blocks a
  worker thread of the runtime until an answer comes that only a free worker can
  deliver: on two processors two reviews that retrieve at once hang for ever,
  timeouts included.  With more workers than submissions the property holds.

### Differences that the models show and no run states

Met while modelling, with the line where each sits.  The first list is of code
against the repository's own words, the others have nothing they contradict but
are what a reader of the models may stumble over.

*Against a document, comment or test*

Three of these are stated as definitions of their modules.  They are no part of the
runs, but with each in place of the properties of its `.cfg`, TLC finds it violated.

* `ReviewCalls!CutBodiesRetried` (`MCReviewCalls.cfg`): a timeout or a broken
  connection while the body of a 2xx answer is read is swallowed by
  `unwrap_or_default` (`openai_compatible.rs:291`); the empty text is a
  `MalformedResponse`, and the call fails for good with its retries unused.
  `provider.rs:178-186` and `architecture.md:238` count timeouts and connection errors
  as transient and retried.  `RetriesAreForTransients`, which holds, is about attempts
  that got no status.
* `DocumentSource!SplicedInPlace` (`MCReviewPipeline.cfg`): the text of an included
  file comes after the whole including file; `latex_project.rs:25-27` and
  `architecture.md:883-884` say that it is spliced in document order, at each
  occurrence.  `ProseKept`, which holds, says nothing of how fragments stand to each
  other.
* `ServiceDiscovery!PreferenceRequired` (`MCCommandLine.cfg`): `select_service` takes
  the only verified service without a preference (`verify.rs:125-128`), against the
  comment right above it and `architecture.md:159-160`.  `ChosenFromAll`, which holds,
  demands a selection only where a preference names the one service that fits.

The rest are not stated in TLA+:

* A stale copy undoes a rejection: the service holds a unit as approved, the CLI
  rejects it, and the service's next write of any unit writes the old state back
  (`memory/repo.rs:166`).  `NoSilentReapproval` therefore is a property of one
  process.
* Overlapping uploads of one name share a file, and a review may read another's
  bytes (`api.rs:606` against `api.rs:95`); `ReviewsOwnBytes` excepts them.
* An instruction about one claim weakens the first number of the document,
  wherever it is (`agents/revision.rs:224` against `:43-45`).
* With the file backend and a query embedding that fails, the nested `block_on`
  (`repo.rs:276` inside `pipeline.rs:625`) panics and takes the review with it,
  although `pipeline.rs:586-588` says it continues without memory.
* Lines below an abstract or a bibliography have the wrong number, since these
  are cut out before lines are counted (`latex_project.rs:478` against
  `canonical.rs:48`).
* A file included twice is read twice (`architecture.md:903` says once).
* `pdf.rs:85-87` says a broken page does not drop the document; it does.
* `setup` tests for a file and then creates it, and may overwrite what came in
  between (`setup.rs:79` against `:12`); `EditsKept` speaks of files that have
  existed since the command began.
* `discover` ignores `mode = "off"` and unknown modes (`main.rs:926-931` against
  `model.rs:79-82, 100`).
* `MemoryService::search` over Qdrant leaves out owner and team (`memory_service.rs`
  against `unit.rs:176-179`); `GuidanceApproved` speaks of approval only there.

*Parsing and rendering*

* Each line that begins with a command is dropped with its prose and citations,
  `\item` and `\textbf{...}` included (`latex.rs:252`); a citation in a comment
  counts (`latex.rs:160`).
* `extract_claims` cuts at byte offsets and panics inside a character
  (`latex.rs:420-424`), and so does the prompt at 40000 bytes, and the excerpt
  of an invalid reply at 160 (`output.rs`), where the reviewer's task is reported
  as failed.
* Abstracts of included files and the second bibliography of a file are ignored;
  entries without a key are `R<n>` in each file anew, and figures, tables and
  equations are numbered per fragment.  `\input{x.tikz}` is skipped without a
  diagnostic.  The hash of a project covers its root file only.
* The parser never sets the asset of a figure, so that no image is ever sent.
* A title, a heading, an abstract and a bibliography entry may be edited but are never
  validated.  A paragraph each of whose 4-grams reaches into a removed overstatement or
  a word that is read differently the second time (a backslash left over by
  `clean_tex`, a formula of a PDF), and one that begins with a command or a percent
  sign, are reported as lost although nothing was.  The validator's checks of citations and floats compare empty lists.

*Decisions and report*

* The reviewer of a finding is what the model's reply says; an unknown one
  becomes the judge's and is in no block of the report.  An unknown severity
  becomes `minor`.  Instructions against prompt injection have an operation that
  their own allowed changes do not cover.
* The order of instructions of one severity differs between runs over the same
  findings (`judge.rs:158`).  `requires_human_approval` of a finding merged into
  an earlier one is dropped (`judge.rs:119-131`), which matters for a moderate
  or minor finding only.  The judge's notes are discarded.
* Records and report look findings up by ids that models may repeat; the report
  shows the evidence of the first merged finding only, and calls a disabled
  reviewer "FAILED" (`report.rs:186-191`).
* A run's status is `Completed` even when its validation failed, the revised
  source is not stored, and `ReportError` is never produced.

*Ledger and interfaces*

* Records are listed by file name, so that from `run-1000` on the latest run is
  not the last (`store.rs:74`); `review_memory.json` counts as a run.
* `paper-guard findings` reads `findings.json` as a list of `Finding`, while it
  holds `FindingRecord`s, and fails whenever there is one (`main.rs:1775-1785`);
  `report` without an id fails while the last record listed is torn.
* `GET findings` says `requires_human_approval: false` of every finding, and the
  service's feedback stores an empty `source_finding_id`.
* The report of a run whose id was shared may show one review's record under
  another's paper.
* `update_finding_status`, `detect_regressions`, `latest_for_input` and
  `with_scope` are called by tests only.

*Memory, bibliography and configuration*

* `vector_search` asks for `top_k` points before approval and scope are looked at,
  and may return none where some would fit.  An empty `owner_id`, the default,
  retrieves nothing.  A failed query embedding falls back to mock vectors that
  are compared with real ones (`repo.rs:269-281`).
* The service stores memory under `reproducibility.data_dir`, its reviews read it
  under `service.data_dir`.  The query goes to the configured endpoint even with
  `llm.provider = "mock"`.
* References without title, or of short words only, with the same authors and year
  share a cache key, although the query asks by reference id, and so do a title and an
  author of the same words, as the parts of a key are not told apart (`probe.rs:95`).
  A DOI in the cited
  venue, or any further word, makes it differ from the journal.  Of an author list
  separated by commas only the first surname is compared.  A plain `\bibitem` gets
  its first twelve words for a title, which practically never equals the source's.
* A bibliography with `google_scholar` as its only source never runs
  (`effective_enabled`).  An unsupported `llm.provider` and a broken prompt are
  noticed only after references and query were sent.  A provider set for one
  reviewer is ignored.
* A mistyped `--config` silently means the defaults; `init` overwrites; `serve`
  ignores the user's configuration; only `prompts_dir` expands `~`; a remote
  review uploads the root file alone.  Services are one when the first label of
  their name and their host agree (`mdns.rs:94-102`).

## Fairness

* `ReviewCalls!CallFairness`: weak fairness of `Spawn`, `Join`, each `Acquire(i)`
  and each step of a call.  tokio polls every woken task, its semaphore is first
  come first served, an attempt ends by the HTTP client's timeout and a sleep by
  its length.  That the whole call ends is not assumed; it follows, and with it
  the fairness of `ReviewRunner!Fairness` (`ImplementsRunner`).  `Cancel` is
  never forced.
* `ReviewMemory!Fairness`: weak fairness of `Step(r)`, the normal continuations
  of an accepted request; each is synchronous or an HTTP call with a timeout, and
  the mutex is held over no await.  Requests, faults and restarts are not forced.
* `ReviewPipeline!FairPipelineSpec`: weak fairness of the next step, for a
  command on its main thread; each request it makes has a timeout.
* `ServiceRuntime!RuntimeFairness`: a woken task is polled and a due event
  delivered, *when a worker is free to do it*; requests are not forced.
* `CommandLine!CommandFairness`: each command's own steps, the browse's clock and
  health checks.  The editor may stay open and the next command untyped; kills and
  the user's changes are not forced.

The other specifications assume none and are checked for safety only.

## The proofs

Every theorem is for all values of the constants that satisfy the named
assumptions of its modules (`RunnerAssumption` and `CallAssumption`,
`MemoryAssumption` and `RetrievalAssumption`, `LedgerAssumption` and
`LedgerViewsAssumption`, `DecisionsAssumption`, `ReportAssumption` and
`DocumentsAssumption`,
`BibliographyAssumption` and `CacheAssumption` with that of `ReferenceMatching`,
`ResolverAssumption`, `SourceAssumption` and `PipelineAssumption`,
`DiscoveryAssumption` and `CommandLineAssumption`).  They say what type the
parameters have and nothing about sizes beyond natural numbers, with a few
exceptions: the reviews and references over one cache are finitely many
(`CacheAssumption`, needed to count its files), `config` is no reviewer's name
and some reviewer exists (`CommandLineAssumption`), the root of a project is
a readable file of its own directory (`ResolverAssumption`), the numbers of runs
have no more digits than the order of their names is defined for
(`LedgerViewsAssumption`), and an overstatement is no command and never opens a
paragraph, as " by 40%" does not, and no two of a document are the same claim
(`ReportAssumption`, `DocumentsAssumption`).  Each is evaluated
by TLC in a run.  Four theorems of `ReviewMemoryProofs` have hypotheses of their
own, named below.

* **SequencingProofs** has no theorem of its own but the lemmas the others rest on:
  type, content and order of `Concat`, `Sift` and `Ranked`, for sequences over any
  set.  `Concat` is a recursive function, about which the library's induction
  theorems say nothing here, since they take operators as parameters; what is
  needed of it is proved by the least prefix for which it fails (`NatMin`,
  `ConcatUpto`, `SiftUpto`).
* **ReviewCallsProofs**, of the runner: `TypeCorrect`, `PermitsAlwaysConserved`,
  `NeverIdlePermit`, `ResultsAlwaysFaithful`, `RunnerImplementsAgentOutcomes`.
  The invariant adds three parts to the ones checked: `QueueOK` (the queue holds
  exactly the waiting tasks, each once, and is empty while a permit is free),
  `LoopsOK` (how the caller's two loops relate to tasks and results) and
  `RepliesOK`.  Without `QueueOK` a permit could be handed to a task that is
  not waiting, and neither conservation nor `NoIdlePermit` is inductive.  The
  refinement maps `Join` to `ReportNext` and all else to stuttering.
* **ReviewCallsProofs**, of the calls: `CallsTypeCorrect`, `CallTimeAlwaysBounded`,
  `RetriesAlwaysForTransients`.  `CallInv` is the runner's
  invariant with one for each call by itself: its stage agrees with its task,
  every failure before the current attempt has cost at most a timeout and the
  longest delay, and a call in backoff failed for a reason that may pass.  `CallsRefineRunner` proves
  `CallSpec => Spec`: a call's end is the runner's `EndTask`, its other steps
  stutter; hence `RunnerHoldsWithCalls`, what is proved of the runner holds of
  it with its calls, without being proved again.
* **ReviewMemoryProofs**: `MemoryTypeCorrect`, `HumanConsentAlways`,
  `MirrorAlwaysApproved`.  `HumanConsent` speaks of all copies at once, file,
  processes, mirror and what is on its way there, and is inductive together
  with the types just because of that: each step copies a state from one place
  to another, or records a decision first.  Four more theorems are about one
  process whose writes succeed and that stops only between requests
  (`OneProcess`; embeddings and uploads may fail, any number of requests
  overlap), since a crash, a failed write or a second process may lose decisions:
  `DurableAlways` and `NeverSilentlyReapproved` by `ServerInv` (file and memory
  differ only in what a request is about to write), `MemoryImplementsRegistry`
  by `EnterInv` (a unit on its way in has an id that no entry and no other unit on
  its way in has) and, with a mirror that takes its uploads (`Mirrored`),
  `MirrorAlwaysCoversApproved` by `CoverInv` (an approved unit is in the mirror or
  a request is taking it there).  `GuidanceAlwaysApproved` needs no further invariant: it is about
  what the retrieval returns in any state with `TypeOK` and `HumanConsent`, and rests
  on `SiftRange` (what is returned is accessible and relevant) and `RankedSorted`
  (what is cut off is no nearer, unless nothing was asked).
* **RunLedgerProofs**: `LedgerTypeCorrect`, `LaterRunsAlwaysGetLaterIds`,
  `SavedRunsAlwaysKept`.  The invariant adds `RecordsOK` (an answered review's
  run file exists, readable or not, and a readable one was written by an
  answered review of that id) and `HistoriesOK` (what `before` and `peers` say
  agrees with the phases).  An id is later because the file of the earlier run
  is listed even when it is torn.  `AlwaysReviewsOwnBytes` and
  `RecordedUnlessIdShared` need `FilesInv` on top: whoever writes over a file of a
  review has its file name or its id and overlaps it, so the upload is there
  until it is read, and each artifact and the record once written.  The second
  one is the part of `RecordedUnlessShared` about the files.
  `AlwaysRecordedUnlessShared` is all of it, by `ViewInv`: a view's rows and the
  names it has still to look up are in the order of the names (`Listing`), and the
  run of a review answered before the view was opened is among them, as that
  review's (`ViewOf`); the dashboard keeps the last of them.  That the list of names
  is complete and in order is `RankedSorted`.
  `ViewsOnlyRead` proves `ViewSpec => Spec`: a view's steps leave the variables of
  `RunLedger` alone, so its theorems hold with views.
* **ReviewDecisionsProofs**: `NothingEverLost`, `MajorNeverSilent`,
  `EveryInstructionAlwaysSettled`.  The invariant says that the merged findings,
  and later the instructions, cover all findings taken so far with distinct
  keys, and that nothing applied was gated.  `Settled` adds that the instructions
  before the turn are in exactly one of three sets, and that the source has lost
  one claim for each applied one.  `DecisionsHoldInReviews` states the three for
  `ReportSpec`, whose further steps only move the phase on.
  `ReportAlwaysFaithful` by `Traced` (every instruction has id and key of a finding,
  the records say of each what the Judge decided, and those that wait are all that
  are gated) and `Shown` (validation and report are of the state they were made in,
  which does not change any more): if ids tell keys, the instruction a record links
  to is its own.  `NothingEverLost` is about keys and severities only: what the Judge's instructions
  hold.  `NeverFalseAlarm` is about the texts: `WindowsLeft`, words in a row that
  reach into nothing removed are in a row in what is left, with the overstatements
  one word for the edits and two for the tokenizer; `CleanedKeeps` and `WordsLeft`, they
  are so in what is read again if they and the word before have no markup; and
  `RereadHas`, a paragraph of which something is left is read again unless it begins
  with a command or a comment.
* **BibliographyProofs**: `BibliographyTypeCorrect`, `RowsAlwaysFaithful`.  The
  invariant adds `EntriesAnswer` (every cache file that parses is an answer to
  its key's query, whoever wrote it and whatever was torn or evicted in between)
  and `AnswerOwn` (what a review is about to store answers its own reference).
  Nothing is assumed of how titles are compared.  `CacheAlwaysBounded` needs an
  invariant over all sets of reviews (`BoundsInv`): whichever of those in the
  middle of a sweep finish it, and whichever of those storing are left out, what
  remains exceeds the bounds by the others' files at most.  For one fixed set it
  is not inductive, since a review may be caught by another's sweep at any time.
  `AlwaysOldestFirst` is an action property by the types alone.
* **ReviewPipelineProofs**: `ChainAlwaysBounded` and `IncludesAlwaysAccounted` by
  `ResolverInv`: the files under way stand at distinct fragments (`Places`), which
  tells the includes followed so far from those ahead, and with the root they are
  as many as fragments, cycles and missing includes together.  `EgressAlways` by
  `DocumentInv` (every line of a paragraph is a page or a prose line of a
  fragment, none from outside the project) and `PipeInv` (what was sent went to a
  service of the configuration, is made of such lines, and was sent after the
  parser had ended; the document does not change any more).  `VerifiedInFull` is
  what `PipelineEnds` says of the end, without that it comes.
  `PdfAlwaysComplete` by `PdfInv`: the paragraphs start at the text pages before
  the one to come.  `ProseAlwaysKept` by `ProseInv`: the lines of the paragraphs so
  far, those of the open section included, followed by the prose of the open
  paragraph are the prose before the element to come (`MergedTo`), and between the
  first line of the open paragraph and its first prose stands nothing that would
  end it (`OpenBefore`), whence its location.  The invariant knows the order of the
  fragments (`InFragmentOrder`); `FragmentOrderKept` takes from it what `ProseKept`
  says, the range and the order within each fragment.  `DocumentAlwaysLinked` by `LinkInv`:
  a paragraph's id is its section's with its place in it, and the section's is of
  the counter, so the next one is new (`IdsOK`); the citations and claims so far
  are those of the closed paragraphs, each under its paragraph's id (`Linked`); and
  the references of each fragment that is done are among those collected, in a
  project once (`ReferencesNow`).
* **CommandLineProofs**: `AlwaysChosenFromAll` by `DiscoveryInv` (hosts are listed
  once, verdicts go along the list); `EditsAlwaysKept` and `PromptsAlwaysAuditable`
  by `CommandInv`, one invariant per terminal: a file about to be created was seen
  absent, and each enabled reviewer before the current one is resolved, in order,
  from a text its file had at some time since the command began.

`MemoryRetrieval` has no steps of its own, so that it is proved about in
`ReviewMemoryProofs`; what is proved of `ReviewMemory` holds with it.

Only model-checked:

* liveness (`ReviewEnds`, `RequestsAnswered`, `CommandsEnd`, the end in
  `PipelineEnds`) and the fairness half of `ImplementsRunner`, which need ENABLED;
* that `ResolveFindings` and the engine's tables give the findings and keys that
  `ReviewDecisions` starts from (`RepliesAssumption`, `EngineAssumption`): they are
  finite and TLC evaluates them;
* how titles are compared and probes made (`ReferenceMatching`), of which the proofs
  assume nothing.

## Plan

The lifecycle of findings (`store.rs:91-161`), once something but tests calls it:
read-modify-write of a record against the save of a run.

## Not modelled

* Wording and layout: prompts, report styles, the terminal's output, the static
  pages of the web interface, logging.  Letters of a text, where no property
  tells them apart: a text is a sequence of lines, words or claims.
* The mock LLM provider and the mock source of the bibliography are test doubles.
  Qdrant and arXiv are external; that Qdrant takes a memory's id for a point's is
  assumed.
* Hashes and provenance labels (`paper-guard-core`) are data without state.
* Rounding of floating-point similarities at a threshold; likeness is in parts of
  10000.
* `init`, `health`, `diagnostics`, `info`, `config show` and `prompts list`, which
  write one file or only print; of the HTTP service, health, metadata and the conversions of DTOs.
* The lifecycle of findings in `store.rs`, which only tests call.
