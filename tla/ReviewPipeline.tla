--------------------------- MODULE ReviewPipeline ----------------------------
(***************************************************************************)
(* One review from the file to the record (paper-guard-app, pipeline.rs,   *)
(* bibliography.rs, memory_service.rs; paper-guard-review, reviewers.rs),  *)
(* as far as it decides whether there will be a record at all, and what of *)
(* the manuscript goes to whom.  Parsing is DocumentSource; what becomes   *)
(* of the answers is in Bibliography, MemoryRetrieval, ReviewCalls,        *)
(* ReviewReport and RunLedger, and the steps here leave it open.  Two      *)
(* commands take the same way and leave it earlier: `bibliography` after   *)
(* the references, `inspect` after the parser.                             *)
(***************************************************************************)
EXTENDS DocumentSource

CONSTANTS Configs,       \* the commands and configurations they run under
          PROMPT_CHARS   \* how much of a document a prompt has room for

Reviewers == {"scientific", "adversarial", "evidence", "references", "figures"}

(* The sections of the configuration that these steps read.                *)
BibliographyConfig == [enabled : BOOLEAN, provider : {"arxiv", "mock", "other"}, arxiv : BOOLEAN]
LlmConfig == {"mock", "openai-compatible", "other"}
MemoryConfig == [enabled : BOOLEAN, mode : {"off", "read_only", "write", "read_write"},
                 backend : {"none", "file", "qdrant"}, embedding : {"mock", "openai-compatible"}]
Configurations == [command : {"review", "bibliography", "inspect"},
                   bibliography : BibliographyConfig, llm : LlmConfig, memory : MemoryConfig,
                   reviewers : SUBSET Reviewers]

ASSUME PipelineAssumption == Configs \subseteq Configurations /\ PROMPT_CHARS \in Nat

VARIABLES config,
          step,      \* the stage of run_pipeline, or how it ended
          verified,  \* run.bibliography: the references that have a result
          guided,    \* memory_context says something
          sent       \* what went over the network: to whom, and what of the document

runVars == <<config, step, verified, guided, sent>>
pipelineVars == <<text, outcome, frames, fragments, missing, cycles, visited,
                  format, pages, stage, at, pending, counter, current, sections,
                  citations, claims, references, floats,
                  config, step, verified, guided, sent>>

Ended == {"completed", "failed", "panicked"}

PipelineInit ==
    /\ SourceInit
    /\ config \in Configs
    /\ step = "begin" /\ verified = << >> /\ guided = FALSE /\ sent = {}

-----------------------------------------------------------------------------
(* What a document consists of, for those who are sent parts of it.        *)
LineItem(e) == IF format = "pdf" THEN <<"page", Root, e[1]>> ELSE <<"line", FileOf(e[1]), e[2]>>
TextItems == [n \in 1..Len(LinesOf(Paragraphs)) |-> LineItem(LinesOf(Paragraphs)[n])]
ReferenceItem(r) == <<"reference", r>>
ClaimItem(c) == <<"claim", c.id>>
Title == <<"title">>

(* render_document_for_prompt: the text, the references, the claims, and   *)
(* of that as much as there is room for.                                   *)
RenderDocument ==
    LET all == TextItems \o [n \in 1..Len(references) |-> ReferenceItem(references[n])]
                         \o [n \in 1..Len(claims) |-> ClaimItem(claims[n])]
    IN  SubSeq(all, 1, IF Len(all) <= PROMPT_CHARS THEN Len(all) ELSE PROMPT_CHARS)

(* user_prompt: the figure reviewer is shown floats instead of the text.   *)
UserPrompt(kind) ==
    IF kind = "figures" THEN {<<"float", f>> : f \in Range(floats)} ELSE Range(RenderDocument)

(* The query to Review Memory: the first claim, or else the title.         *)
MemoryQuery == IF claims # << >> THEN ClaimItem(claims[1]) ELSE Title

Message(to, items) == [to |-> to, carries |-> items]

-----------------------------------------------------------------------------
(* Mutant: the master switch is not asked.                                 *)
EffectiveEnabledBySource(b) == b.provider = "mock" \/ b.arxiv

(* BibliographyConfig::effective_enabled                                   *)
EffectiveEnabled(b) == b.enabled /\ (b.provider = "mock" \/ b.arxiv)

(* `bibliography` looks at no paper while verification is off.             *)
Begin ==
    /\ step = "begin"
    /\ step' = IF config.command = "bibliography" /\ ~EffectiveEnabled(config.bibliography)
                 THEN "completed" ELSE "parse"
    /\ UNCHANGED <<config, verified, guided, sent>>

Parse == step = "parse" /\ SourceNext /\ UNCHANGED runVars

(* parse_source_path has returned, or panicked.                            *)
Parsed ==
    /\ step = "parse"
    /\ \/ stage = "done" /\ config.command # "inspect" /\ step' = "bibliography"
       \/ stage = "error" /\ step' = "failed"
       \/ stage = "panic" /\ step' = "panicked"
    /\ UNCHANGED <<config, verified, guided, sent>>

(* run_inspect: all it shows is what the parser returned.                  *)
Inspected ==
    /\ step = "parse" /\ stage = "done" /\ config.command = "inspect"
    /\ step' = "completed"
    /\ UNCHANGED <<config, verified, guided, sent>>

(* verify_source: the command has what it was asked for.                   *)
Onward == IF config.command = "bibliography" THEN "completed" ELSE "provider"

(* run_bibliography_verification and build_providers: every reference gets *)
(* a result, whatever the source says, and those the cache cannot answer   *)
(* are sent to arXiv.  An unknown source is only noticed here.             *)
VerifyBibliography ==
    LET b == config.bibliography IN
    /\ step = "bibliography"
    /\ \/ /\ ~EffectiveEnabled(b) \/ references = << >>
          /\ step' = Onward /\ UNCHANGED <<verified, sent>>
       \/ /\ EffectiveEnabled(b) /\ references # << >> /\ b.provider = "other"
          /\ step' = "failed" /\ UNCHANGED <<verified, sent>>
       \/ /\ EffectiveEnabled(b) /\ references # << >> /\ b.provider # "other"
          /\ verified' = references
          /\ \E asked \in IF b.provider = "arxiv" THEN SUBSET Range(references) ELSE {{}} :
                sent' = sent \cup {Message("arxiv", {ReferenceItem(r)}) : r \in asked}
          /\ step' = Onward
    /\ UNCHANGED <<config, guided>>

(* build_provider: a real provider needs its key, an unknown one is        *)
(* refused.                                                                *)
BuildProvider ==
    /\ step = "provider"
    /\ \/ config.llm # "other" /\ step' = "memory"
       \/ config.llm # "mock" /\ step' = "failed"
    /\ UNCHANGED <<config, verified, guided, sent>>

(* MemoryServiceOptions::from_config and MemoryService::new: the mode that *)
(* is in effect.                                                           *)
MemoryMode(m) == IF ~m.enabled \/ m.backend = "none" THEN "off" ELSE m.mode

(* MemoryMode::retrieves                                                   *)
Retrieves(m) == MemoryMode(m) \in {"read_only", "read_write"}

(* retrieve_context, driven by block_on: the query is embedded, and the    *)
(* mirror is searched with its vector or, where there is none, with an     *)
(* empty one that is refused.  Over the file a query without a vector is   *)
(* embedded again by the mock, in a block_on inside the first, which       *)
(* futures does not allow.                                                 *)
RetrieveMemory ==
    LET m == config.memory
        remote == m.embedding = "openai-compatible"
        Asked(places) == sent' = sent \cup {Message(p, {MemoryQuery}) : p \in places}
    IN
    /\ step = "memory"
    /\ \/ ~Retrieves(m) /\ step' = "prompts" /\ UNCHANGED <<guided, sent>>
       \/ \E embedded \in IF remote THEN BOOLEAN ELSE {TRUE} :
             /\ Retrieves(m)
             /\ Asked((IF remote THEN {"llm"} ELSE {}) \cup (IF m.backend = "qdrant" THEN {"qdrant"} ELSE {}))
             /\ IF ~embedded /\ m.backend = "file" THEN step' = "panicked" /\ UNCHANGED guided
                ELSE step' = "prompts" /\ guided' \in IF embedded THEN BOOLEAN ELSE {FALSE}
       \/ Retrieves(m) /\ step' = "prompts" /\ UNCHANGED <<guided, sent>>  \* MemoryService::new failed
    /\ UNCHANGED <<config, verified>>

(* reviewer_assignments: a prompt that is there and cannot be used fails   *)
(* the run.                                                                *)
AssignReviewers ==
    /\ step = "prompts"
    /\ step' \in {"review", "failed"}
    /\ UNCHANGED <<config, verified, guided, sent>>

(* ReviewRunner::run: of the enabled reviewers some get as far as a call.  *)
Review ==
    /\ step = "review"
    /\ \E called \in IF config.llm = "mock" THEN {{}} ELSE SUBSET config.reviewers :
          sent' = sent \cup {Message("llm", UserPrompt(kind)) : kind \in called}
    /\ step' = "record"
    /\ UNCHANGED <<config, verified, guided>>

(* persist_artifacts and save_run, after judge, revision and validation.   *)
SaveRecord ==
    /\ step = "record"
    /\ step' \in {"completed", "failed"}
    /\ UNCHANGED <<config, verified, guided, sent>>

PipelineNext ==
    \/ Parse
    \/ (\/ Begin \/ Parsed \/ Inspected \/ VerifyBibliography \/ BuildProvider \/ RetrieveMemory
        \/ AssignReviewers \/ Review \/ SaveRecord) /\ UNCHANGED sourceVars

PipelineSpec == PipelineInit /\ [][PipelineNext]_pipelineVars

(* At the command line the review has the main thread to itself and every  *)
(* request a timeout.  (For the service, see ServiceRuntime.)              *)
FairPipelineSpec == PipelineSpec /\ WF_pipelineVars(PipelineNext)

-----------------------------------------------------------------------------
(* A manuscript goes nowhere its configuration does not send it: arXiv is  *)
(* asked for references alone, and only if the master switch and the       *)
(* section say so; Review Memory and its embedding provider get one claim  *)
(* or the title ("Never embed the whole paper", pipeline.rs), if memory is *)
(* on in a mode that retrieves; the text goes to the configured model and  *)
(* to no mock.  Whatever is sent is prose, references, claims and floats   *)
(* of files in the project's directory: no comment of the source leaves    *)
(* the machine, no file outside, nothing at all of a source that is not    *)
(* parsed to its end, and nothing but references unless a review is asked  *)
(* for (main.rs:811, "Only bibliographic metadata is sent to scholarly     *)
(* sources").                                                              *)
Egress ==
    LET m == config.memory
        Asking(msg) == /\ m.enabled /\ m.mode \in {"read_only", "read_write"}
                       /\ Cardinality(msg.carries) = 1
                       /\ \A x \in msg.carries : x[1] \in {"claim", "title"}
    IN
    /\ sent # {} => stage = "done"
    /\ \A msg \in sent :
          /\ CASE config.command = "review" -> TRUE
               [] config.command = "bibliography" -> msg.to = "arxiv"
               [] config.command = "inspect" -> FALSE
          /\ msg.to = "arxiv" =>
                /\ config.bibliography.enabled /\ config.bibliography.arxiv
                /\ \A x \in msg.carries : x[1] = "reference"
          /\ msg.to = "qdrant" => m.backend = "qdrant" /\ Asking(msg)
          /\ msg.to = "llm" =>
                \/ /\ config.llm = "openai-compatible"
                   /\ \E kind \in config.reviewers : msg.carries = UserPrompt(kind)
                \/ m.embedding = "openai-compatible" /\ Asking(msg)
          /\ \A x \in msg.carries : x[1] = "line" =>
                x[2] \in Inside /\ text[x[2]][x[3]].kind = "prose"

(* Every review started at the command line ends: with a record, an error  *)
(* or a panic, on cyclic and diamond-shaped projects and whichever of the  *)
(* services it asks fails.  A record it ends with has a result for every   *)
(* reference if verification is on, and so has the list of `bibliography`. *)
PipelineEnds ==
    /\ <>(step \in Ended)
    /\ [](step = "completed" /\ EffectiveEnabled(config.bibliography) /\ config.command # "inspect"
            => verified = references)
=============================================================================
