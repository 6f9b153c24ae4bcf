---------------------------- MODULE FindingSchema -----------------------------
(***************************************************************************)
(* What a reviewer's reply may say and what Paper Guard makes of it: the   *)
(* reply schema and its reading (paper-guard-review, schema.rs, output.rs), *)
(* the finding it becomes (paper-guard-core, finding.rs), the operation    *)
(* and the allowed changes of each category (judge.rs), the scope of an    *)
(* instruction (paper-guard-core, revision.rs) and what the revision       *)
(* engine says to it (paper-guard-agents, revision.rs).                    *)
(*                                                                         *)
(* No state: these are the tables between a reply and an edit, of which    *)
(* ReviewDecisions keeps only what its steps tell apart.  A word of a      *)
(* reply is taken up to case and surrounding blanks; confidence is in      *)
(* percent; texts are blank or not.                                        *)
(***************************************************************************)
EXTENDS Naturals, Integers, Sequences, FiniteSets, Functions

Categories ==
    {"unsupported_claim", "weak_evidence", "overclaiming", "contradiction", "missing_control",
     "confounder", "bias", "statistical_weakness", "leakage", "reproducibility",
     "refactored_logic", "logical_gap", "interpretation_error", "limitation",
     "reference_error", "hallucinated_reference", "missing_reference", "citation_mismatch",
     "figure_issue", "table_issue", "inconsistency", "methodology", "prompt_injection", "other"}

ReviewerKinds == {"scientific", "adversarial", "evidence", "references", "figures", "judge"}

Severity == {"critical", "major", "moderate", "minor"}

Operations ==
    {"weaken_claim", "clarify", "add_limitation", "move_paragraph", "rewrite_sentence",
     "adjust_claim_strength", "flag_missing_evidence", "add_citation_for_existing_reference",
     "remove_unsupported_assertion", "fix_caption", "fix_table_header", "other"}

AllowedChanges ==
    {"rewrite_sentence", "weaken_claim", "add_limitation", "clarify", "reorder_text",
     "fix_formatting", "flag_unsupported", "add_citation_to_existing_reference",
     "fix_caption", "fix_table_header", "no_change"}

-----------------------------------------------------------------------------
(* What a word that is not in the schema is taken for.                     *)
ParseReviewer(word) == IF word \in ReviewerKinds THEN word ELSE "judge"
ParseCategory(word) == IF word \in Categories THEN word ELSE "other"
ParseSeverity(word) == IF word \in Severity THEN word ELSE "minor"

Clamp(percent) == IF percent < 0 THEN 0 ELSE IF percent > 100 THEN 100 ELSE percent

(* A value of the reply is a payload, or lacks a field or has one of the   *)
(* wrong type, which serde refuses.                                        *)
Misfit == [misfit |-> TRUE]

(* Of the fields, these may be missing: evidence, claim and the flag.      *)
Payload(id, reviewer, location, category, severity, confidence, text, human) ==
    [id |-> id, reviewer |-> reviewer, location |-> location, category |-> category,
     severity |-> severity, confidence |-> confidence, text |-> text, human |-> human]

(* finding_from_payload: critical and major findings need a human.         *)
FindingFromPayload(p) ==
    LET severity == ParseSeverity(p.severity) IN
    [p EXCEPT !.reviewer = ParseReviewer(@),
              !.category = ParseCategory(@),
              !.severity = severity,
              !.confidence = Clamp(@),
              !.human = @ \/ severity \in {"critical", "major"}]

(* Finding::validate                                                       *)
Valid(f) == f.confidence \in 0..100 /\ f.id # "" /\ f.text # ""

(* resolve_findings: the findings of a reply, or none at all with an       *)
(* error.  A single bad one refuses the reply.                             *)
Refused == [refused |-> TRUE]

ResolveFindings(reply) ==
    LET items == IF reply.json = "object" THEN <<reply.value>> ELSE reply.value
        fits(i) == items[i] # Misfit /\ Valid(FindingFromPayload(items[i]))
    IN  IF reply.json \in {"array", "object"} /\ \A i \in DOMAIN items : fits(i)
          THEN [findings |-> [i \in DOMAIN items |-> FindingFromPayload(items[i])]]
          ELSE Refused

(* normalize_finding_key: what makes two findings the same to the Judge.   *)
FindingKey(f) == [reviewer |-> f.reviewer, location |-> f.location, category |-> f.category]

-----------------------------------------------------------------------------
(* default_operation_for_category                                          *)
DefaultOperation(category) ==
    CASE category \in {"unsupported_claim", "weak_evidence", "overclaiming", "refactored_logic"} ->
             "weaken_claim"
      [] category \in {"contradiction", "inconsistency", "interpretation_error", "methodology",
                       "other"} -> "clarify"
      [] category \in {"missing_control", "confounder", "bias", "statistical_weakness", "leakage",
                       "reproducibility", "logical_gap", "limitation"} -> "add_limitation"
      [] category \in {"reference_error", "missing_reference", "citation_mismatch",
                       "hallucinated_reference"} -> "add_citation_for_existing_reference"
      [] category = "figure_issue" -> "fix_caption"
      [] category = "table_issue" -> "fix_table_header"
      [] category = "prompt_injection" -> "remove_unsupported_assertion"

(* default_allowed_changes                                                 *)
DefaultAllowedChanges(operation) ==
    CASE operation \in {"weaken_claim", "adjust_claim_strength"} ->
             {"weaken_claim", "rewrite_sentence", "clarify"}
      [] operation \in {"clarify", "other"} -> {"clarify", "rewrite_sentence"}
      [] operation = "add_limitation" -> {"add_limitation"}
      [] operation = "add_citation_for_existing_reference" ->
             {"add_citation_to_existing_reference"}
      [] operation \in {"remove_unsupported_assertion", "flag_missing_evidence"} ->
             {"flag_unsupported"}
      [] operation = "fix_caption" -> {"fix_caption"}
      [] operation = "fix_table_header" -> {"fix_table_header"}
      [] OTHER -> {"clarify"}

(* AllowedChange::permits: the operations each allowed change covers.      *)
Covers(allowed) ==
    CASE allowed = "weaken_claim" -> {"weaken_claim", "adjust_claim_strength"}
      [] allowed = "reorder_text" -> {"move_paragraph"}
      [] allowed = "fix_formatting" -> {"fix_caption"}
      [] allowed = "flag_unsupported" -> {"flag_missing_evidence"}
      [] allowed = "add_citation_to_existing_reference" -> {"add_citation_for_existing_reference"}
      [] allowed = "no_change" -> {}
      [] OTHER -> {allowed}

Permits(instruction, operation) ==
    \E allowed \in instruction.allowed : operation \in Covers(allowed)

(* make_revision: the instruction for a finding that needs a human or not. *)
MakeRevision(category, human) ==
    LET operation == DefaultOperation(category) IN
    [operation |-> operation, allowed |-> DefaultAllowedChanges(operation), human |-> human]

(* build_changes: how many edits the engine has for an instruction, in a   *)
(* source that has an overstatement or none.  Only weakening has one.      *)
BuildChanges(instruction, overstated) ==
    IF instruction.operation = "weaken_claim" /\ Permits(instruction, "weaken_claim") /\ overstated
      THEN 1 ELSE 0

(* Revision::validate                                                      *)
Validates(instruction, granted, changes) ==
    /\ ~(instruction.human /\ ~granted)
    /\ changes > 0 => Permits(instruction, instruction.operation)

(* RevisionEngine::apply                                                   *)
EngineApplies(instruction, granted, overstated) ==
    LET changes == BuildChanges(instruction, overstated) IN
    /\ ~(instruction.human /\ ~granted)
    /\ changes > 0
    /\ Validates(instruction, granted, changes)
=============================================================================
