--------------------------- MODULE ReviewDecisions ---------------------------
(***************************************************************************)
(* From the findings of the reviewers to edits: the Judge                  *)
(* (paper-guard-review, judge.rs) merges duplicates, sorts by severity and *)
(* makes one revision instruction per merged finding; the pipeline         *)
(* (paper-guard-app) records them and walks through them in order; the     *)
(* revision engine (paper-guard-agents) applies one or fails closed.       *)
(*                                                                         *)
(* The Judge merges in a HashMap, whose iteration order is random: the     *)
(* order of entries of one severity is a free choice.  A source is the     *)
(* sequence, in document order, of the claims its numeric overstatements   *)
(* (" by 40%") stand in; nothing else of it is ever edited.  A finding's   *)
(* reviewer, location and category are its key, and the category fixes the *)
(* operation; texts, claims, confidence and evidence are left out (those   *)
(* of duplicates are merged, and reach no instruction and no record).      *)
(***************************************************************************)
EXTENDS Naturals, Sequences, FiniteSets, Functions

CONSTANTS Ids,          \* finding ids, as the reviewers' models make them up
          Keys,         \* reviewer, location and category of a finding
          Weakens,      \* the keys whose category is answered by weakening
          Claims,       \* the claims of the document
          Severities,   \* the severities that occur, of those in Rank
          HumanForMajor, \* config.judge.require_human_approval_for_major
          ApproveAll,   \* the --approve-all flag
          MaxFindings,  \* bound: findings of one review
          Sources       \* the documents

Ranks == [critical |-> 4, major |-> 3, moderate |-> 2, minor |-> 1]

ASSUME DecisionsAssumption ==
    /\ Weakens \subseteq Keys
    /\ Severities \subseteq DOMAIN Ranks
    /\ HumanForMajor \in BOOLEAN /\ ApproveAll \in BOOLEAN
    /\ MaxFindings \in Nat
    /\ Sources \subseteq Seq(Claims)

VARIABLES phase,     \* "merge", "revise", "done"
          findings,  \* what collect_findings returned
          taken,     \* how many of them the Judge has merged
          merged,    \* the merged findings
          revisions, \* the instructions; the k-th is REV-00k
          records,   \* judge_results in the run record, one per instruction
          turn,      \* the instruction the pipeline is at
          awaiting,  \* the instructions left to a human's approval
          applied,   \* those applied
          rejected,  \* those the engine returned without a change
          original,  \* the source the review started from
          source,    \* the source as revised so far
          edits      \* the edits: which instruction changed which claim

vars == <<phase, findings, taken, merged, revisions, records, turn, awaiting, applied,
          rejected, original, source, edits>>
revisionVars == <<turn, awaiting, applied, rejected, source, edits>>

Entries == [id : Ids, key : Keys, severity : Severities, human : BOOLEAN]

(* finding_from_payload: critical and major findings need a human.         *)
Findings == {f \in Entries : f.severity \in {"critical", "major"} => f.human}

Rank(f) == Ranks[f.severity]

RequiresHuman(f) ==
    f.human \/ f.severity = "critical" \/ (f.severity = "major" /\ HumanForMajor)

-----------------------------------------------------------------------------
Init ==
    /\ phase = "merge"
    /\ \E n \in 0..MaxFindings : findings \in [1..n -> Findings]
    /\ taken = 0
    /\ merged = << >>
    /\ revisions = << >>
    /\ records = << >>
    /\ turn = 1
    /\ awaiting = {} /\ applied = {} /\ rejected = {}
    /\ original \in Sources
    /\ source = original
    /\ edits = {}

(* Mutant: a duplicate does not raise the severity.                        *)
AbsorbKeepsSeverity(e, f) == e

(* Mutant: a duplicate gives the entry its severity, a lower one too.      *)
AbsorbLast(e, f) == [e EXCEPT !.severity = f.severity]

(* A duplicate raises the severity; its own flag is dropped.               *)
Absorb(e, f) == [e EXCEPT !.severity = IF Rank(f) > Rank(e) THEN f.severity ELSE @]

(* Judge::consolidate, one finding of its first loop.                      *)
Merge ==
    /\ phase = "merge" /\ taken < Len(findings)
    /\ LET f == findings[taken + 1]
           known == \E k \in DOMAIN merged : merged[k].key = f.key
       IN  merged' = IF known
                       THEN [k \in DOMAIN merged |-> IF merged[k].key = f.key
                                                       THEN Absorb(merged[k], f)
                                                       ELSE merged[k]]
                       ELSE Append(merged, f)
    /\ taken' = taken + 1
    /\ UNCHANGED <<phase, findings, revisions, records, original, revisionVars>>

(* The orders sort_by_key can produce from the order of the map: most      *)
(* severe first.                                                           *)
Orders == {o \in Bijection(DOMAIN merged, DOMAIN merged) :
              \A j, k \in DOMAIN merged : j < k => Rank(merged[o[j]]) >= Rank(merged[o[k]])}

(* The pipeline finds the instruction of an entry by the finding's id: the *)
(* first that has it.                                                      *)
LinkedRevision(rs, k) ==
    CHOOSE j \in DOMAIN rs : /\ rs[j].id = rs[k].id
                             /\ \A i \in DOMAIN rs : rs[i].id = rs[k].id => j <= i

(* Mutant: the record has the reviewer's flag, not the Judge's decision.   *)
JudgeAllFlagOnly ==
    /\ phase = "merge" /\ taken = Len(findings)
    /\ \E o \in Orders : revisions' = [k \in DOMAIN merged |-> merged[o[k]]]
    /\ records' = [k \in DOMAIN merged |->
                      [id |-> revisions'[k].id,
                       human |-> revisions'[k].human,
                       revision |-> LinkedRevision(revisions', k)]]
    /\ phase' = "revise"
    /\ UNCHANGED <<findings, taken, merged, original, revisionVars>>

(* The rest of consolidate, and the judge stage of the pipeline.           *)
JudgeAll ==
    /\ phase = "merge" /\ taken = Len(findings)
    /\ \E o \in Orders : revisions' = [k \in DOMAIN merged |-> merged[o[k]]]
    /\ records' = [k \in DOMAIN merged |->
                      [id |-> revisions'[k].id,
                       human |-> RequiresHuman(revisions'[k]),
                       revision |-> LinkedRevision(revisions', k)]]
    /\ phase' = "revise"
    /\ UNCHANGED <<findings, taken, merged, original, revisionVars>>

(* The pipeline leaves an instruction that needs a human.                  *)
Gated(k) == RequiresHuman(revisions[k]) /\ ~ApproveAll

AwaitApproval ==
    /\ phase = "revise" /\ turn <= Len(revisions)
    /\ Gated(turn)
    /\ awaiting' = awaiting \cup {turn}
    /\ turn' = turn + 1
    /\ UNCHANGED <<phase, findings, taken, merged, revisions, records, original, applied,
                   rejected, source, edits>>

(* RevisionEngine::apply: only weakening has a transformation, and it      *)
(* removes the first numeric overstatement of the source, wherever it is.  *)
Changes(k) == revisions[k].key \in Weakens /\ source # << >>

Apply ==
    /\ phase = "revise" /\ turn <= Len(revisions)
    /\ ~Gated(turn) /\ Changes(turn)
    /\ source' = Tail(source)
    /\ edits' = edits \cup {<<turn, Head(source)>>}
    /\ applied' = applied \cup {turn}
    /\ turn' = turn + 1
    /\ UNCHANGED <<phase, findings, taken, merged, revisions, records, original, awaiting,
                   rejected>>

(* Mutant: an instruction without a change counts as applied.              *)
RejectAsApplied ==
    /\ phase = "revise" /\ turn <= Len(revisions)
    /\ ~Gated(turn) /\ ~Changes(turn)
    /\ applied' = applied \cup {turn}
    /\ turn' = turn + 1
    /\ UNCHANGED <<phase, findings, taken, merged, revisions, records, original, awaiting,
                   rejected, source, edits>>

(* No safe change: the engine fails closed.                                *)
Reject ==
    /\ phase = "revise" /\ turn <= Len(revisions)
    /\ ~Gated(turn) /\ ~Changes(turn)
    /\ rejected' = rejected \cup {turn}
    /\ turn' = turn + 1
    /\ UNCHANGED <<phase, findings, taken, merged, revisions, records, original, awaiting,
                   applied, source, edits>>

(* The walk ends; the run goes on to validation and is recorded.           *)
Finish ==
    /\ phase = "revise" /\ turn > Len(revisions)
    /\ phase' = "done"
    /\ UNCHANGED <<findings, taken, merged, revisions, records, original, revisionVars>>

Next == Merge \/ JudgeAll \/ AwaitApproval \/ Apply \/ Reject \/ Finish

Spec == Init /\ [][Next]_vars

-----------------------------------------------------------------------------
(* Every variable stays in its range.                                      *)
TypeOK ==
    /\ phase \in {"merge", "revise", "done"}
    /\ findings \in Seq(Findings)
    /\ taken \in 0..Len(findings)
    /\ merged \in Seq(Entries) /\ revisions \in Seq(Entries)
    /\ records \in Seq([id : Ids, human : BOOLEAN, revision : 1..Len(revisions)])
    /\ turn \in 1..Len(revisions) + 1
    /\ awaiting \cup applied \cup rejected \subseteq 1..Len(revisions)
    /\ original \in Sources
    /\ source \in Seq(Claims)
    /\ edits \subseteq (1..Len(revisions)) \X Claims

(* Instruction k stands for finding i.                                     *)
StandsFor(k, i) == revisions[k].key = findings[i].key

(* Consolidation loses nothing and makes nothing up: every finding is      *)
(* stood for by exactly one instruction, at least as severe, and every     *)
(* instruction is as severe as one of the findings it stands for           *)
(* (architecture.md: "it merges duplicates (keeping the higher severity)").*)
NothingLost ==
    phase # "merge" =>
        /\ \A i \in DOMAIN findings :
              \E k \in DOMAIN revisions :
                  /\ \A j \in DOMAIN revisions : StandsFor(j, i) <=> j = k
                  /\ Rank(revisions[k]) >= Rank(findings[i])
        /\ \A k \in DOMAIN revisions :
              \E i \in DOMAIN findings :
                  StandsFor(k, i) /\ revisions[k].severity = findings[i].severity

(* Nothing a reviewer found critical, or major where the configuration     *)
(* asks for a human, leads to an edit without one, whatever it is merged   *)
(* with and in whatever order (README.md: "Paper Guard does not silently   *)
(* apply major revisions").                                                *)
NoSilentMajorRevision ==
    \A i \in DOMAIN findings, k \in applied :
        StandsFor(k, i) /\ ~ApproveAll
            => /\ findings[i].severity # "critical"
               /\ findings[i].severity = "major" => ~HumanForMajor

(* At the end every instruction is settled in exactly one way, and those   *)
(* applied are those that made an edit and account for all that is missing *)
(* from the source: the engine claims no success without a change.         *)
EveryInstructionSettled ==
    phase = "done" =>
        /\ awaiting \cup applied \cup rejected = DOMAIN revisions
        /\ awaiting \cap applied = {} /\ awaiting \cap rejected = {} /\ applied \cap rejected = {}
        /\ applied = {e[1] : e \in edits}
        /\ Len(source) + Cardinality(applied) = Len(original)

=============================================================================
