--------------------------- MODULE MCReviewReport ----------------------------
(* Every review with up to three findings of two reviewers, as the replies *)
(* name them and as they do not, over documents with overstatements in a   *)
(* long paragraph, in one whose every four words reach into it, in a short *)
(* one, in a heading and in the bibliography, and with paragraphs that     *)
(* begin with a leftover command or a percent sign or have a command or a  *)
(* formula further on.                                                     *)
EXTENDS ReviewReport, FindingSchema, TLC

Paper(title, abstract, headings, paragraphs, bibliography) ==
    [title |-> title, abstract |-> abstract, headings |-> headings, paragraphs |-> paragraphs,
     bibliography |-> bibliography]

SomeDocuments ==
    {Paper(<<"a">>, << >>, <<<<"b">>, << >>, << >>>>,
           <<<<"the", "cost", "drops", "C1">>, <<"it", "cuts", "the", "latency", "C2", "here">>,
             <<"\\a", "b">>>>, << >>),
     Paper(<<"a">>, << >>, <<<<"saves", "C1">>, << >>, << >>, << >>>>,
           <<<<"saved", "C2">>, <<"%", "of">>, <<"so", "$x$">>,
             <<"we", "bound", "it", "now", "from", "\\a", "b">>>>,
           <<<<"a", "study", "C3">>>>)}

SomeReread == ("\\a" :> << >>) @@ ("$x$" :> <<"math">>)
SomeStructural == {"\\a"}
SomeLettered == {"b", "by", "so"}

AllSources == {Overstatements(Text(d)) : d \in SomeDocuments}

(* Replies of one or two items, of words in the schema and not; each       *)
(* reviewer name comes with one category.                                  *)
Words == {<<"scientific", "overclaiming">>, <<"figures", "weak_evidence">>, <<"Reviewer 3", "too bold">>}
Items(ids) ==
    {Payload(id, w[1], "section_1", w[2], severity, 140, text, human) :
        id \in ids, w \in Words, severity \in {"critical", "major", "minor", "severe"},
        text \in {"", "a problem"}, human \in BOOLEAN} \cup {Misfit}
ArrayReplies(ids) == {[json |-> "array", value |-> <<i>>] : i \in Items(ids)}
ObjectReplies(ids) == {[json |-> "object", value |-> i] : i \in Items(ids)}
OtherReplies == {[json |-> "string", value |-> "ok"], [json |-> "none", value |-> ""]}

Resolved(replies) ==
    UNION {Range(ResolveFindings(r).findings) : r \in {r \in replies : ResolveFindings(r) # Refused}}

SomeIds == {"PG-1", "PG-2"}
AllFindings == Resolved(ArrayReplies(SomeIds \cup {""}))
SomeKeys == {FindingKey(f) : f \in AllFindings}
Weakening == {k \in SomeKeys : DefaultOperation(k.category) = "weaken_claim"}
ReplyNames == [k \in SomeKeys |-> k.reviewer]
SomeKinds == <<"scientific", "figures">>

(* The findings ReviewDecisions starts from are those that replies lead    *)
(* to, and a reply with one bad item, or that is no finding at all, leads  *)
(* to none.                                                                *)
ASSUME RepliesAssumption ==
    /\ {[id |-> f.id, key |-> FindingKey(f), severity |-> f.severity, human |-> f.human] :
           f \in AllFindings} = Findings
    /\ Resolved(ObjectReplies(SomeIds \cup {""})) = AllFindings
    /\ \A r \in OtherReplies : ResolveFindings(r) = Refused
    /\ \A f \in AllFindings : Valid(f)
    /\ \A i, j \in Items({"PG-1", ""}) :
          ResolveFindings([json |-> "array", value |-> <<i, j>>]) = Refused
              <=> \/ ResolveFindings([json |-> "array", value |-> <<i>>]) = Refused
                  \/ ResolveFindings([json |-> "array", value |-> <<j>>]) = Refused

(* The engine's answer to an instruction is the one ReviewDecisions gives: *)
(* for every category, left to a human or refused or applied.  Only the    *)
(* instruction for prompt injection is outside of what it allows itself.   *)
ASSUME EngineAssumption ==
    /\ \A category \in Categories, human, granted, overstated \in BOOLEAN :
          EngineApplies(MakeRevision(category, human), granted, overstated)
              <=> /\ ~(human /\ ~granted)
                  /\ DefaultOperation(category) = "weaken_claim" /\ overstated
    /\ {category \in Categories :
           ~Permits(MakeRevision(category, TRUE), DefaultOperation(category))}
         = {"prompt_injection"}
=============================================================================
