-------------------------- MODULE MCReviewPipeline ---------------------------
(* The instance of ReviewPipeline: a root, two files it may include in any *)
(* order and shape, one that cannot be read and one outside the root, under *)
(* the default configuration, one that asks everybody, and some between,   *)
(* and inspected and verified only.                                        *)
EXTENDS ReviewPipeline

CONSTANTS main, sec, app, locked, secret

AllFiles == {main, sec, app, locked, secret}
InRoot == {main, sec, app, locked}

smith == "smith"
jones == "jones"

Line(k) == [kind |-> k, to |-> Nowhere, keys |-> << >>, claim |-> 0, ascii |-> TRUE]
Input(f) == [Line("include") EXCEPT !.to = f]
CitingLine(k, keys) == [Line(k) EXCEPT !.keys = keys]
ClaimLine(n) == [Line("prose") EXCEPT !.claim = n]
Umlaut == [Line("prose") EXCEPT !.ascii = FALSE]

Heads == {<<Line("section"), ClaimLine(2), ClaimLine(1)>>, <<CitingLine("prose", <<smith>>), CitingLine("comment", <<jones>>)>>,
          <<Line("abstract"), Line("comment"), Line("prose"), Line("float"), Umlaut>>}
RootTexts ==
    {h \o <<Input(f)>> \o <<CitingLine("prose", <<smith, jones>>), Line("section"), Line("prose"), Input(g),
             CitingLine("bibliography", <<jones, NoKey>>)>> :
        h \in Heads, f \in {sec, app, Figure, secret}, g \in {sec, app, Nowhere, locked}}
    \cup {h \o <<Line("blank"), Line("comment"), Line("blank"), Line("command"), ClaimLine(1), Umlaut>> : h \in Heads}
    \cup {<<Line("comment"), Line("blank")>>}

SectionTexts == {<<CitingLine("prose", <<jones>>), Input(g), Line("prose"), Input(h)>> : g \in {app, main}, h \in {app, sec, Nowhere}}
AppendixTexts == {<<Line("section"), Line("prose"), CitingLine("bibliography", <<smith, jones>>), CitingLine("bibliography", <<smith>>), Line("float")>>,
                  <<ClaimLine(1), Input(sec)>>}

SomeProjects ==
    {[f \in AllFiles |-> CASE f = main -> r [] f = sec -> s [] f = app -> a [] OTHER -> <<Line("prose")>>] :
        r \in RootTexts, s \in SectionTexts, a \in AppendixTexts}

SomePdfs == {<<"text", "scan", "text">>, <<"scan", "scan">>, <<"text", "broken", "text">>, << >>}

Default ==
    [command |-> "review", bibliography |-> [enabled |-> FALSE, provider |-> "arxiv", arxiv |-> TRUE], llm |-> "mock",
     memory |-> [enabled |-> FALSE, mode |-> "off", backend |-> "none", embedding |-> "mock"],
     reviewers |-> {"evidence", "figures"}]
SomeConfigs ==
    {Default,
     [Default EXCEPT !.bibliography.enabled = TRUE, !.llm = "openai-compatible", !.reviewers = {"evidence"},
        !.memory = [enabled |-> TRUE, mode |-> "read_write", backend |-> "qdrant", embedding |-> "openai-compatible"]],
     [Default EXCEPT !.bibliography.provider = "other", !.bibliography.enabled = TRUE, !.llm = "other",
        !.memory = [enabled |-> TRUE, mode |-> "read_only", backend |-> "file", embedding |-> "openai-compatible"]],
     [Default EXCEPT !.bibliography.provider = "mock", !.bibliography.enabled = TRUE,
        !.memory = [enabled |-> TRUE, mode |-> "read_only", backend |-> "file", embedding |-> "openai-compatible"]],
     [Default EXCEPT !.llm = "openai-compatible",
        !.memory = [enabled |-> TRUE, mode |-> "write", backend |-> "qdrant", embedding |-> "mock"]],
     [Default EXCEPT !.command = "inspect", !.bibliography.enabled = TRUE],
     [Default EXCEPT !.command = "bibliography", !.llm = "openai-compatible"],
     [Default EXCEPT !.command = "bibliography", !.llm = "openai-compatible", !.bibliography.enabled = TRUE]}
=============================================================================
