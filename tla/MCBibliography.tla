--------------------------- MODULE MCBibliography ---------------------------
(* Two papers that cite the same article in different words: one by its    *)
(* journal, the other by another one, and a preprint by its arXiv id.      *)
EXTENDS Bibliography, TLC

CONSTANTS r1, r2

Ref(id, title, venue) ==
    [id |-> id, title |-> title, authors |-> << <<"van", "Dyck", ",", "J.">> >>, year |-> "2020",
     venue |-> venue]
Entry(id, title, year, doi, journal) ==
    [id |-> id, title |-> title, authors |-> << <<"John", "van", "Dyck">>, <<"Ann", "Doe">> >>,
     year |-> year, doi |-> doi, journal_ref |-> journal]

Craters == Ref("dyck2020", <<"Lunar", "craters">>, <<"Icarus">>)
CratersElsewhere == Ref("dyck20b", <<"Lunar", "craters">>, <<"Nature">>)
BasinsById == Ref("preprint", <<"Lunar", "basins">>, <<"arXiv:2001.00001v1", "10.1/a">>)

MCPlain == [w \in {"Lunar", "craters", "revisited", "of", "Mars", "basins", "Icarus", "Nature",
                   "10.1/a", "arXiv:2001.00001v1", "van", "Dyck", "J.", "John", "Ann", "Doe", ","} |->
               CASE w = "Lunar" -> "lunar"   [] w = "Mars" -> "mars"
                 [] w = "Dyck" -> "dyck"     [] w = "John" -> "john"
                 [] w = "J." -> "j"          [] w = "," -> ""
                 [] w = "arXiv:2001.00001v1" -> "arxiv200100001v1"
                 [] OTHER -> w]
MCArxivIdOf == ("arXiv:2001.00001v1" :> "2001.00001") @@ ("abs/2001.00001v2" :> "2001.00001")
                 @@ ("abs/1900.00009" :> "1900.00009")
MCDoiOf == "10.1/a" :> "10.1/a"
(* One word within another only in a preprint's venue.                     *)
MCWithin(v, w) ==
    \/ v = <<"arxiv">> /\ "arxiv200100001v1" \in ToSet(w)
    \/ v # Nothing /\ \E i \in 1..Len(w) : IsPrefix(v, SubSeq(w, i, Len(w)))

Good(body) == [status |-> 200, size |-> Len(body), body |-> body]

(* The article is found next to another one that is better known; or only  *)
(* two later ones are, one of which shares most of the title; what arXiv   *)
(* has under the id the preprint's authors have since renamed.             *)
MCResponses ==
    LET article == Entry("abs/1900.00009", <<"Lunar", "craters">>, "2020", "10.1/a", <<"Icarus">>)
        later == Entry("abs/2001.00001v2", <<"Lunar", "craters", "revisited">>, "2021", None, Nothing)
        other == Entry("abs/2001.00001v2", <<"Lunar", "craters", "of", "Mars">>, "2020", None, Nothing)
    IN  (<<"title", <<"lunar", "craters">> >> :>
             {Good(<<other, article>>), Good(<<[article EXCEPT !.id = None], other, later>>),
              Good(<<article, article, article, article>>)})
        @@ (<<"id_list", "2001.00001">> :>
             {Good(<<later>>), [Good(<<later>>) EXCEPT !.status = 503]})

(* The answers are rows, and only the article under its own journal can be *)
(* confirmed.  A title and an author of the same words make the same query.*)
ASSUME /\ LET Bare(title, authors) ==
                  [id |-> "bare", title |-> title, authors |-> authors, year |-> None, venue |-> Nothing]
              Described(ref) == QueryDescription(FromReference(ref))
          IN  /\ Described(Bare(<<"Doe">>, << >>)) = Described(Bare(Nothing, << <<"Doe">> >>))
              /\ Described(Bare(Nothing, << >>)) = << <<"bare">> >>
       /\ Surnames(Craters.authors) = {<<"van", "dyck">>}
       /\ Query(Craters) = Query(CratersElsewhere)
       /\ AllAnswers \in [{"arxiv", "google_scholar"} \X Cited -> SUBSET Rows]
       /\ Confirmable \in [Cited -> BOOLEAN]
       /\ \A ref \in Cited : Confirmed(ref) <=> ref = Craters

MCSizeOf == [s \in Statuses \cup {"torn"} |->
                CASE s \in {"NotFound", "torn"} -> 1
                  [] s = "ConflictingMetadata"  -> 3
                  [] OTHER                      -> 2]
MCSources == <<"arxiv", "google_scholar">>
MCCited == {Craters, CratersElsewhere, BasinsById}
MCPapers == [r \in {r1, r2} |-> IF r = r1 THEN <<Craters>>
                                ELSE <<CratersElsewhere, BasinsById>>]
MCFileRank == LET names == SetToSeq(Keys)
              IN [k \in Keys |-> CHOOSE i \in DOMAIN names : names[i] = k]
=============================================================================
