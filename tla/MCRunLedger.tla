---------------------------- MODULE MCRunLedger ----------------------------
(* Instances of RunLedger: two uploads under one file name, the usual      *)
(* main.tex, and a review of the command line or another upload.           *)
EXTENDS LedgerViews

CONSTANTS r1, r2, r3

TwoReviews == {r1, r2}
ThreeReviews == {r1, r2, r3}
SameName == [r \in TwoReviews |-> "main.tex"]
OwnNames == [r \in TwoReviews |-> IF r = r1 THEN "main.tex" ELSE "paper.tex"]
UploadsAlike == Permutations(TwoReviews)
TwoFiles == <<"findings.json", "paper.json">>
=============================================================================
