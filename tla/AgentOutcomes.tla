--------------------------- MODULE AgentOutcomes ---------------------------
(***************************************************************************)
(* What a review promises about its agents, whatever the scheduling: the   *)
(* results are reported in the order of the reviewer list, one per         *)
(* reviewer, each under that reviewer's own name and with a status that    *)
(* reviewer can have.  Reporting may stop early when the caller goes away; *)
(* what has been reported is never taken back.                             *)
(* ReviewRunner implements this specification.                             *)
(***************************************************************************)
EXTENDS Naturals, Sequences

CONSTANTS N,        \* the number of reviewers
          Agent,    \* Agent[k]: the kind of the k-th reviewer
          Enabled   \* Enabled[k]: its settings().enabled

VARIABLE reported

Statuses(k) == IF Enabled[k] THEN {"success", "failed"} ELSE {"disabled"}

Init == reported = << >>

ReportNext ==
    /\ Len(reported) < N
    /\ \E st \in Statuses(Len(reported) + 1) :
          reported' = Append(reported, [agent  |-> Agent[Len(reported) + 1],
                                        status |-> st])

Next == ReportNext

Spec == Init /\ [][Next]_reported
=============================================================================
