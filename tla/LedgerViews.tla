---------------------------- MODULE LedgerViews -----------------------------
(***************************************************************************)
(* What is read back from the data directory while reviews of RunLedger    *)
(* write it: the dashboard, report and summary of the web interface        *)
(* (paper-guard-gui), the GETs of the service and the commands ledger,     *)
(* report, judge, revise, validate and findings.  Each lists the run files *)
(* in the order of their names or is given a run id, and then reads one    *)
(* file after the other.                                                   *)
(***************************************************************************)
EXTENDS RunLedger, Sequencing, SequencesExt

CONSTANTS DASHBOARD_ROWS, \* the runs the dashboard shows
          BASE, WIDEST,   \* ids up to WIDEST are padded to one length, those
                          \* above have one digit in BASE more
          MAX_BUSY        \* bound: reviews in progress while a view is open

ASSUME LedgerViewsAssumption ==
    /\ DASHBOARD_ROWS \in Nat \ {0} /\ BASE \in Nat \ {0} /\ WIDEST \in Nat \ {0}
    /\ MaxRunId < WIDEST * BASE /\ MAX_BUSY \in Nat
    /\ {"findings.json", "paper.json"} \subseteq ArtifactNames

VARIABLES view,  \* the kind of view, the files it has still to read and
                 \* what it has read of which run, or shows
          since  \* history: reviews answered when it was opened

viewVars == <<view, since>>

NoView == [kind |-> "none", stage |-> "none", todo |-> << >>, rows |-> << >>]

(* The alphabetical order of run-%03d: a longer id comes after its prefix, *)
(* not after every shorter one.                                            *)
Leading(n) == IF n > WIDEST THEN n \div BASE ELSE n
Before(m, n) == Leading(m) < Leading(n) \/ (Leading(m) = Leading(n) /\ m < n)

Alphabetical == {p \in RunIds \X RunIds : Before(p[1], p[2])}

RunNames == Ranked([n \in 1..MaxRunId |-> n], Alphabetical)

RunList == Sift(RunNames, {n \in RunIds : Listed(n)})

(* The run a command without an id is about, "run-001" if there is none.   *)
Latest == IF RunList = << >> THEN 1 ELSE Last(RunList)

Readable(c) == c \notin {Missing, Torn}

ViewInit == Init /\ view = NoView /\ since = {}

-----------------------------------------------------------------------------
Show(rows) == view' = [view EXCEPT !.stage = "shown", !.todo = << >>, !.rows = rows]
Refuse == view' = [view EXCEPT !.stage = "error", !.todo = << >>, !.rows = << >>]

NotBusy == Cardinality(InProgress) <= MAX_BUSY

(* One view at a time; views change nothing, so that more of them see no   *)
(* more.  Before the first answer none shows a review.                     *)
OpenView(kind, stage, runs, rows) ==
    /\ view = NoView
    /\ Answered # {} /\ NotBusy
    /\ view' = [kind |-> kind, stage |-> stage, todo |-> runs, rows |-> rows]
    /\ since' = Answered
    /\ UNCHANGED vars

(* load_run of a run that was given: nothing is read before it.            *)
OpenRun(kind, stage, n) ==
    LET c == disk[RunFile(n)]
    IN IF Readable(c) THEN OpenView(kind, stage, <<n>>, <<[run |-> n, of |-> c]>>)
       ELSE OpenView(kind, "error", << >>, << >>)

Open ==
    \/ OpenView("dashboard", "list", RunList, << >>)
    \/ \E n \in RunIds : OpenRun("report", "paper", n) \/ OpenRun("client", "again", n)
    \/ OpenView("latest", "record", <<Latest>>, << >>)
    \/ RunList # << >> /\ OpenView("findings", "findings", <<Latest>>, << >>)

(* `feedback`, here or over the service: a person decides on a finding of  *)
(* a run by its id, and the finding is looked up once more in the record.  *)
(* judge, revise and validate read the record of a run in the same way.    *)
GiveFeedback == \E n \in RunIds : OpenRun("feedback", "shown", n)

Run == Head(view.todo)
Row(c) == [run |-> Run, of |-> c]

(* Mutant: the first run that cannot be read ends the list.                *)
LoadRowOrStop ==
    /\ view.stage = "list" /\ view.todo # << >>
    /\ LET c == disk[RunFile(Run)]
       IN IF Readable(c) THEN view' = [view EXCEPT !.todo = Tail(@), !.rows = Append(@, Row(c))]
          ELSE view' = [view EXCEPT !.todo = << >>]
    /\ UNCHANGED <<vars, since>>

(* gui_dashboard and `paper-guard ledger': a record that cannot be read is *)
(* left out.                                                               *)
LoadRow ==
    /\ view.stage = "list" /\ view.todo # << >>
    /\ LET c == disk[RunFile(Run)]
       IN view' = [view EXCEPT !.todo = Tail(@),
                               !.rows = IF Readable(c) THEN Append(@, Row(c)) ELSE @]
    /\ UNCHANGED <<vars, since>>

ShowDashboard ==
    /\ view.stage = "list" /\ view.todo = << >>
    /\ Show(LET newest == Reverse(view.rows)
            IN SubSeq(newest, 1, Min({DASHBOARD_ROWS, Len(newest)})))
    /\ UNCHANGED <<vars, since>>

(* load_run after the directory, or another file, was read.                *)
LoadRecord ==
    /\ view.stage = "record"
    /\ LET c == disk[RunFile(Run)]
       IN IF Readable(c) THEN Show(<<Row(c)>>) ELSE Refuse
    /\ UNCHANGED <<vars, since>>

(* run_remote_review gets the status of its run and then the findings.     *)
LoadRecordAgain ==
    /\ view.stage = "again"
    /\ LET c == disk[RunFile(Run)]
       IN IF Readable(c) THEN Show(Append(view.rows, Row(c))) ELSE Refuse
    /\ UNCHANGED <<vars, since>>

(* gui_report takes the name of the paper from another file of the run; if *)
(* that cannot be read the format stands for it.                           *)
LoadPaper ==
    /\ view.stage = "paper"
    /\ LET c == disk[Artifact(Run, "paper.json")]
       IN Show(view.rows \o IF Readable(c) THEN <<Row(c)>> ELSE << >>)
    /\ UNCHANGED <<vars, since>>

(* list_findings parses findings.json as another type than the one that is *)
(* written: it shows what is in the record if there is no such file, and   *)
(* otherwise nothing but an error as soon as there is a finding.           *)
LoadFindings ==
    /\ view.stage = "findings"
    /\ IF disk[Artifact(Run, "findings.json")] = Missing
       THEN view' = [view EXCEPT !.stage = "record"]
       ELSE Refuse
    /\ UNCHANGED <<vars, since>>

CloseView ==
    /\ view.stage \in {"shown", "error"}
    /\ view' = NoView /\ since' = {}
    /\ UNCHANGED vars

Views ==
    \/ Open \/ GiveFeedback \/ CloseView \/ LoadRow \/ ShowDashboard
    \/ LoadRecord \/ LoadRecordAgain \/ LoadPaper \/ LoadFindings

ViewNext ==
    \/ /\ Next
       /\ view.stage \notin {"shown", "error"}  \* what is shown does not change
       /\ view # NoView => NotBusy'
       /\ UNCHANGED viewVars
    \/ Views

ViewSpec == ViewInit /\ [][ViewNext]_<<vars, viewVars>>

-----------------------------------------------------------------------------
(* What q's run looks like in the open view, if q was answered before.     *)
Shown(q) ==
    view.stage \in {"shown", "error"} /\ q \in since =>
        CASE view.kind = "dashboard" ->
                \/ [run |-> id[q], of |-> q] \in Range(view.rows)
                \/ /\ Len(view.rows) = DASHBOARD_ROWS
                   /\ \A n \in DOMAIN view.rows : Before(id[q], view.rows[n].run)
          [] OTHER ->
                /\ \A n \in DOMAIN view.rows : view.rows[n].run = id[q] => view.rows[n].of = q
                /\ view.kind = "latest" => \A n \in DOMAIN view.rows : ~Before(view.rows[n].run, id[q])

(* An answered review whose id no overlapping review also chose is         *)
(* recorded, and stays recorded: artifacts left under that id by a review  *)
(* that failed are replaced, all of them, and no later review or failure   *)
(* touches any.  The dashboard shows it, or ten runs listed after it,      *)
(* whatever cannot be read meanwhile, and a report opened since is of its  *)
(* own record and paper.                                                   *)
RecordedUnlessShared ==
    \A q \in Answered : (\A r \in peers[q] : id[r] # id[q]) => Recorded(q) /\ Shown(q)
=============================================================================
