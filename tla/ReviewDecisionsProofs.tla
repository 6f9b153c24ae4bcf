----------------------- MODULE ReviewDecisionsProofs -----------------------
(***************************************************************************)
(* Proofs about ReviewDecisions and ReviewReport, for reviews and documents*)
(* of any size: consolidation loses no finding, nothing critical or major  *)
(* is revised without a human, the walk settles every instruction in one   *)
(* way, the report shows all of it, and validation raises no false alarm.  *)
(*                                                                         *)
(* The argument: while the Judge merges, each finding it has taken is      *)
(* stood for by one merged finding at least as severe, keys are distinct,  *)
(* and each severity is a taken finding's; sorting only permutes them; and *)
(* only instructions that need no human are ever applied (IInv).  The walk *)
(* settles the instructions before its turn and no other, and each edit    *)
(* shortens the source by its claim (Settled).  Every instruction stems    *)
(* from a finding, so that where ids tell keys the first with its id is    *)
(* the instruction itself (Traced).                                        *)
(*                                                                         *)
(* Validation: take the words of a paragraph in a row that reach into      *)
(* nothing removed.  Whatever is removed elsewhere, they are in a row in   *)
(* what is left (Windows, by the least word for which it fails).  If none  *)
(* of them has markup, nor the word before, they are also in a row in what *)
(* is read again (CleanedKeeps), and a paragraph that begins with no       *)
(* command and no comment is read again as one (RereadHas).                *)
(***************************************************************************)
EXTENDS ReviewReport, SequencingProofs, FiniteSetTheorems, TLAPS

(* es stands for the first n findings: one entry for each, as severe, and  *)
(* every entry as severe as one that it stands for.                        *)
Covers(es, n) ==
    /\ \A j, k \in DOMAIN es : es[j].key = es[k].key => j = k
    /\ \A i \in 1..n : \E k \in DOMAIN es :
          es[k].key = findings[i].key /\ Rank(es[k]) >= Rank(findings[i])
    /\ \A k \in DOMAIN es : \E i \in 1..n :
          es[k].key = findings[i].key /\ es[k].severity = findings[i].severity

(* What of the types the argument needs.                                   *)
Typed ==
    /\ phase \in {"merge", "revise", "done", "validated", "reported"}
    /\ findings \in Seq(Entries) /\ merged \in Seq(Entries) /\ revisions \in Seq(Entries)
    /\ taken \in 0..Len(findings)
    /\ turn \in Nat \ {0}

IInv ==
    /\ Typed
    /\ phase = "merge" => Covers(merged, taken) /\ applied = {}
    /\ phase # "merge" => Covers(revisions, Len(findings))
    /\ applied \subseteq DOMAIN revisions
    /\ \A k \in applied : ~Gated(k)

LEMMA InitIInv == Init => IInv
  <1> SUFFICES ASSUME Init PROVE IInv
    OBVIOUS
  <1>1. findings \in Seq(Entries)
    <2>1. PICK n \in 0..MaxFindings : findings \in [1..n -> Findings]
      BY DEF Init
    <2>2. Findings \subseteq Entries /\ n \in Nat
      BY DecisionsAssumption DEF Findings
    <2> HIDE DEF Entries, Findings
    <2> QED
      BY <2>1, <2>2
  <1>2. Covers(merged, taken)
    BY DEF Init, Covers
  <1> QED
    BY <1>1, <1>2 DEF Init, IInv, Typed

(* A duplicate leaves the entry as severe as it was or as itself, whichever*)
(* is more.                                                                *)
LEMMA AbsorbKeeps ==
    ASSUME NEW e \in Entries, NEW f \in Entries
    PROVE  /\ Absorb(e, f) \in Entries
           /\ Absorb(e, f).key = e.key
           /\ Rank(Absorb(e, f)) >= Rank(e) /\ Rank(Absorb(e, f)) >= Rank(f)
           /\ Absorb(e, f).severity \in {e.severity, f.severity}
  <1>1. Rank(e) \in Nat /\ Rank(f) \in Nat
    BY DecisionsAssumption DEF Entries, Rank, Ranks
  <1>2. Absorb(e, f) \in Entries /\ Absorb(e, f).key = e.key
    BY DEF Absorb, Entries
  <1>3. Absorb(e, f).severity = IF Rank(f) > Rank(e) THEN f.severity ELSE e.severity
    BY DEF Absorb, Entries
  <1>4. Rank(Absorb(e, f)) >= Rank(e) /\ Rank(Absorb(e, f)) >= Rank(f)
    BY <1>1, <1>3 DEF Rank
  <1> QED
    BY <1>2, <1>3, <1>4

LEMMA MergeStep == IInv /\ Merge => IInv'
  <1> SUFFICES ASSUME IInv, Merge PROVE IInv'
    OBVIOUS
  <1> DEFINE f == findings[taken + 1]
             known == \E k \in DOMAIN merged : merged[k].key = f.key
  <1>1. /\ phase = "merge" /\ taken < Len(findings)
        /\ merged' = IF known THEN [k \in DOMAIN merged |-> IF merged[k].key = f.key
                                                             THEN Absorb(merged[k], f)
                                                             ELSE merged[k]]
                              ELSE Append(merged, f)
        /\ taken' = taken + 1
        /\ UNCHANGED <<phase, findings, revisions, applied, turn>>
    BY DEF Merge, revisionVars
  <1>2. f \in Entries /\ taken' \in 0..Len(findings) /\ taken \in Nat
    BY <1>1 DEF IInv, Typed
  <1>3. Covers(merged, taken) /\ applied = {}
    BY <1>1 DEF IInv
  <1>4. \A k \in DOMAIN merged : merged[k] \in Entries
    BY DEF IInv, Typed
  <1>5. merged' \in Seq(Entries) /\ Covers(merged, taken)'
    <2>1. CASE known
      <3>1. /\ DOMAIN merged' = DOMAIN merged
            /\ \A k \in DOMAIN merged :
                  merged'[k] = IF merged[k].key = f.key THEN Absorb(merged[k], f) ELSE merged[k]
        BY <1>1, <2>1
      <3>2. ASSUME NEW k \in DOMAIN merged
            PROVE  /\ merged'[k] \in Entries
                   /\ merged'[k].key = merged[k].key
                   /\ Rank(merged'[k]) >= Rank(merged[k])
                   /\ merged[k].key = f.key => Rank(merged'[k]) >= Rank(f)
                   /\ \/ merged'[k].severity = merged[k].severity
                      \/ merged[k].key = f.key /\ merged'[k].severity = f.severity
        <4>1. Rank(merged[k]) \in Nat
          BY <1>4, DecisionsAssumption DEF Entries, Rank, Ranks
        <4> QED
          BY <3>1, <1>4, <1>2, <4>1, AbsorbKeeps
      <3>3. merged' \in Seq(Entries)
        <4>1. DOMAIN merged = 1..Len(merged) /\ Len(merged) \in Nat
          BY DEF IInv, Typed
        <4>2. merged' = [k \in DOMAIN merged |-> IF merged[k].key = f.key
                                                  THEN Absorb(merged[k], f)
                                                  ELSE merged[k]]
          BY <1>1, <2>1
        <4> HIDE DEF f, known
        <4>3. \A k \in DOMAIN merged : (IF merged[k].key = f.key THEN Absorb(merged[k], f)
                                                                ELSE merged[k]) \in Entries
          BY <3>1, <3>2
        <4>4. merged' \in [DOMAIN merged -> Entries]
          BY <4>2, <4>3
        <4> QED
          BY <4>1, <4>4
      <3>4. ASSUME NEW i \in 1..taken + 1
            PROVE  \E k \in DOMAIN merged' : /\ merged'[k].key = findings[i].key
                                             /\ Rank(merged'[k]) >= Rank(findings[i])
        <4>1. CASE i = taken + 1
          BY <4>1, <2>1, <3>1, <3>2
        <4>2. CASE i \in 1..taken
          <5>1. PICK k \in DOMAIN merged : /\ merged[k].key = findings[i].key
                                          /\ Rank(merged[k]) >= Rank(findings[i])
            BY <4>2, <1>3 DEF Covers
          <5>2. merged'[k] \in Entries /\ findings[i] \in Entries
            BY <3>2, <4>2, <1>1, <1>2 DEF IInv, Typed
          <5>3. /\ Rank(merged[k]) \in Nat /\ Rank(merged'[k]) \in Nat
                /\ Rank(findings[i]) \in Nat
            BY <1>4, <5>2, DecisionsAssumption DEF Entries, Rank, Ranks
          <5>4. Rank(merged'[k]) >= Rank(findings[i])
            BY <5>1, <5>3, <3>2
          <5> QED
            BY <5>1, <5>4, <3>1, <3>2
        <4> QED
          BY <1>2, <4>1, <4>2
      <3>5. \A j, k \in DOMAIN merged' : merged'[j].key = merged'[k].key => j = k
        BY <1>3, <3>1, <3>2 DEF Covers
      <3>7. ASSUME NEW k \in DOMAIN merged'
            PROVE  \E i \in 1..taken + 1 : /\ merged'[k].key = findings[i].key
                                           /\ merged'[k].severity = findings[i].severity
        <4>1. PICK i \in 1..taken : /\ merged[k].key = findings[i].key
                                    /\ merged[k].severity = findings[i].severity
          BY <1>3, <3>1 DEF Covers
        <4>2. i \in 1..taken + 1 /\ taken + 1 \in 1..taken + 1
          BY <1>2
        <4> QED
          BY <3>1, <3>2, <4>1, <4>2
      <3> HIDE DEF f, known
      <3>6. Covers(merged, taken)'
        <4>1. taken' = taken + 1 /\ findings' = findings
          BY <1>1
        <4> QED
          BY ONLY <4>1, <3>4, <3>5, <3>7, SMTT(30) DEF Covers, Rank
      <3> QED
        BY <3>3, <3>6
    <2>2. CASE ~known
      <3>1. /\ merged' = Append(merged, f) /\ merged \in Seq(Entries)
            /\ \A k \in DOMAIN merged : merged[k].key # f.key
        BY <1>1, <2>2 DEF IInv, Typed
      <3> HIDE DEF f, known
      <3>2. /\ merged' \in Seq(Entries)
            /\ DOMAIN merged' = DOMAIN merged \cup {Len(merged) + 1}
            /\ Len(merged) + 1 \notin DOMAIN merged
            /\ merged'[Len(merged) + 1] = f
            /\ \A k \in DOMAIN merged : merged'[k] = merged[k]
        BY <3>1, <1>2
      <3>3. \A j, k \in DOMAIN merged' : merged'[j].key = merged'[k].key => j = k
        BY <3>1, <3>2, <1>3 DEF Covers
      <3>4. Rank(f) >= Rank(f)
        BY <1>2, DecisionsAssumption DEF Entries, Rank, Ranks
      <3>5. ASSUME NEW i \in 1..taken + 1
            PROVE  \E k \in DOMAIN merged' : /\ merged'[k].key = findings[i].key
                                             /\ Rank(merged'[k]) >= Rank(findings[i])
        <4>1. CASE i = taken + 1
          <5>1. f = findings[i]
            BY <4>1 DEF f
          <5> QED
            BY <5>1, <3>2, <3>4
        <4>2. CASE i \in 1..taken
          BY <4>2, <1>3, <3>2 DEF Covers
        <4> QED
          BY <1>2, <4>1, <4>2
      <3>7. ASSUME NEW k \in DOMAIN merged'
            PROVE  \E i \in 1..taken + 1 : /\ merged'[k].key = findings[i].key
                                           /\ merged'[k].severity = findings[i].severity
        <4>1. CASE k = Len(merged) + 1
          <5>1. f = findings[taken + 1] /\ taken + 1 \in 1..taken + 1
            BY <1>2 DEF f
          <5> QED
            BY <3>2, <4>1, <5>1
        <4>2. CASE k \in DOMAIN merged
          <5>1. PICK i \in 1..taken : /\ merged[k].key = findings[i].key
                                      /\ merged[k].severity = findings[i].severity
            BY <1>3, <4>2 DEF Covers
          <5>2. i \in 1..taken + 1
            BY <1>2
          <5> QED
            BY <3>2, <4>2, <5>1, <5>2
        <4> QED
          BY <3>2, <4>1, <4>2
      <3>6. Covers(merged, taken)'
        <4>1. taken' = taken + 1 /\ findings' = findings
          BY <1>1
        <4> QED
          BY ONLY <4>1, <3>3, <3>5, <3>7, SMTT(30) DEF Covers, Rank
      <3> QED
        BY <3>2, <3>6
    <2> QED
      BY <2>1, <2>2
  <1> QED
    BY <1>1, <1>2, <1>3, <1>5 DEF IInv, Typed

LEMMA JudgeStep == IInv /\ JudgeAll => IInv'
  <1> SUFFICES ASSUME IInv, JudgeAll PROVE IInv'
    OBVIOUS
  <1>1. /\ phase = "merge" /\ phase' = "revise" /\ taken = Len(findings)
        /\ UNCHANGED <<findings, taken, merged, applied, turn>>
    BY DEF JudgeAll, revisionVars
  <1>2. PICK o \in Bijection(DOMAIN merged, DOMAIN merged) :
           revisions' = [k \in DOMAIN merged |-> merged[o[k]]]
    BY DEF JudgeAll, Orders
  <1>3. /\ o \in [DOMAIN merged -> DOMAIN merged]
        /\ \A j, k \in DOMAIN merged : o[j] = o[k] => j = k
        /\ \A k \in DOMAIN merged : \E j \in DOMAIN merged : o[j] = k
    BY DEF Bijection, Injection, Surjection, IsInjective
  <1>4. Covers(merged, Len(findings)) /\ applied = {}
    BY <1>1 DEF IInv
  <1>5. /\ DOMAIN revisions' = DOMAIN merged
        /\ \A k \in DOMAIN merged : revisions'[k] = merged[o[k]]
    BY <1>2
  <1>6. revisions' \in Seq(Entries)
    <2>1. /\ DOMAIN merged = 1..Len(merged) /\ Len(merged) \in Nat
          /\ \A k \in DOMAIN merged : merged[k] \in Entries
      BY DEF IInv, Typed
    <2>2. revisions' \in [DOMAIN merged -> Entries]
      BY <1>2, <1>3, <2>1
    <2> QED
      BY <2>1, <2>2
  <1>7. \A j, k \in DOMAIN revisions' : revisions'[j].key = revisions'[k].key => j = k
    <2> SUFFICES ASSUME NEW j \in DOMAIN merged, NEW k \in DOMAIN merged,
                        revisions'[j].key = revisions'[k].key
                 PROVE  j = k
      BY <1>5
    <2>1. merged[o[j]].key = merged[o[k]].key /\ o[j] \in DOMAIN merged /\ o[k] \in DOMAIN merged
      BY <1>3, <1>5
    <2>2. o[j] = o[k]
      BY <1>4, <2>1 DEF Covers
    <2> QED
      BY <1>3, <2>2
  <1>8. ASSUME NEW i \in 1..Len(findings)
        PROVE  \E k \in DOMAIN revisions' :
                  /\ revisions'[k].key = findings[i].key
                  /\ Rank(revisions'[k]) >= Rank(findings[i])
    <2>1. PICK k \in DOMAIN merged : /\ merged[k].key = findings[i].key
                                    /\ Rank(merged[k]) >= Rank(findings[i])
      BY <1>4 DEF Covers
    <2>2. PICK j \in DOMAIN merged : o[j] = k
      BY <1>3
    <2> QED
      BY <2>1, <2>2, <1>5
  <1>10. ASSUME NEW k \in DOMAIN revisions'
         PROVE  \E i \in 1..Len(findings) : /\ revisions'[k].key = findings[i].key
                                            /\ revisions'[k].severity = findings[i].severity
    BY <1>3, <1>4, <1>5 DEF Covers
  <1>9. Covers(revisions, Len(findings))'
    <2>1. findings' = findings
      BY <1>1
    <2> QED
      BY ONLY <2>1, <1>7, <1>8, <1>10, SMTT(30) DEF Covers, Rank
  <1> QED
    BY <1>1, <1>4, <1>6, <1>9 DEF IInv, Typed

(* The walk applies only what needs no human, and changes nothing that the *)
(* Judge has made.                                                         *)
LEMMA WalkStep == IInv /\ (AwaitApproval \/ Apply \/ Reject \/ Finish) => IInv'
  <1> SUFFICES ASSUME IInv, AwaitApproval \/ Apply \/ Reject \/ Finish PROVE IInv'
    OBVIOUS
  <1>1. /\ phase = "revise" /\ phase' \in {"revise", "done"}
        /\ UNCHANGED <<findings, taken, merged, revisions>>
    BY DEF AwaitApproval, Apply, Reject, Finish, revisionVars
  <1>2. turn' \in Nat \ {0}
    BY DEF IInv, Typed, AwaitApproval, Apply, Reject, Finish, revisionVars
  <1>3. Typed' /\ Covers(revisions, Len(findings))'
    BY <1>1, <1>2 DEF IInv, Typed, Covers, Rank
  <1>4. \A k : Gated(k)' = Gated(k)
    BY <1>1 DEF Gated, RequiresHuman
  <1>5. applied' \subseteq DOMAIN revisions /\ \A k \in applied' : ~Gated(k)
    <2>1. CASE applied' = applied
      BY <2>1 DEF IInv
    <2>2. CASE Apply
      <3>1. turn \in DOMAIN revisions /\ ~Gated(turn) /\ applied' = applied \cup {turn}
        BY <2>2 DEF Apply, IInv, Typed
      <3> QED
        BY <3>1 DEF IInv
    <2> QED
      BY <2>1, <2>2 DEF AwaitApproval, Reject, Finish, revisionVars
  <1> QED
    BY <1>1, <1>3, <1>4, <1>5 DEF IInv

LEMMA StepIInv == IInv /\ [Next]_vars => IInv'
  <1>1. ASSUME IInv, UNCHANGED vars PROVE IInv'
    <2>1. UNCHANGED <<phase, findings, taken, merged, revisions, turn, applied>>
      BY <1>1 DEF vars
    <2>2. Typed'
      BY <1>1, <2>1 DEF IInv, Typed
    <2>3. Covers(merged, taken)' = Covers(merged, taken)
      BY <2>1 DEF Covers
    <2>4. Covers(revisions, Len(findings))' = Covers(revisions, Len(findings))
      BY <2>1 DEF Covers
    <2>5. \A k : Gated(k)' = Gated(k)
      BY <2>1 DEF Gated
    <2> QED
      BY <1>1, <2>1, <2>2, <2>3, <2>4, <2>5 DEF IInv
  <1> QED
    BY <1>1, MergeStep, JudgeStep, WalkStep DEF Next

LEMMA IInvAlways == Spec => []IInv
  BY InitIInv, StepIInv, PTL DEF Spec

LEMMA CoversAll == IInv => NothingLost
  <1> SUFFICES ASSUME IInv, phase # "merge" PROVE NothingLost
    BY DEF NothingLost
  <1>1. Covers(revisions, Len(findings)) /\ DOMAIN findings = 1..Len(findings)
    BY DEF IInv, Typed
  <1>2. ASSUME NEW i \in DOMAIN findings
        PROVE  \E k \in DOMAIN revisions :
                  /\ \A j \in DOMAIN revisions : StandsFor(j, i) <=> j = k
                  /\ Rank(revisions[k]) >= Rank(findings[i])
    BY <1>1 DEF Covers, StandsFor
  <1>3. ASSUME NEW k \in DOMAIN revisions
        PROVE  \E i \in DOMAIN findings :
                  StandsFor(k, i) /\ revisions[k].severity = findings[i].severity
    BY <1>1 DEF Covers, StandsFor
  <1> QED
    BY <1>2, <1>3 DEF NothingLost

LEMMA GateHolds == IInv => NoSilentMajorRevision
  <1> SUFFICES ASSUME IInv, NEW i \in DOMAIN findings, NEW k \in applied,
                      StandsFor(k, i), ~ApproveAll
               PROVE  /\ findings[i].severity # "critical"
                      /\ findings[i].severity = "major" => ~HumanForMajor
    BY DEF NoSilentMajorRevision
  <1>1. /\ i \in 1..Len(findings) /\ findings[i] \in Entries
        /\ k \in DOMAIN revisions /\ revisions[k] \in Entries
        /\ Covers(revisions, Len(findings))
    BY DEF IInv, Typed
  <1>2. Rank(revisions[k]) >= Rank(findings[i])
    BY <1>1 DEF Covers, StandsFor
  <1>3. ~RequiresHuman(revisions[k])
    BY DEF IInv, Gated
  <1>4. findings[i].severity \in DOMAIN Ranks /\ revisions[k].severity \in DOMAIN Ranks
    BY <1>1, DecisionsAssumption DEF Entries
  <1> QED
    BY <1>2, <1>3, <1>4 DEF RequiresHuman, Rank, Ranks

(* The Judge loses nothing and makes nothing up: for reviews of any size,  *)
(* every finding is stood for by exactly one instruction, at least as      *)
(* severe, and every instruction has the severity of one of the findings   *)
(* it stands for (Judge::consolidate).                                     *)
THEOREM NothingEverLost == Spec => []NothingLost
  BY CoversAll, IInvAlways, PTL

(* No critical finding, and no major one where the configuration asks for  *)
(* a human, is ever revised without one, however findings are merged and   *)
(* ordered (pipeline.rs: the approval gate).                               *)
THEOREM MajorNeverSilent == Spec => []NoSilentMajorRevision
  BY GateHolds, IInvAlways, PTL

-----------------------------------------------------------------------------
(* The instructions before the turn are settled, each in one way, and the  *)
(* source has lost one claim for each that was applied.                    *)
Settled ==
    /\ source \in Seq(Claims) /\ original \in Seq(Claims)
    /\ phase = "merge" => /\ turn = 1 /\ source = original /\ edits = {}
                          /\ awaiting = {} /\ applied = {} /\ rejected = {}
    /\ phase # "merge" => /\ turn \in 1..Len(revisions) + 1
                          /\ awaiting \cup applied \cup rejected = 1..turn - 1
    /\ phase \notin {"merge", "revise"} => turn = Len(revisions) + 1
    /\ awaiting \cap applied = {} /\ awaiting \cap rejected = {} /\ applied \cap rejected = {}
    /\ applied = {e[1] : e \in edits}
    /\ IsFiniteSet(applied)
    /\ Len(source) + Cardinality(applied) = Len(original)

LEMMA InitSettled == Init => Settled
  <1> SUFFICES ASSUME Init PROVE Settled
    OBVIOUS
  <1>1. source \in Seq(Claims) /\ original \in Seq(Claims) /\ source = original
    BY DecisionsAssumption DEF Init
  <1>2. IsFiniteSet({}) /\ Cardinality({}) = 0
    BY FS_EmptySet
  <1>3. applied = {} /\ edits = {} /\ {e[1] : e \in edits} = {}
    BY DEF Init
  <1> QED
    BY <1>1, <1>2, <1>3 DEF Init, Settled

(* Nothing is settled while the Judge is at work.                          *)
LEMMA JudgeSettled == IInv /\ IInv' /\ Settled /\ (Merge \/ JudgeAll) => Settled'
  <1> SUFFICES ASSUME IInv', Settled, Merge \/ JudgeAll PROVE Settled'
    OBVIOUS
  <1>1. /\ phase = "merge" /\ phase' \in {"merge", "revise"}
        /\ UNCHANGED <<original, turn, awaiting, applied, rejected, source, edits>>
    BY DEF Merge, JudgeAll, revisionVars
  <1>2. 1..turn' - 1 = {} /\ turn' \in 1..Len(revisions') + 1
    <2>1. Len(revisions') \in Nat /\ turn' = 1
      BY <1>1 DEF IInv, Typed, Settled
    <2> QED
      BY <2>1
  <1> QED
    BY <1>1, <1>2 DEF Settled

(* An instruction that is settled in turn was not settled before.          *)
LEMMA WalkSettled == IInv /\ Settled /\ (AwaitApproval \/ Apply \/ Reject \/ Finish) => Settled'
  <1> SUFFICES ASSUME IInv, Settled, AwaitApproval \/ Apply \/ Reject \/ Finish PROVE Settled'
    OBVIOUS
  <1>1. /\ phase = "revise"
        /\ UNCHANGED <<original, revisions>>
        /\ Len(revisions) \in Nat
        /\ turn \in 1..Len(revisions) + 1
        /\ awaiting \cup applied \cup rejected = 1..turn - 1
        /\ turn \notin awaiting \cup applied \cup rejected
    BY DEF AwaitApproval, Apply, Reject, Finish, revisionVars, IInv, Typed, Settled
  <1>2. ASSUME turn <= Len(revisions), turn' = turn + 1
        PROVE  /\ turn' \in 1..Len(revisions) + 1
               /\ 1..turn' - 1 = (1..turn - 1) \cup {turn}
    BY <1>1, <1>2
  <1>3. CASE AwaitApproval
    <2>1. /\ turn <= Len(revisions) /\ turn' = turn + 1 /\ phase' = "revise"
          /\ awaiting' = awaiting \cup {turn}
          /\ UNCHANGED <<applied, rejected, source, edits>>
      BY <1>1, <1>3 DEF AwaitApproval
    <2> QED
      BY <1>1, <1>2, <2>1 DEF Settled
  <1>4. CASE Reject
    <2>1. /\ turn <= Len(revisions) /\ turn' = turn + 1 /\ phase' = "revise"
          /\ rejected' = rejected \cup {turn}
          /\ UNCHANGED <<applied, awaiting, source, edits>>
      BY <1>1, <1>4 DEF Reject
    <2> QED
      BY <1>1, <1>2, <2>1 DEF Settled
  <1>5. CASE Apply
    <2>1. /\ turn <= Len(revisions) /\ turn' = turn + 1 /\ phase' = "revise"
          /\ applied' = applied \cup {turn}
          /\ edits' = edits \cup {<<turn, Head(source)>>}
          /\ source # << >> /\ source' = Tail(source)
          /\ UNCHANGED <<rejected, awaiting>>
      BY <1>1, <1>5 DEF Apply, Changes
    <2>2. source' \in Seq(Claims) /\ Len(source') = Len(source) - 1 /\ Len(source) \in Nat
      BY <2>1 DEF Settled
    <2>3. /\ IsFiniteSet(applied') /\ Cardinality(applied') = Cardinality(applied) + 1
          /\ Cardinality(applied) \in Nat
      <3>1. IsFiniteSet(applied) /\ turn \notin applied
        BY <1>1 DEF Settled
      <3>2. /\ IsFiniteSet(applied \cup {turn})
            /\ Cardinality(applied \cup {turn}) = Cardinality(applied) + 1
        BY <3>1, FS_AddElement
      <3>3. Cardinality(applied) \in Nat
        BY <3>1, FS_CardinalityType
      <3> QED
        BY <2>1, <3>2, <3>3
    <2>4. Len(source') + Cardinality(applied') = Len(original')
      <3>1. Len(source) + Cardinality(applied) = Len(original)
        BY DEF Settled
      <3>2. Len(original') = Len(original)
        BY <1>1
      <3> QED
        BY <2>2, <2>3, <3>1, <3>2
    <2>5. applied' = {e[1] : e \in edits'}
      <3>1. applied = {e[1] : e \in edits}
        BY DEF Settled
      <3> DEFINE new == <<turn, Head(source)>>
      <3>2. new[1] = turn
        OBVIOUS
      <3> HIDE DEF new
      <3>3. {e[1] : e \in edits \cup {new}} = {e[1] : e \in edits} \cup {new[1]}
        OBVIOUS
      <3>4. edits' = edits \cup {new}
        BY <2>1 DEF new
      <3> QED
        BY <2>1, <3>1, <3>2, <3>3, <3>4
    <2>6. awaiting' \cup applied' \cup rejected' = 1..turn' - 1
      BY <1>1, <1>2, <2>1
    <2>7. /\ awaiting' \cap applied' = {} /\ awaiting' \cap rejected' = {}
          /\ applied' \cap rejected' = {}
      BY <1>1, <2>1 DEF Settled
    <2>8. turn' \in 1..Len(revisions') + 1
      BY <1>1, <1>2, <2>1
    <2> QED
      BY <1>1, <2>1, <2>2, <2>3, <2>4, <2>5, <2>6, <2>7, <2>8, Zenon DEF Settled
  <1>6. CASE Finish
    <2>1. /\ turn > Len(revisions) /\ phase' = "done"
          /\ UNCHANGED <<turn, awaiting, applied, rejected, source, edits>>
      BY <1>1, <1>6 DEF Finish, revisionVars
    <2> QED
      BY <1>1, <2>1 DEF Settled
  <1> QED
    BY <1>3, <1>4, <1>5, <1>6

LEMMA SettledAlways == Spec => []Settled
  <1>1. Settled /\ UNCHANGED vars => Settled'
    BY DEF Settled, vars
  <1>2. IInv /\ IInv' /\ Settled /\ [Next]_vars => Settled'
    BY <1>1, JudgeSettled, WalkSettled DEF Next
  <1> QED
    BY <1>2, InitSettled, IInvAlways, PTL DEF Spec

LEMMA WalkSettles == IInv /\ Settled => EveryInstructionSettled
  <1> SUFFICES ASSUME IInv, Settled, phase = "done"
               PROVE  awaiting \cup applied \cup rejected = DOMAIN revisions
    BY DEF EveryInstructionSettled, Settled
  <1>1. Len(revisions) \in Nat /\ DOMAIN revisions = 1..Len(revisions)
    BY DEF IInv, Typed
  <1>2. turn = Len(revisions) + 1 /\ awaiting \cup applied \cup rejected = 1..turn - 1
    BY DEF Settled
  <1> QED
    BY <1>1, <1>2

(* The walk leaves no instruction out and settles none twice, and the      *)
(* edits it reports are those that were made, on sources of any length     *)
(* (pipeline.rs: the revision loop; RevisionEngine::apply).                *)
THEOREM EveryInstructionAlwaysSettled == Spec => []EveryInstructionSettled
  BY WalkSettles, IInvAlways, SettledAlways, PTL

-----------------------------------------------------------------------------
(* Validating and reporting leave every decision as it is.                 *)
LEMMA ReportStep ==
    ASSUME IInv, Settled, Validate \/ WriteReport
    PROVE  IInv' /\ Settled'
  <1>1. /\ phase \in {"done", "validated"} /\ phase' \in {"validated", "reported"}
        /\ UNCHANGED <<findings, taken, merged, revisions, records, turn, awaiting, applied,
                       rejected, original, source, edits>>
    BY DEF Validate, WriteReport, revisionVars
  <1>2. Typed'
    BY <1>1 DEF IInv, Typed
  <1>3. Covers(revisions, Len(findings))'
    BY <1>1 DEF Covers, IInv
  <1>4. \A k : Gated(k)' = Gated(k)
    BY <1>1 DEF Gated
  <1>5. IInv'
    BY <1>1, <1>2, <1>3, <1>4 DEF IInv
  <1>6. Settled'
    BY <1>1 DEF Settled
  <1> QED
    BY <1>5, <1>6

LEMMA ReportKeeps == ReportSpec => []IInv /\ []Settled
  <1>1. ReportInit => IInv /\ Settled
    BY InitIInv, InitSettled DEF ReportInit
  <1>2. ASSUME IInv, Settled, UNCHANGED vars PROVE Settled'
    BY <1>2 DEF Settled, vars
  <1>3. ASSUME IInv, Settled, [ReportNext]_<<vars, reportVars>> PROVE IInv' /\ Settled'
    <2>1. CASE Next
      <3>1. IInv'
        BY <1>3, <2>1, StepIInv
      <3> QED
        BY <1>3, <2>1, <3>1, JudgeSettled, WalkSettled DEF Next
    <2>2. CASE Validate \/ WriteReport
      BY <1>3, <2>2, ReportStep
    <2>3. CASE UNCHANGED vars
      <3>1. IInv'
        BY <1>3, <2>3, StepIInv
      <3> QED
        BY <1>2, <1>3, <2>3, <3>1
    <2> QED
      BY <1>3, <2>1, <2>2, <2>3 DEF ReportNext, Decide
  <1> QED
    BY <1>1, <1>3, PTL DEF ReportSpec

(* So what holds of the decisions holds of the whole review, validation    *)
(* and report included (pipeline.rs: run_pipeline).                        *)
THEOREM DecisionsHoldInReviews ==
    ReportSpec => [](NothingLost /\ NoSilentMajorRevision /\ EveryInstructionSettled)
  BY CoversAll, GateHolds, WalkSettles, ReportKeeps, PTL

-----------------------------------------------------------------------------
(* Every entry of es is one of the findings, by id and key.                *)
Stems(es) ==
    \A k \in DOMAIN es :
        \E i \in DOMAIN findings : es[k].id = findings[i].id /\ es[k].key = findings[i].key

(* The records of the Judge's instructions.                                *)
Recorded ==
    [k \in DOMAIN revisions |->
        [id |-> revisions[k].id,
         human |-> RequiresHuman(revisions[k]),
         revision |-> LinkedRevision(revisions, k)]]

(* What the decisions say of themselves: instructions stem from findings,  *)
(* each is recorded, and those that wait are all that need a human.        *)
Traced ==
    /\ phase = "merge" => Stems(merged)
    /\ phase # "merge" => /\ Stems(revisions) /\ records = Recorded
                          /\ awaiting = {k \in 1..turn - 1 : Gated(k)}
    /\ \A e \in edits : e[2] \in Claims

LEMMA InitTraced == Init => Traced
  BY DEF Init, Traced, Stems

LEMMA MergeTraced == IInv /\ Settled /\ Traced /\ Merge => Traced'
  <1> SUFFICES ASSUME IInv, Settled, Traced, Merge PROVE Traced'
    OBVIOUS
  <1> DEFINE f == findings[taken + 1]
             known == \E k \in DOMAIN merged : merged[k].key = f.key
  <1>1. /\ phase = "merge" /\ phase' = "merge" /\ findings' = findings /\ edits' = edits
        /\ taken < Len(findings)
        /\ merged' = IF known
                       THEN [k \in DOMAIN merged |-> IF merged[k].key = f.key
                                                       THEN Absorb(merged[k], f)
                                                       ELSE merged[k]]
                       ELSE Append(merged, f)
    BY DEF Merge, revisionVars
  <1>2. /\ findings \in Seq(Entries) /\ merged \in Seq(Entries) /\ taken + 1 \in DOMAIN findings
        /\ f \in Entries
    BY <1>1 DEF IInv, Typed
  <1>3. Stems(merged)
    BY <1>1 DEF Traced
  <1>4. ASSUME NEW e \in Entries PROVE Absorb(e, f).id = e.id /\ Absorb(e, f).key = e.key
    BY <1>2 DEF Absorb, Entries
  <1>5. Stems(merged)'
    <2>1. CASE known
      <3>1. merged' = [k \in DOMAIN merged |-> IF merged[k].key = f.key
                                                 THEN Absorb(merged[k], f) ELSE merged[k]]
        BY <1>1, <2>1
      <3> HIDE DEF f, known
      <3>2. DOMAIN merged' = DOMAIN merged
        BY <3>1
      <3>3. ASSUME NEW k \in DOMAIN merged
            PROVE  merged'[k].id = merged[k].id /\ merged'[k].key = merged[k].key
        <4>1. merged[k] \in Entries
          BY <1>2
        <4>2. merged'[k] = IF merged[k].key = f.key THEN Absorb(merged[k], f) ELSE merged[k]
          BY <3>1
        <4> QED
          BY <1>4, <4>1, <4>2
      <3> QED
        BY <1>1, <1>3, <3>2, <3>3 DEF Stems
    <2>2. CASE ~known
      <3>1. merged' = Append(merged, f)
        BY <1>1, <2>2
      <3>2. f.id = findings[taken + 1].id /\ f.key = findings[taken + 1].key
        OBVIOUS
      <3> HIDE DEF f, known
      <3>3. /\ DOMAIN merged' = DOMAIN merged \cup {Len(merged) + 1}
            /\ merged'[Len(merged) + 1] = f
            /\ \A k \in DOMAIN merged : merged'[k] = merged[k]
        BY <3>1, <1>2
      <3>4. ASSUME NEW k \in DOMAIN merged'
            PROVE  \E i \in DOMAIN findings :
                      merged'[k].id = findings[i].id /\ merged'[k].key = findings[i].key
        <4>1. CASE k \in DOMAIN merged
          BY <1>3, <3>3, <4>1 DEF Stems
        <4>2. CASE k = Len(merged) + 1
          BY <1>2, <3>2, <3>3, <4>2
        <4> QED
          BY <3>3, <4>1, <4>2
      <3>5. findings' = findings
        BY <1>1
      <3> QED
        BY ONLY <3>4, <3>5 DEF Stems
    <2> QED
      BY <2>1, <2>2
  <1> QED
    BY <1>1, <1>5 DEF Traced

LEMMA JudgeTraced == IInv /\ Settled /\ Traced /\ JudgeAll => Traced'
  <1> SUFFICES ASSUME IInv, Settled, Traced, JudgeAll PROVE Traced'
    OBVIOUS
  <1>1. /\ phase = "merge" /\ phase' = "revise"
        /\ UNCHANGED <<findings, turn, awaiting, edits>>
        /\ turn = 1 /\ awaiting = {} /\ Stems(merged)
    BY DEF JudgeAll, revisionVars, Settled, Traced
  <1>2. PICK o \in Bijection(DOMAIN merged, DOMAIN merged) :
           revisions' = [k \in DOMAIN merged |-> merged[o[k]]]
    BY DEF JudgeAll, Orders
  <1>3. o \in [DOMAIN merged -> DOMAIN merged]
    BY DEF Bijection, Injection
  <1>4. /\ DOMAIN revisions' = DOMAIN merged
        /\ \A k \in DOMAIN merged : revisions'[k] = merged[o[k]] /\ o[k] \in DOMAIN merged
    BY <1>2, <1>3
  <1>5. Stems(revisions)'
    BY <1>1, <1>4 DEF Stems
  <1>6. records' = [k \in DOMAIN merged |->
                      [id |-> revisions'[k].id,
                       human |-> RequiresHuman(revisions'[k]),
                       revision |-> LinkedRevision(revisions', k)]]
    BY DEF JudgeAll
  <1>7. records' = Recorded'
    BY <1>4, <1>6 DEF Recorded, RequiresHuman, LinkedRevision
  <1>8. awaiting' = {k \in 1..turn' - 1 : Gated(k)'}
    BY <1>1
  <1> QED
    BY <1>1, <1>5, <1>7, <1>8 DEF Traced

(* The decisions that nothing of is undone: what is made of the findings.  *)
LEMMA MadeStays ==
    ASSUME UNCHANGED <<findings, revisions, records>>
    PROVE  /\ Stems(revisions)' = Stems(revisions) /\ Recorded' = Recorded
           /\ \A k : Gated(k)' = Gated(k)
  BY DEF Stems, Recorded, Gated, RequiresHuman, LinkedRevision

LEMMA WalkTraced ==
    IInv /\ Settled /\ Traced /\ (AwaitApproval \/ Apply \/ Reject \/ Finish) => Traced'
  <1> SUFFICES ASSUME IInv, Settled, Traced, AwaitApproval \/ Apply \/ Reject \/ Finish
               PROVE  Traced'
    OBVIOUS
  <1>1. /\ phase = "revise" /\ phase' \in {"revise", "done"}
        /\ UNCHANGED <<findings, revisions, records>>
        /\ turn \in Nat \ {0} /\ source \in Seq(Claims)
    BY DEF AwaitApproval, Apply, Reject, Finish, revisionVars, IInv, Typed, Settled
  <1>2. Stems(revisions)' /\ records' = Recorded' /\ \A k : Gated(k)' = Gated(k)
    BY <1>1, MadeStays DEF Traced
  <1>3. awaiting = {k \in 1..turn - 1 : Gated(k)}
    BY <1>1 DEF Traced
  <1>4. 1..(turn + 1) - 1 = (1..turn - 1) \cup {turn}
    BY <1>1
  <1>5. awaiting' = {k \in 1..turn' - 1 : Gated(k)}
    <2>1. CASE AwaitApproval
      <3>1. turn' = turn + 1 /\ awaiting' = awaiting \cup {turn} /\ Gated(turn)
        BY <2>1 DEF AwaitApproval
      <3> QED
        BY <1>3, <1>4, <3>1
    <2>2. CASE Apply \/ Reject
      <3>1. turn' = turn + 1 /\ awaiting' = awaiting /\ ~Gated(turn)
        BY <2>2 DEF Apply, Reject
      <3> QED
        BY <1>3, <1>4, <3>1
    <2>3. CASE Finish
      <3>1. turn' = turn /\ awaiting' = awaiting
        BY <2>3 DEF Finish, revisionVars
      <3> QED
        BY <1>3, <3>1
    <2> QED
      BY <2>1, <2>2, <2>3
  <1>6. \A e \in edits' : e[2] \in Claims
    <2>1. CASE Apply
      <3> DEFINE new == <<turn, Head(source)>>
      <3>1. edits' = edits \cup {new} /\ new[2] = Head(source) /\ Head(source) \in Claims
        BY <1>1, <2>1 DEF Apply, Changes
      <3> HIDE DEF new
      <3> QED
        BY <3>1 DEF Traced
    <2>2. CASE edits' = edits
      BY <2>2 DEF Traced
    <2> QED
      BY <2>1, <2>2 DEF AwaitApproval, Reject, Finish, revisionVars
  <1>7. awaiting' = {k \in 1..turn' - 1 : Gated(k)'}
    BY <1>2, <1>5
  <1> QED
    BY <1>1, <1>2, <1>6, <1>7 DEF Traced

LEMMA RestTraced ==
    ASSUME IInv, Traced, Validate \/ WriteReport \/ UNCHANGED vars
    PROVE  Traced'
  <1>1. CASE Validate \/ WriteReport
    <2>1. /\ phase # "merge" /\ phase' # "merge"
          /\ UNCHANGED <<findings, revisions, records, turn, awaiting, edits>>
      BY <1>1 DEF Validate, WriteReport, revisionVars
    <2>2. Stems(revisions)' /\ records' = Recorded' /\ \A k : Gated(k)' = Gated(k)
      BY <2>1, MadeStays DEF Traced
    <2> QED
      BY <2>1, <2>2 DEF Traced
  <1>2. CASE UNCHANGED vars
    <2>1. UNCHANGED <<phase, findings, merged, revisions, records, turn, awaiting, edits>>
      BY <1>2 DEF vars
    <2>2. /\ Stems(revisions)' = Stems(revisions) /\ Recorded' = Recorded
          /\ \A k : Gated(k)' = Gated(k)
      BY <2>1, MadeStays
    <2>3. Stems(merged)' = Stems(merged)
      BY <2>1 DEF Stems
    <2> QED
      BY <2>1, <2>2, <2>3 DEF Traced
  <1> QED
    BY <1>1, <1>2

LEMMA TracedAlways == ReportSpec => []Traced
  <1>1. ReportInit => Traced
    BY InitTraced DEF ReportInit
  <1>2. IInv /\ Settled /\ Traced /\ [ReportNext]_<<vars, reportVars>> => Traced'
    BY MergeTraced, JudgeTraced, WalkTraced, RestTraced DEF ReportNext, Decide, Next
  <1> QED
    BY <1>1, <1>2, ReportKeeps, PTL DEF ReportSpec

-----------------------------------------------------------------------------
(* The paragraphs that validation misses, and what the report is made of.  *)
Missed ==
    {n \in DOMAIN document.paragraphs : ~Overlaps(document.paragraphs[n], Reparsed)}

Told ==
    [blocks |-> [kind \in Kinds |-> Block(kind)],
     entries |-> [k \in DOMAIN records |-> Consolidated(k)],
     approvals |-> Approvals,
     applied |-> Cardinality(applied),
     validation |-> IF lost = {} THEN "PASSED" ELSE "FAILED",
     issues |-> lost]

(* What the report says is still so when it is written.                    *)
Shown ==
    /\ document \in Documents
    /\ authors \in [DOMAIN findings -> DOMAIN REVIEWER_KINDS]
    /\ \A i \in DOMAIN findings : statuses[REVIEWER_KINDS[authors[i]]] = "success"
    /\ phase \in {"validated", "reported"} => lost = Missed
    /\ phase = "reported" => report = Told

LEMMA MissedStays == UNCHANGED <<document, edits>> => Missed' = Missed
  <1> SUFFICES ASSUME UNCHANGED <<document, edits>> PROVE Missed' = Missed
    OBVIOUS
  <1>1. \A p : Revised(p)' = Revised(p)
    BY DEF Revised, Removed
  <1>2. Reparsed' = Reparsed
    BY <1>1 DEF Reparsed
  <1> QED
    BY <1>2 DEF Missed

LEMMA DecideShown == Shown /\ Decide => Shown'
  <1> SUFFICES ASSUME Shown, Decide PROVE Shown'
    OBVIOUS
  <1>1. /\ findings' = findings /\ phase' \notin {"validated", "reported"}
        /\ UNCHANGED <<document, authors, statuses>>
    BY DEF Decide, reportVars, Next, Merge, JudgeAll, AwaitApproval, Apply, Reject, Finish
  <1> QED
    BY <1>1 DEF Shown

LEMMA ValidateShown == Shown /\ Validate => Shown'
  <1> SUFFICES ASSUME Shown, Validate PROVE Shown'
    OBVIOUS
  <1>1. /\ phase' = "validated" /\ lost' = Missed
        /\ UNCHANGED <<findings, document, authors, statuses, edits>>
    BY DEF Validate, Missed, revisionVars
  <1>2. Missed' = Missed
    BY <1>1, MissedStays
  <1> QED
    BY <1>1, <1>2 DEF Shown

LEMMA ToldStays ==
    UNCHANGED <<findings, records, revisions, applied, authors, statuses, lost>> => Told' = Told
  <1> SUFFICES ASSUME UNCHANGED <<findings, records, revisions, applied, authors, statuses, lost>>
               PROVE  Told' = Told
    OBVIOUS
  <1>1. \A kind : Block(kind)' = Block(kind)
    BY DEF Block
  <1>2. \A k : Consolidated(k)' = Consolidated(k)
    BY DEF Consolidated
  <1>3. Approvals' = Approvals
    BY DEF Approvals
  <1> QED
    BY <1>1, <1>2, <1>3 DEF Told

LEMMA WriteShown == Shown /\ WriteReport => Shown'
  <1> SUFFICES ASSUME Shown, WriteReport PROVE Shown'
    OBVIOUS
  <1>1. /\ phase = "validated" /\ phase' = "reported"
        /\ UNCHANGED <<findings, records, revisions, applied, document, authors, statuses, edits,
                       lost>>
    BY DEF WriteReport, revisionVars
  <1>2. report' = Told
    BY Zenon DEF WriteReport, Told
  <1>3. Missed' = Missed /\ Told' = Told
    BY <1>1, MissedStays, ToldStays
  <1> QED
    BY <1>1, <1>2, <1>3 DEF Shown

LEMMA ShownAlways == ReportSpec => []Shown
  <1>1. ReportInit => Shown
    BY DEF ReportInit, Init, Shown
  <1>2. ASSUME Shown, UNCHANGED <<vars, reportVars>> PROVE Shown'
    <2>1. /\ UNCHANGED <<phase, findings, records, revisions, applied, edits>>
          /\ UNCHANGED <<document, authors, statuses, lost, report>>
      BY <1>2 DEF vars, reportVars
    <2>2. Missed' = Missed /\ Told' = Told
      BY <2>1, MissedStays, ToldStays
    <2> QED
      BY <1>2, <2>1, <2>2 DEF Shown
  <1>3. Shown /\ [ReportNext]_<<vars, reportVars>> => Shown'
    BY <1>2, DecideShown, ValidateShown, WriteShown DEF ReportNext
  <1> QED
    BY <1>1, <1>3, PTL DEF ReportSpec

-----------------------------------------------------------------------------
LEMMA BlockShows ==
    ASSUME Shown, OwnNames, NEW i \in DOMAIN findings
    PROVE  LET block == Block(REVIEWER_KINDS[authors[i]]) IN
           /\ i \in block.findings /\ Cardinality(block.findings) = block.count
           /\ block.status = "success"
  <1> DEFINE kind == REVIEWER_KINDS[authors[i]]
             mine == {j \in DOMAIN findings : REVIEWER_KINDS[authors[j]] = kind}
             named == {j \in DOMAIN findings : ReviewerOf[findings[j].key] = kind}
  <1>1. statuses[kind] = "success"
    BY DEF Shown
  <1>2. mine = named /\ i \in named
    BY DEF OwnNames
  <1>3. Block(kind) = [status |-> "success", count |-> Cardinality(mine), findings |-> named]
    BY <1>1 DEF Block
  <1> HIDE DEF kind, mine, named
  <1>4. i \in Block(kind).findings /\ Cardinality(Block(kind).findings) = Block(kind).count
    BY <1>2, <1>3
  <1>5. Block(kind).status = "success"
    BY <1>3
  <1> QED
    BY <1>4, <1>5 DEF kind

LEMMA EntryShows ==
    ASSUME IInv, Settled, Traced, phase = "reported", IdsTellKeys, NEW k \in DOMAIN records
    PROVE  LET entry == Consolidated(k)
               f == findings[entry.finding]
           IN  /\ f.key = revisions[k].key
               /\ Ranks[entry.severity] >= Rank(f)
               /\ entry.reviewers = {ReviewerOf[f.key]}
  <1> DEFINE same == {i \in DOMAIN findings : findings[i].id = records[k].id}
             shown == CHOOSE i \in same : \A j \in same : i <= j
             f == findings[shown]
  <1>1. /\ records = Recorded /\ Stems(revisions) /\ Covers(revisions, Len(findings))
        /\ findings \in Seq(Entries) /\ revisions \in Seq(Entries)
    BY DEF Traced, IInv, Typed
  <1>2. k \in DOMAIN revisions /\ records[k].id = revisions[k].id
    BY <1>1 DEF Recorded
  <1>3. PICK i \in DOMAIN findings :
           revisions[k].id = findings[i].id /\ revisions[k].key = findings[i].key
    BY <1>1, <1>2 DEF Stems
  <1>4. i \in same /\ same \in SUBSET Nat
    BY <1>1, <1>2, <1>3
  <1>5. \E m \in same : \A j \in same : m <= j
    <2> HIDE DEF same
    <2> QED
      BY <1>4, NatMin
  <1>6. shown \in same
    BY <1>5, Zenon
  <1>7. \A j \in same : findings[j].key = revisions[k].key
    BY <1>2, <1>3 DEF IdsTellKeys
  <1>8. Consolidated(k) = [finding |-> shown, severity |-> revisions[k].severity,
                           reviewers |-> {ReviewerOf[findings[j].key] : j \in same}]
    BY Zenon DEF Consolidated
  <1>9. shown \in 1..Len(findings)
    BY <1>1, <1>6
  <1> HIDE DEF same, shown
  <1>10. f.key = revisions[k].key
    BY <1>6, <1>7
  <1>11. {ReviewerOf[findings[j].key] : j \in same} = {ReviewerOf[f.key]}
    BY <1>6, <1>7, <1>10
  <1>12. Rank(revisions[k]) >= Rank(f)
    <2>1. PICK j \in DOMAIN revisions :
             revisions[j].key = findings[shown].key /\ Rank(revisions[j]) >= Rank(findings[shown])
      BY <1>1, <1>9 DEF Covers
    <2>2. j = k
      BY <1>1, <1>2, <1>10, <2>1 DEF Covers
    <2> QED
      BY <2>1, <2>2
  <1>13. /\ Consolidated(k).finding = shown /\ Consolidated(k).severity = revisions[k].severity
         /\ Consolidated(k).reviewers = {ReviewerOf[f.key]}
    BY <1>8, <1>11
  <1>14. Ranks[revisions[k].severity] >= Rank(f)
    BY <1>12 DEF Rank
  <1> QED
    BY <1>10, <1>13, <1>14

(* An entry's instruction is found by the finding's id.                    *)
LEMMA LinksOwn ==
    ASSUME IInv, Settled, Traced, phase = "reported", IdsTellKeys, NEW k \in DOMAIN revisions
    PROVE  LinkedRevision(revisions, k) = k
  <1>1. Stems(revisions) /\ Covers(revisions, Len(findings)) /\ revisions \in Seq(Entries)
    BY DEF Traced, IInv, Typed
  <1>2. k \in Nat
    BY <1>1
  <1>3. ASSUME NEW j \in DOMAIN revisions, revisions[j].id = revisions[k].id PROVE j = k
    <2>1. PICK i \in DOMAIN findings :
             revisions[k].id = findings[i].id /\ revisions[k].key = findings[i].key
      BY <1>1 DEF Stems
    <2>2. PICK l \in DOMAIN findings :
             revisions[j].id = findings[l].id /\ revisions[j].key = findings[l].key
      BY <1>1 DEF Stems
    <2>3. findings[i].key = findings[l].key
      BY <1>3, <2>1, <2>2 DEF IdsTellKeys
    <2>4. revisions[j].key = revisions[k].key
      BY <2>1, <2>2, <2>3
    <2> QED
      BY <1>1, <2>4 DEF Covers
  <1> DEFINE First(j) == /\ revisions[j].id = revisions[k].id
                         /\ \A i \in DOMAIN revisions : revisions[i].id = revisions[k].id => j <= i
  <1>4. First(k)
    BY <1>2, <1>3
  <1>5. \A j \in DOMAIN revisions : First(j) => j = k
    BY <1>3
  <1>6. LinkedRevision(revisions, k) = CHOOSE j \in DOMAIN revisions : First(j)
    BY Zenon DEF LinkedRevision
  <1> HIDE DEF First
  <1> QED
    BY <1>4, <1>5, <1>6, Zenon

LEMMA ApprovalsShown ==
    ASSUME IInv, Settled, Traced, phase = "reported", IdsTellKeys, ~ApproveAll
    PROVE  Approvals = awaiting
  <1>1. /\ records = Recorded /\ turn = Len(revisions) + 1
        /\ awaiting = {k \in 1..turn - 1 : Gated(k)}
        /\ DOMAIN revisions = 1..Len(revisions) /\ Len(revisions) \in Nat
    BY DEF Traced, Settled, IInv, Typed
  <1>2. awaiting = {k \in DOMAIN revisions : Gated(k)}
    BY <1>1
  <1>3. \A k : Gated(k) <=> RequiresHuman(revisions[k])
    BY DEF Gated
  <1>4. DOMAIN records = DOMAIN revisions
    BY <1>1 DEF Recorded
  <1>5. \A k \in DOMAIN revisions :
           records[k].human = RequiresHuman(revisions[k]) /\ records[k].revision = k
    <2> SUFFICES ASSUME NEW k \in DOMAIN revisions
                 PROVE  records[k].human = RequiresHuman(revisions[k]) /\ records[k].revision = k
      OBVIOUS
    <2>1. records[k] = [id |-> revisions[k].id, human |-> RequiresHuman(revisions[k]),
                        revision |-> LinkedRevision(revisions, k)]
      BY <1>1, Zenon DEF Recorded
    <2> QED
      BY <2>1, LinksOwn
  <1> QED
    BY <1>2, <1>3, <1>4, <1>5, Zenon DEF Approvals

LEMMA AllShown ==
    ASSUME IInv, Settled, Traced, phase = "reported"
    PROVE  Cardinality(applied) + Cardinality(awaiting \cup rejected) = Len(revisions)
  <1> DEFINE N == Len(revisions)
             others == awaiting \cup rejected
  <1>1. /\ N \in Nat /\ turn = N + 1 /\ awaiting \cup applied \cup rejected = 1..turn - 1
        /\ applied \cap others = {}
    BY DEF IInv, Typed, Settled
  <1>2. applied \cup others = 1..N /\ applied \in SUBSET (1..N) /\ others \in SUBSET (1..N)
    BY <1>1
  <1> HIDE DEF N, others
  <1>3. IsFiniteSet(1..N) /\ Cardinality(1..N) = N
    BY <1>1, FS_Interval
  <1>4. IsFiniteSet(applied) /\ IsFiniteSet(others)
    BY <1>2, <1>3, FS_Subset
  <1>5. Cardinality(applied) \in Nat /\ Cardinality(others) \in Nat
    BY <1>4, FS_CardinalityType
  <1>6. Cardinality(applied \cap others) = 0
    BY <1>1, FS_EmptySet
  <1>7. Cardinality(applied \cup others) = Cardinality(applied) + Cardinality(others)
                                           - Cardinality(applied \cap others)
    BY <1>4, FS_Union
  <1>8. Cardinality(applied) + Cardinality(others) = N
    <2> DEFINE a == Cardinality(applied)
               b == Cardinality(others)
               both == Cardinality(applied \cap others)
               all == Cardinality(applied \cup others)
    <2>1. a \in Nat /\ b \in Nat /\ both = 0 /\ all = a + b - both
      BY <1>5, <1>6, <1>7
    <2>2. all = N
      BY <1>2, <1>3
    <2> HIDE DEF a, b, both, all
    <2>3. a + b = N
      BY <2>1, <2>2
    <2> QED
      BY <2>3 DEF a, b
  <1> QED
    BY <1>8 DEF N, others

(* The report shows what the pipeline did, for reviews of any size: the    *)
(* blocks, entries, approvals and totals of a run whose ids and names can  *)
(* be relied on (report.rs, build_human_report).                           *)
THEOREM ReportAlwaysFaithful == ReportSpec => []ReportFaithful
  <1>1. IInv /\ Settled /\ Traced /\ Shown => ReportFaithful
    <2> SUFFICES ASSUME IInv, Settled, Traced, Shown, phase = "reported", IdsTellKeys, OwnNames
                 PROVE  ReportFaithful
      BY Zenon DEF ReportFaithful
    <2>1. report = Told
      BY DEF Shown
    <2>2. /\ report.entries = [k \in DOMAIN records |-> Consolidated(k)]
          /\ report.approvals = Approvals /\ report.applied = Cardinality(applied)
          /\ report.blocks = [kind \in Kinds |-> Block(kind)]
      BY <2>1 DEF Told
    <2>3. ASSUME NEW i \in DOMAIN findings
          PROVE  LET block == report.blocks[REVIEWER_KINDS[authors[i]]] IN
                 /\ i \in block.findings /\ Cardinality(block.findings) = block.count
                 /\ block.status = "success"
      <3>1. REVIEWER_KINDS[authors[i]] \in Kinds
        BY DEF Shown, Kinds, Range
      <3>2. report.blocks[REVIEWER_KINDS[authors[i]]] = Block(REVIEWER_KINDS[authors[i]])
        BY <2>2, <3>1
      <3> QED
        BY <3>2, BlockShows
    <2>4. ASSUME NEW k \in DOMAIN report.entries
          PROVE  LET f == findings[report.entries[k].finding] IN
                 /\ f.key = revisions[k].key
                 /\ Ranks[report.entries[k].severity] >= Rank(f)
                 /\ report.entries[k].reviewers = {ReviewerOf[f.key]}
      <3>1. k \in DOMAIN records /\ report.entries[k] = Consolidated(k)
        BY <2>2
      <3> QED
        BY <3>1, EntryShows
    <2>5. ~ApproveAll => report.approvals = awaiting
      BY <2>2, ApprovalsShown
    <2>6. report.applied + Cardinality(awaiting \cup rejected) = Len(report.entries)
      <3>1. records = Recorded /\ DOMAIN revisions = 1..Len(revisions) /\ Len(revisions) \in Nat
        BY DEF Traced, IInv, Typed
      <3>2. DOMAIN report.entries = 1..Len(revisions)
        BY <2>2, <3>1 DEF Recorded
      <3>3. Len(report.entries) = Len(revisions)
        BY <2>2, <3>1, <3>2
      <3> QED
        BY <2>2, <3>3, AllShown
    <2> QED
      BY <2>3, <2>4, <2>5, <2>6, Zenon DEF ReportFaithful
  <1> QED
    BY <1>1, ReportKeeps, TracedAlways, ShownAlways, PTL

-----------------------------------------------------------------------------
(* The windows of a text, and those that its copy without some words has   *)
(* as well.                                                                *)
Free(g, gone, a, b) == \A k \in a..b + 1 : k <= Len(g) => g[k] \notin gone

KeptAt(g, h, a, b, c) ==
    /\ c + (b - a) <= Len(h)
    /\ \A j \in 0..b - a : h[c + j] = g[a + j]
    /\ b = Len(g) => c + (b - a) = Len(h)
    /\ a = 1 => c = 1

Windows(g, h, gone) ==
    /\ Len(g) = 0 => Len(h) = 0
    /\ \A a, b \in 1..Len(g) : a <= b /\ Free(g, gone, a, b) =>
           \E c \in Nat \ {0} : KeptAt(g, h, a, b, c)

LEMMA WindowsDropped ==
    ASSUME NEW S, NEW g \in Seq(S), NEW h \in Seq(S), NEW gone, Windows(g, h, gone),
           NEW x \in S, x \in gone, NEW y \in S
    PROVE  Windows(g \o <<y, x>>, h, gone)
  <1> DEFINE u == g \o <<y, x>>
             L == Len(g)
  <1>1. /\ L \in Nat /\ Len(u) = L + 2 /\ u[L + 2] = x
        /\ \A k \in 1..L : u[k] = g[k]
    OBVIOUS
  <1> HIDE DEF u, L
  <1> SUFFICES ASSUME NEW a \in 1..L + 2, NEW b \in 1..L + 2, a <= b, Free(u, gone, a, b)
               PROVE  \E c \in Nat \ {0} : KeptAt(u, h, a, b, c)
    BY <1>1 DEF Windows, u
  <1>2. \A k \in a..b + 1 : k # L + 2
    BY <1>1 DEF Free
  <1>3. b \in 1..L /\ a \in 1..L
    BY <1>1, <1>2
  <1>4. Free(g, gone, a, b)
    BY <1>1, <1>3 DEF Free, L
  <1>5. PICK c \in Nat \ {0} : KeptAt(g, h, a, b, c)
    BY <1>3, <1>4 DEF Windows, L
  <1>6. /\ c + (b - a) <= Len(h) /\ \A j \in 0..b - a : h[c + j] = g[a + j]
        /\ a = 1 => c = 1
    BY <1>5 DEF KeptAt
  <1>7. \A j \in 0..b - a : h[c + j] = u[a + j]
    <2> SUFFICES ASSUME NEW j \in 0..b - a PROVE h[c + j] = u[a + j]
      OBVIOUS
    <2>1. a + j \in 1..L
      BY <1>1, <1>3
    <2> QED
      BY <1>1, <1>6, <2>1
  <1>8. b # Len(u)
    BY <1>1, <1>3
  <1>9. KeptAt(u, h, a, b, c)
    BY <1>6, <1>7, <1>8, Zenon DEF KeptAt
  <1> QED
    BY <1>9

LEMMA WindowsKept ==
    ASSUME NEW S, NEW g \in Seq(S), NEW h \in Seq(S), NEW gone, Windows(g, h, gone),
           NEW w \in Seq(S), w # << >>
    PROVE  Windows(g \o w, h \o w, gone)
  <1> DEFINE u == g \o w
             v == h \o w
             L == Len(g)
             K == Len(h)
             M == Len(w)
  <1>1. /\ L \in Nat /\ K \in Nat /\ M \in Nat /\ M >= 1
        /\ Len(u) = L + M /\ Len(v) = K + M
    OBVIOUS
  <1>d. u = g \o w /\ v = h \o w /\ L = Len(g) /\ K = Len(h) /\ M = Len(w)
    OBVIOUS
  <1> HIDE DEF u, v, L, K, M
  <1>2. /\ \A k \in 1..L : u[k] = g[k]
        /\ \A k \in 1..M : u[L + k] = w[k]
    BY <1>d, JoinedParts
  <1>3. /\ \A k \in 1..K : v[k] = h[k]
        /\ \A k \in 1..M : v[K + k] = w[k]
    BY <1>d, JoinedParts
  <1>4. \A k \in 1..M : v[K + k] = u[L + k]
    BY <1>2, <1>3
  <1> SUFFICES ASSUME NEW a \in 1..L + M, NEW b \in 1..L + M, a <= b, Free(u, gone, a, b)
               PROVE  \E c \in Nat \ {0} : KeptAt(u, v, a, b, c)
    BY <1>1 DEF Windows, u, v
  <1>5. CASE b <= L
    <2>1. a \in 1..L /\ b \in 1..L
      BY <1>1, <1>5
    <2>2. Free(g, gone, a, b)
      <3> SUFFICES ASSUME NEW k \in a..b + 1, k <= L PROVE g[k] \notin gone
        BY DEF Free, L
      <3>1. k \in 1..L /\ k <= Len(u)
        BY <1>1, <2>1
      <3> QED
        BY <1>2, <3>1 DEF Free
    <2>3. PICK c \in Nat \ {0} : KeptAt(g, h, a, b, c)
      BY <2>1, <2>2 DEF Windows, L
    <2>4. /\ c + (b - a) <= K /\ \A j \in 0..b - a : h[c + j] = g[a + j]
          /\ a = 1 => c = 1
      BY <2>3 DEF KeptAt, K
    <2>5. ASSUME NEW j \in 0..b - a PROVE v[c + j] = u[a + j]
      <3>1. c + j \in 1..K /\ a + j \in 1..L
        BY <1>1, <2>1, <2>4
      <3> QED
        BY <1>2, <1>3, <2>4, <3>1
    <2>6. KeptAt(u, v, a, b, c)
      BY <1>1, <2>1, <2>4, <2>5 DEF KeptAt
    <2> QED
      BY <2>6
  <1>6. CASE a > L
    <2> DEFINE c == K + (a - L)
    <2>1. c \in Nat \ {0} /\ c + (b - a) = K + (b - L)
      BY <1>1, <1>6
    <2>2. ASSUME NEW j \in 0..b - a PROVE v[c + j] = u[a + j]
      <3> DEFINE k == a + j - L
      <3>1. k \in 1..M /\ c + j = K + k /\ a + j = L + k
        BY <1>1, <1>6
      <3> HIDE DEF k
      <3> QED
        BY <1>4, <3>1
    <2> HIDE DEF c
    <2>5. a = 1 => c = 1
      <3>1. a = 1 => L = 0
        BY <1>1, <1>6
      <3>2. L = 0 => K = 0
        BY DEF Windows, L, K
      <3> QED
        BY <1>1, <3>1, <3>2 DEF c
    <2>3. c + (b - a) <= Len(v) /\ (b = Len(u) => c + (b - a) = Len(v))
      BY <1>1, <1>6, <2>1
    <2>4. KeptAt(u, v, a, b, c)
      BY <2>2, <2>3, <2>5, Zenon DEF KeptAt
    <2> QED
      BY <2>1, <2>4
  <1>7. CASE a <= L /\ b > L
    <2>1. a \in 1..L /\ L \in 1..L
      BY <1>1, <1>7
    <2>2. Free(g, gone, a, L)
      <3> SUFFICES ASSUME NEW k \in a..L + 1, k <= L PROVE g[k] \notin gone
        BY DEF Free, L
      <3>1. k \in 1..L /\ k <= Len(u) /\ k \in a..b + 1
        BY <1>1, <1>7, <2>1
      <3> QED
        BY <1>2, <3>1 DEF Free
    <2>3. PICK c \in Nat \ {0} : KeptAt(g, h, a, L, c)
      BY <2>1, <2>2 DEF Windows, L
    <2>4. /\ c + (L - a) = K /\ \A j \in 0..L - a : h[c + j] = g[a + j]
          /\ a = 1 => c = 1
      BY <2>3 DEF KeptAt, K, L
    <2>5. ASSUME NEW j \in 0..b - a PROVE v[c + j] = u[a + j]
      <3>1. CASE a + j <= L
        <4>1. j \in 0..L - a /\ c + j \in 1..K /\ a + j \in 1..L
          BY <1>1, <2>1, <2>4, <3>1
        <4> QED
          BY <1>2, <1>3, <2>4, <4>1
      <3>2. CASE a + j > L
        <4> DEFINE k == a + j - L
        <4>1. k \in 1..M /\ c + j = K + k /\ a + j = L + k
          BY <1>1, <2>1, <2>4, <3>2
        <4> HIDE DEF k
        <4> QED
          BY <1>4, <4>1
      <3> QED
        BY <1>1, <3>1, <3>2
    <2>6. c + (b - a) <= Len(v) /\ (b = Len(u) => c + (b - a) = Len(v))
      <3>1. c + (L - a) = K
        BY <2>4
      <3>2. c + (b - a) = K + (b - L)
        BY <1>1, <2>1, <3>1
      <3> QED
        BY <1>1, <2>1, <3>2
    <2>7. KeptAt(u, v, a, b, c)
      BY <2>4, <2>5, <2>6, Zenon DEF KeptAt
    <2> QED
      BY <2>7
  <1> QED
    BY <1>1, <1>5, <1>6, <1>7

-----------------------------------------------------------------------------
Words == STRING \cup {"by"}

Word(x) == IF x \in Claims THEN <<"by", x>> ELSE <<x>>

LEMMA WordType == ASSUME NEW x \in Words PROVE Word(x) \in Seq(Words) /\ Word(x) # << >>
  <1> DEFINE y == "by"
  <1>1. y \in Words
    BY DEF Words
  <1> HIDE DEF y
  <1>2. <<y, x>> \in Seq(Words) /\ <<y, x>> # << >> /\ <<x>> \in Seq(Words) /\ <<x>> # << >>
    BY <1>1
  <1>3. Word(x) = IF x \in Claims THEN <<y, x>> ELSE <<x>>
    BY DEF Word, y
  <1> QED
    BY <1>2, <1>3

LEMMA TokensUpto ==
    ASSUME NEW s \in Seq(Words)
    PROVE  \E G : /\ G[0] = << >>
                  /\ \A n \in 1..Len(s) : G[n] = G[n - 1] \o Word(s[n])
                  /\ \A n \in 0..Len(s) : G[n] \in Seq(Words)
                  /\ Tokens(s) = G[Len(s)]
  <1> DEFINE N == Len(s)
             seqs == [n \in 1..N |-> Word(s[n])]
             W == Words
             V == Seq(W)
  <1>1. N \in Nat /\ DOMAIN s = 1..N /\ \A n \in 1..N : s[n] \in W
    OBVIOUS
  <1>2. Tokens(s) = Concat(seqs)
    BY <1>1, Zenon DEF Tokens, Word
  <1>3. \A n \in 1..N : seqs[n] = Word(s[n]) /\ seqs[n] \in V
    BY <1>1, WordType
  <1>4. seqs \in [1..N -> V]
    BY <1>3
  <1> HIDE DEF seqs, W, V, N
  <1>5. seqs \in Seq(V) /\ Len(seqs) = N
    BY <1>1, <1>4, Sequenced
  <1>6. seqs \in Seq(Seq(W))
    BY <1>5 DEF V
  <1>7. PICK F : /\ F[0] = << >>
                 /\ \A n \in 1..Len(seqs) : F[n] = F[n - 1] \o seqs[n]
                 /\ \A n \in 0..Len(seqs) : F[n] \in Seq(W)
                 /\ Concat(seqs) = F[Len(seqs)]
    BY <1>6, ConcatUpto, Zenon
  <1> QED
    BY <1>2, <1>3, <1>5, <1>7 DEF N, W

LEMMA TokensMore ==
    ASSUME NEW s \in Seq(Words), NEW x \in Words
    PROVE  /\ Tokens(s) \in Seq(Words) /\ Tokens(Append(s, x)) = Tokens(s) \o Word(x)
           /\ Tokens(<< >>) = << >>
  <1> DEFINE N == Len(s)
             more == Append(s, x)
             a == [n \in 1..N |-> Word(s[n])]
             b == [n \in 1..N + 1 |-> Word(more[n])]
             W == Words
             V == Seq(W)
  <1>1. N \in Nat /\ DOMAIN s = 1..N /\ \A n \in 1..N : s[n] \in W
    OBVIOUS
  <1>2. DOMAIN more = 1..N + 1 /\ more[N + 1] = x /\ \A n \in 1..N : more[n] = s[n]
    BY Appended
  <1> HIDE DEF more
  <1>3. Tokens(s) = Concat(a)
    BY <1>1, Zenon DEF Tokens, Word
  <1>4. Tokens(more) = Concat(b)
    BY <1>2, Zenon DEF Tokens, Word
  <1>5. a \in [1..N -> V]
    BY <1>1, WordType
  <1>6. b \in [1..N + 1 -> V]
    <2>1. \A n \in 1..N + 1 : more[n] \in W
      BY <1>1, <1>2
    <2> QED
      BY <2>1, WordType
  <1>7. (\A n \in 1..N : b[n] = a[n]) /\ b[N + 1] = Word(x)
    BY <1>1, <1>2
  <1> HIDE DEF a, b, W, N
  <1>8. Concat(a) \in Seq(W) /\ Concat(b) = Concat(a) \o b[N + 1]
    BY <1>1, <1>5, <1>6, <1>7, ConcatMore DEF V
  <1>9. Tokens(<< >>) = << >>
    <2> DEFINE none == << >>
    <2>1. DOMAIN none = {} /\ none = [n \in DOMAIN none |-> Word(none[n])]
      OBVIOUS
    <2>2. Tokens(none) = Concat([n \in DOMAIN none |-> Word(none[n])])
      BY Zenon DEF Tokens, Word
    <2> QED
      BY <2>1, <2>2, ConcatEmpty
  <1> QED
    BY <1>3, <1>4, <1>7, <1>8, <1>9 DEF W, more

(* Words of a paragraph that reach into nothing that is removed are there  *)
(* without it, in a row.                                                   *)
LEMMA WindowsLeft ==
    ASSUME NEW p \in Seq(Words), NEW gone, gone \subseteq Claims, NEW T,
           \A n \in 1..Len(p) : p[n] \in T <=> p[n] \notin gone
    PROVE  /\ Windows(Tokens(p), Tokens(Sift(p, T)), gone)
           /\ Tokens(p) \in Seq(Words) /\ Tokens(Sift(p, T)) \in Seq(Words)
  <1> DEFINE N == Len(p)
             W == Words
  <1>1. N \in Nat /\ \A n \in 1..N : p[n] \in W
    OBVIOUS
  <1>2. PICK F : /\ F[0] = << >>
                 /\ \A n \in 1..N : F[n] = IF p[n] \in T THEN Append(F[n - 1], p[n]) ELSE F[n - 1]
                 /\ \A n \in 0..N : F[n] \in Seq(W)
                 /\ Sift(p, T) = F[N]
    BY SiftUpto, Zenon
  <1>3. PICK G : /\ G[0] = << >>
                 /\ \A n \in 1..N : G[n] = G[n - 1] \o Word(p[n])
                 /\ \A n \in 0..N : G[n] \in Seq(W)
                 /\ Tokens(p) = G[N]
    BY TokensUpto, Zenon
  <1> HIDE DEF N, W
  <1>4. \A n \in 0..N : Tokens(F[n]) \in Seq(W)
    <2> SUFFICES ASSUME NEW n \in 0..N PROVE Tokens(F[n]) \in Seq(W)
      OBVIOUS
    <2> DEFINE f == F[n]
    <2>1. f \in Seq(W) /\ "by" \in W
      BY <1>2 DEF W, Words
    <2> HIDE DEF f
    <2>2. Tokens(f) \in Seq(W)
      BY <2>1, TokensMore DEF W
    <2> QED
      BY <2>2 DEF f
  <1> DEFINE Good(n) == Windows(G[n], Tokens(F[n]), gone)
             Bad == {n \in 0..N : ~Good(n)}
  <1>5. ASSUME Bad # {} PROVE FALSE
    <2>0. Bad \in SUBSET Nat
      BY <1>1
    <2>1. PICK n \in Bad : \A j \in Bad : n <= j
      <3> HIDE DEF Bad
      <3> QED
        BY <1>5, <2>0, NatMin
    <2>2. n # 0
      <3>1. Len(G[0]) = 0 /\ Len(Tokens(F[0])) = 0
        <4>1. Tokens(<< >>) = << >>
          <5>1. << >> \in Seq(Words) /\ "by" \in Words
            BY DEF Words
          <5> QED
            BY <5>1, TokensMore
        <4> QED
          BY <1>2, <1>3, <4>1
      <3>2. Good(0)
        BY <3>1 DEF Windows
      <3> QED
        BY <2>1, <3>2
    <2>3. n \in 1..N /\ n - 1 \in 0..N /\ n \in 0..N /\ ~(n <= n - 1)
      BY <1>1, <2>1, <2>2
    <2> DEFINE f == F[n - 1]
               g == G[n - 1]
               h == Tokens(f)
               x == p[n]
               y == "by"
    <2>4. Windows(g, h, gone)
      BY <2>1, <2>3
    <2>5. f \in Seq(W) /\ g \in Seq(W) /\ h \in Seq(W) /\ x \in W /\ y \in W
      BY <1>1, <1>2, <1>3, <1>4, <2>3 DEF W, Words
    <2>6. G[n] = g \o Word(x) /\ F[n] = IF x \in T THEN Append(f, x) ELSE f
      BY <1>2, <1>3, <2>3
    <2>7. x \in T <=> x \notin gone
      BY <2>3 DEF N
    <2>8. x \in Claims => Word(x) = <<y, x>>
      BY DEF Word
    <2>9. ~Good(n)
      BY <2>1
    <2> HIDE DEF g, x, y, Bad
    <2>10. Tokens(Append(f, x)) = h \o Word(x)
      <3> HIDE DEF f
      <3> QED
        BY <2>5, TokensMore DEF W, h
    <2> HIDE DEF f, h
    <2>11. CASE x \in gone
      <3>1. G[n] = g \o <<y, x>> /\ F[n] = f
        BY <2>6, <2>7, <2>8, <2>11
      <3>2. Windows(g \o <<y, x>>, h, gone)
        BY <2>4, <2>5, <2>11, WindowsDropped
      <3> QED
        BY <2>9, <3>1, <3>2 DEF h
    <2>12. CASE x \notin gone
      <3> DEFINE w == Word(x)
      <3>1. w \in Seq(W) /\ w # << >>
        BY <2>5, WordType DEF W
      <3>2. G[n] = g \o w /\ Tokens(F[n]) = h \o w
        BY <2>6, <2>7, <2>10, <2>12
      <3> HIDE DEF w
      <3>3. Windows(g \o w, h \o w, gone)
        BY <2>4, <2>5, <3>1, WindowsKept
      <3> QED
        BY <2>9, <3>2, <3>3
    <2> QED
      BY <2>11, <2>12
  <1>6. Good(N) /\ N \in 0..N
    BY <1>1, <1>5
  <1> QED
    BY <1>2, <1>3, <1>4, <1>6 DEF W

(* A paragraph that has words has words for the validator.                 *)
LEMMA TokensFirst ==
    ASSUME NEW p \in Seq(Words), p # << >>
    PROVE  Len(Tokens(p)) \in Nat \ {0}
  <1> DEFINE N == Len(p)
             W == Words
  <1>1. N \in Nat \ {0} /\ N \in 1..N /\ N - 1 \in 0..N /\ p[N] \in W
    OBVIOUS
  <1>2. PICK G : /\ \A n \in 1..N : G[n] = G[n - 1] \o Word(p[n])
                 /\ \A n \in 0..N : G[n] \in Seq(W)
                 /\ Tokens(p) = G[N]
    BY TokensUpto, Zenon
  <1> DEFINE w == Word(p[N])
             f == G[N - 1]
  <1>3. w \in Seq(W) /\ w # << >>
    BY <1>1, WordType
  <1>4. f \in Seq(W) /\ Tokens(p) = f \o w
    BY <1>1, <1>2
  <1> HIDE DEF w, f, W, N
  <1> QED
    BY <1>3, <1>4

-----------------------------------------------------------------------------
(* What is read of words, and which of them are read as they are.          *)
LEMMA CleanedType ==
    ASSUME NEW h \in Seq(Words)
    PROVE  /\ Cleaned(h) = Concat([n \in 1..Len(h) |-> CleanedAt(h, n)])
           /\ [n \in 1..Len(h) |-> CleanedAt(h, n)] \in Seq(Seq(Words))
           /\ Len([n \in 1..Len(h) |-> CleanedAt(h, n)]) = Len(h)
           /\ Cleaned(h) \in Seq(Words)
  <1> DEFINE N == Len(h)
             W == Words
             V == Seq(W)
             seqs == [n \in 1..N |-> CleanedAt(h, n)]
  <1>1. N \in Nat /\ DOMAIN h = 1..N /\ \A n \in 1..N : h[n] \in W
    OBVIOUS
  <1>2. Cleaned(h) = Concat(seqs)
    BY <1>1, Zenon DEF Cleaned
  <1>3. ASSUME NEW n \in 1..N PROVE CleanedAt(h, n) \in V
    <2>1. h[n] \in DOMAIN Reread => Reread[h[n]] \in Seq(STRING)
      BY ReportAssumption
    <2>2. \A q \in Seq(STRING) : q \in V
      BY DEF Words
    <2>3. <<h[n]>> \in V /\ << >> \in V
      BY <1>1
    <2> QED
      BY <2>1, <2>2, <2>3 DEF CleanedAt
  <1>4. seqs \in [1..N -> V]
    BY <1>3
  <1> HIDE DEF seqs, V, W, N
  <1>5. seqs \in Seq(V) /\ Len(seqs) = N
    BY <1>1, <1>4, Sequenced
  <1>6. Concat(seqs) \in Seq(W)
    <2>1. seqs \in Seq(Seq(W))
      BY <1>5 DEF V
    <2> QED
      BY <2>1, ConcatType
  <1> QED
    BY <1>2, <1>5, <1>6 DEF seqs, V, W, N

LEMMA CleanedKeeps ==
    ASSUME NEW h \in Seq(Words), NEW a \in 1..Len(h), NEW b \in a..Len(h),
           \A k \in a..b : h[k] \notin DOMAIN Reread,
           a = 1 \/ h[a - 1] \notin DOMAIN Reread
    PROVE  InARow(h, a, b, Cleaned(h))
  <1> DEFINE seqs == [n \in 1..Len(h) |-> CleanedAt(h, n)]
  <1>1. /\ Cleaned(h) = Concat(seqs) /\ seqs \in Seq(Seq(Words)) /\ Len(h) = Len(seqs)
    BY CleanedType
  <1>2. ASSUME NEW k \in a..b PROVE seqs[k] = <<h[k]>>
    <2>1. k \in 1..Len(h) /\ Len(h) \in Nat
      OBVIOUS
    <2>2. k > 1 => h[k - 1] \notin DOMAIN Reread
      <3>1. k = a \/ k - 1 \in a..b
        OBVIOUS
      <3> QED
        BY <3>1
    <2>3. k > 1 => h[k - 1] \notin Swallowing
      BY <2>2, ReportAssumption
    <2>4. CleanedAt(h, k) = <<h[k]>>
      BY <2>3 DEF CleanedAt
    <2> QED
      BY <2>1, <2>4
  <1> HIDE DEF seqs
  <1>3. OneByOne(h, a, b, seqs)
    BY <1>2 DEF OneByOne
  <1>4. InARow(h, a, b, Concat(seqs))
    BY <1>1, <1>3, ConcatWindow
  <1> QED
    BY <1>1, <1>4

(* Where a paragraph is neither edited nor has markup.                     *)
Touched(p) == {k \in DOMAIN Tokens(p) : Tokens(p)[k] \in Removed \cup DOMAIN Reread}

(* Words in a row away from all such places are read again in a row.       *)
LEMMA WordsLeft ==
    ASSUME NEW p \in Seq(Words), Removed \subseteq Claims,
           NEW a \in 1..Len(Tokens(p)), NEW b \in a..Len(Tokens(p)),
           Touched(p) \cap (a - 1..b + 1) = {}
    PROVE  LET g == Tokens(p)
               t == Cleaned(Tokens(Revised(p)))
           IN  t \in Seq(Words) /\ g \in Seq(Words) /\ InARow(g, a, b, t)
  <1> DEFINE T == Range(p) \ Removed
             g == Tokens(p)
             h == Tokens(Sift(p, T))
             t == Cleaned(h)
             W == Words
  <1>1. \A n \in 1..Len(p) : p[n] \in T <=> p[n] \notin Removed
    BY DEF Range
  <1> HIDE DEF T
  <1>2. Windows(g, h, Removed) /\ g \in Seq(W) /\ h \in Seq(W)
    BY <1>1, WindowsLeft
  <1>3. \A k \in a - 1..b + 1 : k \in 1..Len(g) => g[k] \notin Removed \cup DOMAIN Reread
    <2>1. DOMAIN g = 1..Len(g)
      BY <1>2
    <2> QED
      BY <2>1 DEF Touched
  <1>4. a \in 1..Len(g) /\ b \in a..Len(g)
    OBVIOUS
  <1>5. t \in Seq(W)
    BY <1>2, CleanedType
  <1> HIDE DEF g, h, W
  <1>6. Len(g) \in Nat /\ Len(h) \in Nat /\ a \in Nat /\ b \in 1..Len(g) /\ a <= b
    BY <1>2, <1>4
  <1> DEFINE Here(d) == /\ d \in 1..Len(h) /\ d + (b - a) \in d..Len(h)
                        /\ \A j \in 0..b - a : h[d + j] = g[a + j]
                        /\ d = 1 \/ h[d - 1] \notin DOMAIN Reread
  <1>7. \E d : Here(d)
    <2>1. CASE a = 1
      <3>1. Free(g, Removed, a, b)
        BY <1>3, <1>6, <2>1 DEF Free
      <3>2. PICK c \in Nat \ {0} : KeptAt(g, h, a, b, c)
        BY <1>2, <1>4, <1>6, <3>1 DEF Windows
      <3>3. /\ c = 1 /\ c + (b - a) <= Len(h)
            /\ \A j \in 0..b - a : h[c + j] = g[a + j]
        BY <2>1, <3>2 DEF KeptAt
      <3>4. c \in 1..Len(h) /\ c + (b - a) \in c..Len(h)
        BY <1>6, <3>3
      <3>5. Here(c)
        BY <3>3, <3>4
      <3> QED
        BY <3>5
    <2>2. CASE a # 1
      <3> DEFINE e == a - 1
      <3>0. e \in 1..Len(g) /\ e <= b /\ a = e + 1 /\ e \in Nat
        BY <1>4, <1>6, <2>2
      <3>1. Free(g, Removed, e, b)
        BY <1>3, <1>6, <3>0 DEF Free
      <3>2. PICK c \in Nat \ {0} : KeptAt(g, h, e, b, c)
        BY <1>2, <1>6, <3>0, <3>1 DEF Windows
      <3>3. /\ c + (b - e) <= Len(h)
            /\ \A j \in 0..b - e : h[c + j] = g[e + j]
        BY <3>2 DEF KeptAt
      <3>4. g[e] \notin DOMAIN Reread
        BY <1>3, <1>6, <3>0
      <3>5. h[c] = g[e]
        <4>1. 0 \in 0..b - e /\ c + 0 = c /\ e + 0 = e
          BY <1>6, <3>0
        <4> QED
          BY <3>3, <4>1
      <3> HIDE DEF e
      <3> DEFINE d == c + 1
      <3>6. d - 1 = c /\ d \in 1..Len(h) /\ d + (b - a) \in d..Len(h)
        BY <1>6, <3>0, <3>3
      <3>7. ASSUME NEW j \in 0..b - a PROVE h[d + j] = g[a + j]
        <4>1. j + 1 \in 0..b - e /\ d + j = c + (j + 1) /\ a + j = e + (j + 1)
          BY <1>6, <3>0
        <4> HIDE DEF d
        <4> QED
          BY <3>3, <4>1
      <3> HIDE DEF d
      <3>8. Here(d)
        BY <3>4, <3>5, <3>6, <3>7
      <3> QED
        BY <3>8
    <2> QED
      BY <2>1, <2>2
  <1>8. PICK d : Here(d)
    BY <1>7
  <1>9. ASSUME NEW k \in d..d + (b - a) PROVE h[k] \notin DOMAIN Reread
    <2> DEFINE j == k - d
    <2>1. d \in Nat /\ j \in 0..b - a /\ k = d + j
      BY <1>6, <1>8
    <2>2. a + j \in a - 1..b + 1 /\ a + j \in 1..Len(g)
      BY <1>4, <1>6, <2>1
    <2> HIDE DEF j
    <2> QED
      BY <1>3, <1>8, <2>1, <2>2
  <1> DEFINE f == d + (b - a)
  <1>10. f - d = b - a /\ f \in d..Len(h) /\ d \in 1..Len(h)
    BY <1>6, <1>8
  <1>11. \A k \in d..f : h[k] \notin DOMAIN Reread
    BY <1>9
  <1> HIDE DEF f
  <1>12. PICK c \in Nat \ {0} : /\ c + (f - d) <= Len(t)
                              /\ \A j \in 0..f - d : t[c + j] = h[d + j]
    <2>1. InARow(h, d, f, t)
      BY <1>2, <1>8, <1>10, <1>11, CleanedKeeps DEF W
    <2> QED
      BY <2>1 DEF InARow
  <1>13. c + (b - a) <= Len(t) /\ \A j \in 0..b - a : t[c + j] = g[a + j]
    BY <1>8, <1>10, <1>12
  <1> HIDE DEF t
  <1>14. InARow(g, a, b, t)
    BY <1>13 DEF InARow
  <1>15. t = Cleaned(Tokens(Revised(p)))
    BY DEF t, h, T, Revised
  <1> QED
    BY <1>2, <1>5, <1>14, <1>15 DEF g, W

-----------------------------------------------------------------------------
(* What is read of a line, if anything, is one paragraph.                  *)
LEMMA ReadAgainType ==
    ASSUME NEW q \in Seq(Words)
    PROVE  /\ ReadAgain(q) \in Seq(Seq(Words))
           /\ q[1] \notin Structural \cup Comments /\ Cleaned(Tokens(q)) # << >>
                 => ReadAgain(q) = <<Cleaned(Tokens(q))>>
  <1> DEFINE V == Seq(Words)
             words == Cleaned(Tokens(q))
  <1>1. "by" \in Words
    BY DEF Words
  <1>2. Tokens(q) \in Seq(Words)
    BY <1>1, TokensMore
  <1>3. words \in V
    BY <1>2, CleanedType
  <1>4. ReadAgain(q) = IF q[1] \in Structural \cup Comments \/ words = << >> THEN << >>
                       ELSE <<words>>
    BY Zenon DEF ReadAgain
  <1> HIDE DEF V, words
  <1>5. << >> \in Seq(V) /\ <<words>> \in Seq(V)
    BY <1>3
  <1> QED
    BY <1>4, <1>5 DEF V, words

(* A paragraph of the revised document is read again unless it begins with *)
(* a command or a comment.                                                 *)
LEMMA RereadHas ==
    ASSUME Traced, Shown, NEW n \in DOMAIN document.paragraphs
    PROVE  LET p == document.paragraphs[n]
               t == Cleaned(Tokens(Revised(p)))
           IN  /\ p \in Seq(Words) /\ p # << >> /\ Removed \subseteq Claims
               /\ p[1] \notin Structural \cup Comments /\ t # << >> => t \in Range(Reparsed)
  <1> DEFINE ps == document.paragraphs
             p == ps[n]
             W == Words
             V == Seq(W)
             N == Len(ps)
  <1>1. Removed \subseteq Claims
    BY DEF Traced, Removed
  <1>2. ps \in Seq(V) /\ \A q \in Range(ps) : q # << >> /\ q[1] \notin Claims
    <2>1. ps \in Seq(Seq(STRING)) /\ \A q \in Range(ps) : q # << >> /\ q[1] \notin Claims
      BY DocumentsAssumption DEF Shown
    <2>2. \A q \in Seq(STRING) : q \in V
      BY DEF Words
    <2>3. ps \in Seq(V)
      <3> HIDE DEF ps, V
      <3> QED
        BY <2>1, <2>2
    <2> QED
      BY <2>1, <2>3
  <1>3. n \in DOMAIN ps
    OBVIOUS
  <1> DEFINE read == [m \in DOMAIN ps |-> ReadAgain(Revised(ps[m]))]
  <1>4. Reparsed = Concat(read)
    BY Zenon DEF Reparsed
  <1> HIDE DEF ps, V
  <1>5. DOMAIN ps = 1..N /\ N \in Nat /\ \A m \in 1..N : ps[m] \in V /\ ps[m] \in Range(ps)
    BY <1>2, SeqRange
  <1>6. p \in V /\ p # << >> /\ p[1] \notin Claims
    BY <1>2, <1>3, <1>5
  <1>7. \A m \in 1..N : Revised(ps[m]) \in V
    <2> SUFFICES ASSUME NEW m \in 1..N PROVE Revised(ps[m]) \in V
      OBVIOUS
    <2> DEFINE q == ps[m]
               T == Range(q) \ Removed
    <2>1. q \in Seq(W)
      BY <1>5 DEF V
    <2> HIDE DEF q, W, T
    <2>2. Sift(q, T) \in Seq(W)
      BY <2>1, SiftRange
    <2> QED
      BY <2>2 DEF V, q, T, Revised
  <1>8. \A m \in 1..N : ReadAgain(Revised(ps[m])) \in Seq(V)
    BY <1>7, ReadAgainType DEF V
  <1>9. read \in Seq(Seq(V)) /\ Len(read) = N
    <2> DEFINE Q == Seq(V)
    <2>1. read \in [1..N -> Q]
      BY <1>5, <1>8
    <2> HIDE DEF read, Q
    <2>2. read \in Seq(Q) /\ Len(read) = N
      BY <1>5, <2>1, Sequenced
    <2> QED
      BY <2>2 DEF Q
  <1>10. Revised(p)[1] = p[1]
    <2> DEFINE T == Range(p) \ Removed
    <2>0. p \in Seq(W) /\ p # << >>
      BY <1>6 DEF V
    <2> HIDE DEF p, W
    <2>1. p[1] \in T
      <3>1. p[1] \in Range(p)
        BY <2>0 DEF Range
      <3>2. p[1] \notin Removed
        BY <1>1, <1>6
      <3> QED
        BY <3>1, <3>2
    <2> HIDE DEF T
    <2>2. Sift(p, T)[1] = p[1]
      BY <2>0, <2>1, SiftFirst
    <2> QED
      BY <2>2 DEF Revised, T
  <1> DEFINE q == Revised(p)
             t == Cleaned(Tokens(q))
  <1>11. ASSUME p[1] \notin Structural \cup Comments, t # << >> PROVE t \in Range(Reparsed)
    <2>1. q \in Seq(Words) /\ q[1] \notin Structural \cup Comments
      BY <1>3, <1>5, <1>7, <1>10, <1>11 DEF V
    <2>2. ReadAgain(q) = <<t>>
      <3> HIDE DEF q
      <3> QED
        BY <1>11, <2>1, ReadAgainType
    <2>3. n \in 1..N /\ read[n] = <<t>>
      BY <1>3, <1>5, <2>2
    <2> HIDE DEF t, read, q
    <2>4. t \in Range(read[n])
      <3>1. <<t>>[1] = t /\ 1 \in DOMAIN <<t>>
        OBVIOUS
      <3> QED
        BY <2>3, <3>1 DEF Range
    <2>5. Range(Concat(read)) = UNION {Range(read[m]) : m \in 1..Len(read)}
      BY <1>9, ConcatRange
    <2> QED
      BY <1>4, <1>9, <2>3, <2>4, <2>5
  <1> QED
    BY <1>1, <1>6, <1>11 DEF ps, V

(* So a paragraph with NGRAM words in a row away from edits and markup, or *)
(* with neither, overlaps with what is read of it.                         *)
LEMMA GramLeft ==
    ASSUME NEW p \in Seq(Words), Removed \subseteq Claims,
           NEW i \in 1..Len(Tokens(p)) + 1 - NGRAM,
           Touched(p) \cap (i - 1..i + NGRAM) = {}
    PROVE  LET t == Cleaned(Tokens(Revised(p)))
           IN  /\ t # << >> /\ ~(Len(Tokens(p)) < NGRAM)
               /\ Grams(Tokens(p)) \cap Grams(t) # {}
  <1> DEFINE g == Tokens(p)
             t == Cleaned(Tokens(Revised(p)))
             W == Words
             b == i + NGRAM - 1
  <1>0. g \in Seq(W)
    <2>1. "by" \in W
      BY DEF Words
    <2> QED
      BY <2>1, TokensMore
  <1>2. NGRAM \in Nat /\ NGRAM >= 1
    BY ReportAssumption
  <1>3. i \in 1..Len(g) + 1 - NGRAM
    OBVIOUS
  <1>4. /\ Len(g) \in Nat /\ i \in 1..Len(g) /\ b \in i..Len(g)
        /\ b + 1 = i + NGRAM /\ b - i = NGRAM - 1 /\ ~(Len(g) < NGRAM)
    <2> HIDE DEF g, W
    <2> QED
      BY <1>0, <1>2, <1>3
  <1>5. Touched(p) \cap (i - 1..b + 1) = {}
    BY <1>4
  <1> HIDE DEF b
  <1>1. t \in Seq(W) /\ InARow(g, i, b, t)
    BY <1>4, <1>5, WordsLeft
  <1>6. PICK c \in Nat \ {0} : /\ c + (NGRAM - 1) <= Len(t)
                             /\ \A j \in 0..NGRAM - 1 : t[c + j] = g[i + j]
    BY <1>1, <1>4 DEF InARow
  <1> HIDE DEF g, t, W
  <1> DEFINE s == SubSeq(g, i, i + NGRAM - 1)
             u == SubSeq(t, c, c + NGRAM - 1)
  <1>7. Len(t) \in Nat /\ Len(t) >= 1
    BY <1>1, <1>2, <1>6
  <1>8. /\ s \in Seq(W) /\ Len(s) = NGRAM /\ \A j \in 1..NGRAM : s[j] = g[i + (j - 1)]
    BY <1>0, <1>2, <1>3, <1>4
  <1>9. /\ u \in Seq(W) /\ Len(u) = NGRAM /\ \A j \in 1..NGRAM : u[j] = t[c + (j - 1)]
    <2> DEFINE d == c + NGRAM - 1
    <2>1. c \in 1..Len(t) /\ d \in c..Len(t) /\ d - c + 1 = NGRAM
      BY <1>2, <1>6, <1>7
    <2> HIDE DEF d
    <2>2. /\ SubSeq(t, c, d) \in Seq(W) /\ Len(SubSeq(t, c, d)) = d - c + 1
          /\ \A j \in 1..d - c + 1 : SubSeq(t, c, d)[j] = t[c + (j - 1)]
      BY <1>1, <2>1, Between
    <2> QED
      BY <2>1, <2>2 DEF d
  <1>10. s \in Grams(g) /\ u \in Grams(t)
    <2>1. c \in 1..Len(t) + 1 - NGRAM
      BY <1>2, <1>6, <1>7
    <2> QED
      BY <1>3, <2>1 DEF Grams
  <1> HIDE DEF s, u
  <1>11. s = u
    <2>1. ASSUME NEW j \in 1..NGRAM PROVE s[j] = u[j]
      <3>1. j - 1 \in 0..NGRAM - 1
        BY <1>2
      <3> QED
        BY <1>6, <1>8, <1>9, <3>1
    <2> QED
      BY <1>8, <1>9, <2>1
  <1>12. t # << >>
    BY <1>7
  <1> QED
    BY <1>4, <1>10, <1>11, <1>12 DEF g, t

LEMMA ShortLeft ==
    ASSUME NEW p \in Seq(Words), p # << >>, Removed \subseteq Claims, Touched(p) = {}
    PROVE  LET t == Cleaned(Tokens(Revised(p)))
           IN  t # << >> /\ Range(Tokens(p)) \subseteq Range(t)
  <1> DEFINE g == Tokens(p)
             t == Cleaned(Tokens(Revised(p)))
             N == Len(g)
  <1>1. N \in Nat \ {0} /\ 1 \in 1..N /\ N \in 1..N
    BY TokensFirst
  <1>2. Touched(p) \cap (1 - 1..N + 1) = {}
    OBVIOUS
  <1>3. t \in Seq(Words) /\ g \in Seq(Words) /\ InARow(g, 1, N, t)
    BY <1>1, <1>2, WordsLeft
  <1>4. PICK c \in Nat \ {0} : /\ c + (N - 1) <= Len(t)
                             /\ \A j \in 0..N - 1 : t[c + j] = g[1 + j]
    BY <1>3 DEF InARow
  <1>d. N = Len(g)
    OBVIOUS
  <1> HIDE DEF g, t, N
  <1>5. /\ Len(t) \in Nat /\ DOMAIN t = 1..Len(t) /\ DOMAIN g = 1..N
    BY <1>3, <1>d
  <1>6. ASSUME NEW k \in 1..N PROVE g[k] \in Range(t)
    <2>1. k - 1 \in 0..N - 1 /\ 1 + (k - 1) = k /\ c + (k - 1) \in 1..Len(t)
      BY <1>1, <1>4, <1>5
    <2>2. t[c + (k - 1)] = g[k]
      BY <1>4, <2>1
    <2> QED
      BY <1>5, <2>1, <2>2 DEF Range
  <1>7. Range(g) \subseteq Range(t)
    BY <1>5, <1>6 DEF Range
  <1>8. t # << >>
    BY <1>1, <1>4, <1>5
  <1> QED
    BY <1>7, <1>8 DEF g, t

(* Validation raises no alarm over a paragraph for being rendered and      *)
(* parsed again, in documents of any length and for windows of any size:   *)
(* an edit or markup is in it, everywhere (renderer/latex.rs).             *)
THEOREM NeverFalseAlarm == ReportSpec => []NoFalseAlarm
  <1>1. Traced /\ Shown => NoFalseAlarm
    <2> SUFFICES ASSUME Traced, Shown, phase = "reported", NEW n \in report.issues,
                        document.paragraphs[n][1] \notin Structural \cup Comments
                 PROVE  LET p == document.paragraphs[n]
                            words == Tokens(p)
                            touched == Touched(p)
                        IN
                        /\ touched # {}
                        /\ \A i \in 1..Len(words) + 1 - NGRAM :
                              touched \cap (i - 1..i + NGRAM) # {}
      BY Zenon DEF NoFalseAlarm, Touched
    <2> DEFINE p == document.paragraphs[n]
               words == Tokens(p)
               t == Cleaned(Tokens(Revised(p)))
    <2>1. n \in DOMAIN document.paragraphs /\ ~Overlaps(p, Reparsed)
      <3>1. report.issues = Missed
        BY DEF Shown, Told
      <3> QED
        BY <3>1 DEF Missed
    <2>2. /\ p \in Seq(Words) /\ p # << >> /\ Removed \subseteq Claims
          /\ t # << >> => t \in Range(Reparsed)
      BY <2>1, RereadHas
    <2> HIDE DEF p
    <2>3. t # << >> => /\ Len(words) < NGRAM => ~(Range(words) \subseteq Range(t))
                       /\ ~(Len(words) < NGRAM) => Grams(words) \cap Grams(t) = {}
      BY <2>1, <2>2, Zenon DEF Overlaps
    <2>4. ASSUME NEW i \in 1..Len(words) + 1 - NGRAM
          PROVE  Touched(p) \cap (i - 1..i + NGRAM) # {}
      <3> HIDE DEF t
      <3> QED
        BY <2>2, <2>3, GramLeft DEF t
    <2>5. Touched(p) # {}
      <3> SUFFICES ASSUME Touched(p) = {} PROVE FALSE
        OBVIOUS
      <3>1. t # << >> /\ Range(words) \subseteq Range(t)
        BY <2>2, ShortLeft
      <3>2. ~(Len(words) < NGRAM)
        BY <2>3, <3>1
      <3>3. NGRAM \in Nat /\ NGRAM >= 1 /\ Len(words) \in Nat
        BY <2>2, ReportAssumption, TokensFirst
      <3> HIDE DEF words
      <3>4. 1 \in 1..Len(words) + 1 - NGRAM
        BY <3>2, <3>3
      <3> QED
        BY <2>4, <3>4
    <2> QED
      BY <2>4, <2>5 DEF p
  <1> QED
    BY <1>1, TracedAlways, ShownAlways, PTL
=============================================================================
