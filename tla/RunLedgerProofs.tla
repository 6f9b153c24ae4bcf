-------------------------- MODULE RunLedgerProofs --------------------------
(***************************************************************************)
(* Proofs about RunLedger and LedgerViews for any number of reviews,       *)
(* whether they overlap or not, and wherever they fail: types; that ids    *)
(* grow from each answered review to every later one; that a saved record  *)
(* is changed by overlapping reviews only; that a review reads the bytes   *)
(* it was submitted with, and what it writes stays, unless an overlapping  *)
(* one uses the same file name or the same id; and that every view opened  *)
(* since shows it.                                                         *)
(*                                                                         *)
(* The argument: a run file, once there, stays listed; the id of an        *)
(* answered review is listed, so whoever chooses an id later chooses a     *)
(* greater one.  A record under an id is that of an answered review, and   *)
(* whoever writes the same file has the same id: it did not choose it      *)
(* after that review was answered, so it ran while that review did.        *)
(***************************************************************************)
EXTENDS LedgerViews, SequencingProofs

(* A run file is there only once the review with that id has saved it.     *)
RecordsOK ==
    /\ \A q \in Answered : Listed(id[q])
    /\ \A n \in RunIds, q \in Reviews : disk[RunFile(n)] = q => q \in Answered /\ id[q] = n

(* What the histories record of the order of the reviews.                  *)
HistoriesOK ==
    /\ \A r \in Reviews : before[r] \subseteq Answered
    /\ \A q, r \in InProgress : q # r => r \in peers[q]
    /\ \A q \in Answered, r \in Reviews :
          pc[r] \in {"parse", "artifacts", "save"} => r \in peers[q] \/ q \in before[r]

IInv == TypeOK /\ RecordsOK /\ HistoriesOK /\ LaterRunsGetLaterIds

LEMMA InitIInv == Init => IInv
  BY LedgerAssumption
  DEF Init, IInv, TypeOK, RecordsOK, HistoriesOK, LaterRunsGetLaterIds, Answered, InProgress,
      Running, Contents, Files

(* The file a review writes, and when it is a run file.                    *)
LEMMA TargetFile ==
    ASSUME TypeOK, NEW r \in Reviews, pc[r] \in {"upload", "artifacts", "save"}
    PROVE  /\ Target(r) \in Files
           /\ \A n \in RunIds : Target(r) = RunFile(n) <=> pc[r] = "save" /\ id[r] = n
  <1> USE LedgerAssumption DEF TypeOK, Target, Files, Manuscript, Artifact, RunFile, ArtifactNames
  <1>1. CASE pc[r] = "upload"
    BY <1>1
  <1>2. CASE pc[r] = "artifacts"
    BY <1>2
  <1>3. CASE pc[r] = "save"
    BY <1>3
  <1> QED
    BY <1>1, <1>2, <1>3

LEMMA StepTypeOK == TypeOK /\ [Next]_vars => TypeOK'
  <1> SUFFICES ASSUME TypeOK, [Next]_vars PROVE TypeOK'
    OBVIOUS
  <1> USE LedgerAssumption
  <1>1. ASSUME NEW r \in Reviews, Submit(r) PROVE TypeOK'
    BY <1>1 DEF TypeOK, Submit, InProgress, Running
  <1>2. ASSUME NEW r \in Reviews, OpenFile(r) PROVE TypeOK'
    <2>1. Target(r) \in Files
      BY <1>2, TargetFile DEF OpenFile
    <2> QED
      BY <1>2, <2>1 DEF TypeOK, OpenFile, Contents
  <1>3. ASSUME NEW r \in Reviews, CloseFile(r) PROVE TypeOK'
    <2>1. pc[r] \in {"upload", "artifacts", "save"}
      BY <1>3 DEF CloseFile, TypeOK
    <2>2. disk' \in [Files -> Contents]
      <3>1. PICK c \in Contents : disk' = [disk EXCEPT ![Target(r)] = c]
        BY <1>3 DEF CloseFile, Contents
      <3> HIDE DEF Target
      <3> QED
        BY <3>1 DEF TypeOK
    <2>3. /\ AfterWrite(r) \in {"allocate", "artifacts", "save", "answered"}
          /\ AfterWrite(r) = "artifacts" => next[r] + 1 \in 1..Len(ArtifactFiles)
          /\ AfterWrite(r) # "allocate" => id[r] \in RunIds
      BY <2>1 DEF AfterWrite, TypeOK
    <2>4. overlaid' \in [Reviews -> BOOLEAN]
      <3> HIDE DEF Target
      <3> QED
        BY <1>3 DEF CloseFile
    <2> HIDE DEF AfterWrite
    <2>5. next' \in [Reviews -> 1..Len(ArtifactFiles)]
      BY <1>3, <2>3 DEF CloseFile, TypeOK
    <2>6. /\ pc' = [pc EXCEPT ![r] = AfterWrite(r)]
          /\ writing' = [writing EXCEPT ![r] = FALSE]
          /\ UNCHANGED <<id, input, before, peers>>
      BY <1>3 DEF CloseFile
    <2> QED
      BY <2>2, <2>3, <2>4, <2>5, <2>6 DEF TypeOK, Running
  <1>4. ASSUME NEW r \in Reviews, Allocate(r) PROVE TypeOK'
    BY <1>4 DEF TypeOK, Allocate, Answered, Running
  <1>5. ASSUME NEW r \in Reviews, Parse(r) PROVE TypeOK'
    BY <1>5 DEF TypeOK, Parse, Files, Contents, Running
  <1>6. ASSUME NEW r \in Reviews, Fail(r) PROVE TypeOK'
    BY <1>6 DEF TypeOK, Fail
  <1>7. CASE UNCHANGED vars
    BY <1>7 DEF TypeOK, vars
  <1> QED
    BY <1>1, <1>2, <1>3, <1>4, <1>5, <1>6, <1>7 DEF Next

(* Types hold in every behaviour.                                          *)
THEOREM LedgerTypeCorrect == Spec => []TypeOK
  <1>1. Init => TypeOK
    BY InitIInv DEF IInv
  <1> QED
    BY <1>1, StepTypeOK, PTL DEF Spec

-----------------------------------------------------------------------------
(* A run file changes only by a review with that id that saves its record, *)
(* which truncates it or puts its own record there.                        *)
LEMMA RunFileChange ==
    ASSUME TypeOK, [Next]_vars, NEW n \in RunIds, disk'[RunFile(n)] # disk[RunFile(n)]
    PROVE  \E r \in Reviews :
              /\ pc[r] = "save" /\ id[r] = n
              /\ \/ OpenFile(r) /\ disk'[RunFile(n)] = Torn
                 \/ CloseFile(r) /\ disk'[RunFile(n)] \in {r, Torn}
  <1> RunFile(n) \in Files
    BY DEF Files
  <1>1. ASSUME NEW r \in Reviews, OpenFile(r)
        PROVE  pc[r] = "save" /\ id[r] = n /\ disk'[RunFile(n)] = Torn
    <2>1. pc[r] \in {"upload", "artifacts", "save"} /\ disk' = [disk EXCEPT ![Target(r)] = Torn]
      BY <1>1 DEF OpenFile
    <2>2. Target(r) = RunFile(n)
      <3> HIDE DEF Target, RunFile
      <3> QED
        BY <2>1 DEF TypeOK
    <2>3. pc[r] = "save" /\ id[r] = n
      BY <2>1, <2>2, TargetFile
    <2> HIDE DEF Target, RunFile
    <2> QED
      BY <2>1, <2>2, <2>3 DEF TypeOK
  <1>2. ASSUME NEW r \in Reviews, CloseFile(r)
        PROVE  pc[r] = "save" /\ id[r] = n /\ disk'[RunFile(n)] \in {r, Torn}
    <2>1. pc[r] \in {"upload", "artifacts", "save"}
      BY <1>2 DEF CloseFile, TypeOK
    <2>2. PICK c \in {r, Torn} : disk' = [disk EXCEPT ![Target(r)] = c]
      BY <1>2 DEF CloseFile
    <2>3. Target(r) = RunFile(n)
      <3> HIDE DEF Target, RunFile
      <3> QED
        BY <2>2 DEF TypeOK
    <2>4. pc[r] = "save" /\ id[r] = n
      BY <2>1, <2>3, TargetFile
    <2> HIDE DEF Target, RunFile
    <2> QED
      BY <2>2, <2>3, <2>4 DEF TypeOK
  <1>3. \E r \in Reviews : OpenFile(r) \/ CloseFile(r)
    BY DEF Next, Submit, Allocate, Parse, Fail, vars
  <1> QED
    BY <1>1, <1>2, <1>3

(* What no step takes away: a run file, an answer, the id of a review that *)
(* has one.                                                                *)
LEMMA Stays ==
    ASSUME TypeOK, [Next]_vars
    PROVE  /\ \A n \in RunIds : Listed(n) => Listed(n)'
           /\ Answered \subseteq Answered'
           /\ \A r \in Reviews : pc[r] \in {"parse", "artifacts", "save", "answered"}
                                    => id'[r] = id[r]
  <1>1. \A n \in RunIds : Listed(n) => Listed(n)'
    <2> SUFFICES ASSUME NEW n \in RunIds, Listed(n), disk'[RunFile(n)] = Missing PROVE FALSE
      BY DEF Listed, RunFile
    <2>1. disk'[RunFile(n)] # disk[RunFile(n)]
      BY DEF Listed
    <2>2. \E r \in Reviews : disk'[RunFile(n)] \in {r, Torn}
      BY <2>1, RunFileChange
    <2> QED
      BY <2>2, LedgerAssumption DEF Missing, Torn
  <1>2. Answered \subseteq Answered'
    <2> SUFFICES ASSUME NEW q \in Reviews, pc[q] = "answered" PROVE pc'[q] = "answered"
      BY DEF Answered
    <2>1. ASSUME NEW r \in Reviews, Submit(r) \/ Allocate(r) \/ Parse(r) PROVE pc'[q] = pc[q]
      BY <2>1 DEF Submit, Allocate, Parse, TypeOK
    <2>2. ASSUME NEW r \in Reviews, CloseFile(r) PROVE pc'[q] = pc[q]
      <3>1. r # q
        BY <2>2 DEF CloseFile, TypeOK
      <3> QED
        BY <2>2, <3>1 DEF CloseFile, TypeOK
    <2>3. ASSUME NEW r \in Reviews, OpenFile(r) PROVE pc'[q] = pc[q]
      BY <2>3 DEF OpenFile
    <2>4. ASSUME NEW r \in Reviews, Fail(r) PROVE pc'[q] = pc[q]
      BY <2>4 DEF Fail, InProgress, Running, TypeOK
    <2>5. ASSUME UNCHANGED vars PROVE pc'[q] = pc[q]
      BY <2>5 DEF vars
    <2> QED
      BY <2>1, <2>2, <2>3, <2>4, <2>5 DEF Next
  <1>3. \A r \in Reviews : pc[r] \in {"parse", "artifacts", "save", "answered"}
                            => id'[r] = id[r]
    BY DEF TypeOK, Next, vars, Submit, OpenFile, CloseFile, Allocate, Parse, Fail
  <1> QED
    BY <1>1, <1>2, <1>3

(* Only saving its record answers a review.                                *)
LEMMA Answering ==
    ASSUME TypeOK, [Next]_vars, NEW q \in Reviews, pc[q] # "answered", pc'[q] = "answered"
    PROVE  CloseFile(q) /\ pc[q] = "save"
  <1>1. ASSUME NEW r \in Reviews, CloseFile(r) PROVE CloseFile(q) /\ pc[q] = "save"
    <2>1. r = q
      BY <1>1 DEF CloseFile, TypeOK
    <2>2. pc'[q] = AfterWrite(q) /\ pc[q] \in {"upload", "artifacts", "save"}
      BY <1>1, <2>1 DEF CloseFile, TypeOK
    <2> QED
      BY <1>1, <2>1, <2>2 DEF AfterWrite
  <1>2. \E r \in Reviews : CloseFile(r)
    BY DEF TypeOK, Next, vars, Submit, OpenFile, Allocate, Parse, Fail
  <1> QED
    BY <1>1, <1>2

LEMMA StepRecordsOK == IInv /\ [Next]_vars => RecordsOK'
  <1> SUFFICES ASSUME IInv, [Next]_vars PROVE RecordsOK'
    OBVIOUS
  <1> USE DEF IInv
  <1>1. ASSUME NEW q \in Answered' PROVE Listed(id[q])'
    <2>1. CASE q \in Answered
      <3>1. id'[q] = id[q] /\ id[q] \in RunIds /\ Listed(id[q])
        BY <2>1, Stays DEF Answered, RecordsOK, TypeOK
      <3> QED
        BY <3>1, Stays DEF Listed, RunFile
    <2>2. CASE q \notin Answered
      <3>1. CloseFile(q) /\ pc[q] = "save" /\ q \in Reviews
        BY <1>1, <2>2, Answering DEF Answered
      <3>2. id'[q] = id[q] /\ id[q] \in RunIds
        BY <3>1, Stays DEF TypeOK
      <3>3. Target(q) = RunFile(id[q]) /\ Target(q) \in Files
        BY <3>1, <3>2, TargetFile
      <3>4. disk'[RunFile(id[q])] \in {q, Torn}
        <4>1. PICK c \in {q, Torn} : disk' = [disk EXCEPT ![Target(q)] = c]
          BY <3>1 DEF CloseFile
        <4> HIDE DEF Target, RunFile
        <4> QED
          BY <4>1, <3>3 DEF TypeOK
      <3> QED
        BY <3>1, <3>2, <3>4, LedgerAssumption DEF Listed, RunFile, Missing, Torn
    <2> QED
      BY <2>1, <2>2
  <1>2. ASSUME NEW n \in RunIds, NEW q \in Reviews, disk'[RunFile(n)] = q
        PROVE  q \in Answered' /\ id'[q] = n
    <2>1. CASE disk'[RunFile(n)] = disk[RunFile(n)]
      <3>1. q \in Answered /\ id[q] = n
        BY <1>2, <2>1 DEF RecordsOK
      <3> QED
        BY <3>1, Stays DEF Answered
    <2>2. CASE disk'[RunFile(n)] # disk[RunFile(n)]
      <3>1. PICK r \in Reviews : /\ pc[r] = "save" /\ id[r] = n
                                 /\ \/ disk'[RunFile(n)] = Torn
                                    \/ CloseFile(r) /\ disk'[RunFile(n)] \in {r, Torn}
        BY <2>2, RunFileChange
      <3>2. q = r /\ CloseFile(r)
        BY <3>1, <1>2, LedgerAssumption
      <3>3. pc'[r] = "answered" /\ id'[r] = n
        BY <3>1, <3>2 DEF CloseFile, AfterWrite, TypeOK
      <3> QED
        BY <3>2, <3>3 DEF Answered
    <2> QED
      BY <2>1, <2>2
  <1> QED
    BY <1>1, <1>2 DEF RecordsOK, RunFile

LEMMA StepHistoriesOK == IInv /\ [Next]_vars => HistoriesOK'
  <1> SUFFICES ASSUME IInv, [Next]_vars PROVE HistoriesOK'
    OBVIOUS
  <1> USE DEF IInv
  <1>1. ASSUME NEW r \in Reviews PROVE before'[r] \subseteq Answered'
    <2>1. before'[r] \subseteq Answered
      <3>1. ASSUME NEW s \in Reviews, Allocate(s) PROVE before'[r] \subseteq Answered
        BY <3>1 DEF HistoriesOK, TypeOK, Allocate
      <3>2. CASE UNCHANGED before
        BY <3>2 DEF HistoriesOK
      <3>3. (\E s \in Reviews : Allocate(s)) \/ UNCHANGED before
        BY DEF Next, vars, Submit, OpenFile, CloseFile, Parse, Fail
      <3> QED
        BY <3>1, <3>2, <3>3
    <2> QED
      BY <2>1, Stays
  <1>2. ASSUME NEW q \in InProgress', NEW r \in InProgress', q # r PROVE r \in peers'[q]
    <2>1. ASSUME NEW s \in Reviews, Submit(s) PROVE r \in peers'[q]
      BY <2>1, <1>2 DEF Submit, InProgress, HistoriesOK, TypeOK
    <2>2. CASE ~\E s \in Reviews : Submit(s)
      <3>1. InProgress' \subseteq InProgress /\ peers' = peers
        BY <2>2 DEF InProgress, Running, TypeOK, Next, vars, OpenFile, CloseFile, Allocate, Parse,
                    Fail, AfterWrite
      <3> QED
        BY <3>1, <1>2 DEF HistoriesOK
    <2> QED
      BY <2>1, <2>2
  <1>3. ASSUME NEW q \in Answered', NEW r \in Reviews, pc'[r] \in {"parse", "artifacts", "save"}
        PROVE  r \in peers'[q] \/ q \in before'[r]
    <2>1. peers[q] \subseteq peers'[q]
      <3>1. ASSUME NEW s \in Reviews, Submit(s) PROVE peers[q] \subseteq peers'[q]
        <4>1. q # s /\ q \in Reviews
          BY <1>3, <3>1 DEF Submit, Answered, TypeOK
        <4>2. peers'[q] = IF q \in InProgress THEN peers[q] \cup {s} ELSE peers[q]
          BY <3>1, <4>1 DEF Submit
        <4> QED
          BY <4>2
      <3>2. CASE ~\E s \in Reviews : Submit(s)
        BY <3>2 DEF Next, vars, OpenFile, CloseFile, Allocate, Parse, Fail
      <3> QED
        BY <3>1, <3>2
    <2>2. CASE q \in Answered /\ pc[r] \in {"parse", "artifacts", "save"}
      <3>1. before'[r] = before[r]
        BY <2>2 DEF TypeOK, Next, vars, Submit, OpenFile, CloseFile, Allocate, Parse, Fail
      <3> QED
        BY <2>1, <2>2, <3>1 DEF HistoriesOK
    <2>3. CASE q \in Answered /\ pc[r] \notin {"parse", "artifacts", "save"}
      <3>1. Allocate(r)
        BY <1>3, <2>3 DEF TypeOK, Next, vars, Submit, OpenFile, CloseFile, Allocate, Parse, Fail, AfterWrite
      <3> QED
        BY <2>3, <3>1 DEF Allocate, TypeOK
    <2>4. CASE q \notin Answered
      <3>1. CloseFile(q) /\ pc[q] = "save" /\ q \in Reviews /\ pc'[q] = "answered"
        BY <1>3, <2>4, Answering DEF Answered
      <3>2. r # q /\ pc'[r] = pc[r]
        BY <3>1, <1>3 DEF CloseFile, TypeOK
      <3> QED
        BY <3>1, <3>2, <2>1, <1>3 DEF HistoriesOK, InProgress, Running
    <2> QED
      BY <2>2, <2>3, <2>4
  <1> QED
    BY <1>1, <1>2, <1>3 DEF HistoriesOK

LEMMA StepLaterRuns == IInv /\ [Next]_vars => LaterRunsGetLaterIds'
  <1> SUFFICES ASSUME IInv, [Next]_vars, NEW r \in Reviews, NEW q \in before'[r], id'[r] # 0
               PROVE  id'[q] < id'[r]
    BY DEF LaterRunsGetLaterIds
  <1> USE DEF IInv
  <1>1. CASE Allocate(r)
    <2>1. q \in Answered
      BY <1>1 DEF Allocate, TypeOK
    <2>2. id[q] \in RunIds /\ Listed(id[q]) /\ id'[q] = id[q]
      BY <2>1, Stays DEF Answered, RecordsOK, TypeOK
    <2>3. \A m \in RunIds : Listed(m) => m < id'[r]
      BY <1>1 DEF Allocate, TypeOK
    <2> QED
      BY <2>2, <2>3
  <1>2. CASE ~Allocate(r)
    <2>1. before'[r] = before[r] /\ id'[r] = id[r]
      BY <1>2 DEF TypeOK, Next, vars, Submit, OpenFile, CloseFile, Allocate, Parse, Fail
    <2>2. q \in Answered /\ id'[q] = id[q]
      BY <2>1, Stays DEF HistoriesOK, Answered
    <2> QED
      BY <2>1, <2>2 DEF LaterRunsGetLaterIds
  <1> QED
    BY <1>1, <1>2

LEMMA StepIInv == IInv /\ [Next]_vars => IInv'
  BY StepTypeOK, StepRecordsOK, StepHistoriesOK, StepLaterRuns DEF IInv

(* No run id is given out again once a run under it has been answered, for *)
(* any number of overlapping, failing and torn reviews.                    *)
THEOREM LaterRunsAlwaysGetLaterIds == Spec => []LaterRunsGetLaterIds
  <1>1. IInv => LaterRunsGetLaterIds
    BY DEF IInv
  <1> QED
    BY <1>1, InitIInv, StepIInv, PTL DEF Spec

(* A saved record is changed only by a review that ran while the one that  *)
(* wrote it did: whoever writes under its id chose that id before the      *)
(* record's review was answered.                                           *)
THEOREM SavedRunsAlwaysKept == Spec => SavedRunsKept
  <1> DEFINE Kept == \A n \in RunIds, q \in Reviews :
                        disk[RunFile(n)] = q /\ disk'[RunFile(n)] # q
                            => \E r \in peers[q] : id[r] = n /\ pc[r] = "save"
  <1>1. IInv /\ [Next]_vars => Kept
    <2> SUFFICES ASSUME IInv, [Next]_vars, NEW n \in RunIds, NEW q \in Reviews,
                        disk[RunFile(n)] = q, disk'[RunFile(n)] # q
                 PROVE  \E r \in peers[q] : id[r] = n /\ pc[r] = "save"
      OBVIOUS
    <2>1. q \in Answered /\ id[q] = n
      BY DEF IInv, RecordsOK
    <2>2. PICK r \in Reviews : pc[r] = "save" /\ id[r] = n
      <3> TypeOK
        BY DEF IInv
      <3> HIDE DEF RunFile
      <3> QED
        BY RunFileChange
    <2>3. r \in peers[q] \/ q \in before[r]
      BY <2>1, <2>2 DEF IInv, HistoriesOK
    <2>4. q \notin before[r]
      BY <2>1, <2>2, LedgerAssumption DEF IInv, LaterRunsGetLaterIds, RunIds
    <2> QED
      BY <2>2, <2>3, <2>4
  <1>2. IInv /\ [Next]_vars => [Kept]_vars
    BY <1>1
  <1> QED
    BY <1>2, InitIInv, StepIInv, PTL DEF Spec, SavedRunsKept

-----------------------------------------------------------------------------
(***************************************************************************)
(* What a review writes and reads while no other disturbs it.  Two reviews *)
(* in progress at the same time are in each other's peers, and one that    *)
(* chose its id after another was answered chose a greater one: whoever    *)
(* writes the manuscript or a file of the run of q is in peers[q], with    *)
(* the same file name or the same id.                                      *)
(***************************************************************************)
OwnName(q) == \A r \in peers[q] \cap Uploaded : q \in Uploaded => NameOf[r] # NameOf[q]
OwnRun(q) == \A r \in peers[q] : id[r] # id[q]

OverlaidOK ==
    \A q \in Reviews :
        overlaid[q] => writing[q] /\ IF pc[q] = "upload" THEN ~OwnName(q) ELSE ~OwnRun(q)

FreshOK ==
    \A q \in Reviews :
        /\ pc[q] \in {"new", "upload", "allocate"} => id[q] = 0
        /\ pc[q] \in {"new", "upload", "allocate", "parse"} => next[q] = 1 /\ input[q] = Missing

(* What was uploaded is there until it is read.                            *)
UploadsOK ==
    \A q \in Uploaded : pc[q] \in {"allocate", "parse"} /\ OwnName(q)
                            => disk[Manuscript(NameOf[q])] = q

(* The artifacts review q has been through.                                *)
Written(q) == {k \in 1..Len(ArtifactFiles) :
                  \/ pc[q] = "artifacts" /\ k < next[q]
                  \/ pc[q] \in {"save", "answered"}}

(* They are its own, except for one it is writing once more.               *)
ArtifactsOK ==
    \A q \in Reviews : OwnRun(q) =>
        \A k \in Written(q) :
            \/ disk[Artifact(id[q], ArtifactFiles[k])] = q
            \/ writing[q] /\ Target(q) = Artifact(id[q], ArtifactFiles[k])

SavedOK == \A q \in Answered : OwnRun(q) => disk[RunFile(id[q])] = q

FilesInv ==
    /\ IInv /\ OverlaidOK /\ FreshOK /\ UploadsOK /\ ReviewsOwnBytes
    /\ ArtifactsOK /\ SavedOK

LEMMA InitFilesInv == Init => FilesInv
  BY InitIInv, LedgerAssumption
  DEF Init, FilesInv, OverlaidOK, FreshOK, UploadsOK, ReviewsOwnBytes, ArtifactsOK,
      Written, SavedOK, Answered, Running

(* What peers a review has got it keeps, and its id once it has one: it    *)
(* is alone with its name or its run only if it was before.                *)
LEMMA AloneBefore ==
    ASSUME FilesInv, [Next]_vars, NEW q \in Reviews, pc[q] # "new"
    PROVE  /\ peers[q] \subseteq peers'[q]
           /\ OwnName(q)' => OwnName(q)
           /\ id'[q] = id[q] /\ id[q] # 0 /\ OwnRun(q)' => OwnRun(q)
  <1>0. TypeOK /\ FreshOK
    BY DEF FilesInv, IInv
  <1> USE <1>0
  <1>1. peers[q] \subseteq peers'[q]
    <2>1. ASSUME NEW r \in Reviews, Submit(r) PROVE peers[q] \subseteq peers'[q]
      BY <2>1 DEF Submit, TypeOK
    <2>2. (\E r \in Reviews : Submit(r)) \/ UNCHANGED peers
      BY DEF Next, vars, OpenFile, CloseFile, Allocate, Parse, Fail
    <2> QED
      BY <2>1, <2>2
  <1>2. OwnName(q)' => OwnName(q)
    BY <1>1 DEF OwnName
  <1>3. \A r \in Reviews : id[r] # 0 => id'[r] = id[r]
    BY DEF FreshOK, TypeOK, Next, vars, Submit, OpenFile, CloseFile, Allocate, Parse, Fail
  <1>4. ASSUME id'[q] = id[q], id[q] # 0, OwnRun(q)', NEW r \in peers[q] PROVE id[r] # id[q]
    <2>1. r \in Reviews /\ r \in peers'[q]
      BY <1>1 DEF TypeOK
    <2> QED
      BY <2>1, <1>3, <1>4 DEF OwnRun
  <1> QED
    BY <1>1, <1>2, <1>4 DEF OwnRun

(* Reviews that write the same file are after the same name or run.        *)
LEMMA SameFile ==
    ASSUME TypeOK, NEW q \in Reviews, NEW r \in Reviews,
           pc[q] \in {"upload", "artifacts", "save"}, pc[r] \in {"upload", "artifacts", "save"},
           Target(q) = Target(r)
    PROVE  pc[q] = pc[r] /\ IF pc[q] = "upload" THEN NameOf[q] = NameOf[r] ELSE id[q] = id[r]
  BY DEF Target, Manuscript, Artifact, RunFile

(* Whoever else writes the manuscript of q, or a file of its run, is one   *)
(* of its peers.                                                           *)
LEMMA UploaderIsPeer ==
    ASSUME FilesInv, NEW q \in Uploaded, q \in InProgress, NEW r \in Reviews, r # q,
           pc[r] \in {"upload", "artifacts", "save"}, Target(r) = Manuscript(NameOf[q])
    PROVE  ~OwnName(q)
  <1> USE LedgerAssumption DEF FilesInv, IInv
  <1>1. pc[r] = "upload" /\ NameOf[r] = NameOf[q]
    BY DEF Target, Manuscript, Artifact, RunFile
  <1>2. r \in peers[q] /\ r \in Uploaded
    BY <1>1 DEF HistoriesOK, TypeOK, InProgress, Running
  <1> QED
    BY <1>1, <1>2 DEF OwnName

LEMMA WriterIsPeer ==
    ASSUME FilesInv, NEW q \in Reviews, pc[q] \in {"artifacts", "save", "answered"},
           NEW r \in Reviews, r # q, pc[r] \in {"upload", "artifacts", "save"},
           \/ Target(r) = RunFile(id[q])
           \/ \E k \in 1..Len(ArtifactFiles) : Target(r) = Artifact(id[q], ArtifactFiles[k])
    PROVE  ~OwnRun(q)
  <1> USE DEF FilesInv, IInv
  <1>1. pc[r] \in {"artifacts", "save"} /\ id[r] = id[q] /\ id[q] \in RunIds
    BY DEF Target, Manuscript, Artifact, RunFile, TypeOK
  <1>2. CASE pc[q] = "answered"
    <2>1. r \in peers[q] \/ q \in before[r]
      BY <1>1, <1>2 DEF HistoriesOK, Answered
    <2>2. q \notin before[r]
      BY <1>1 DEF LaterRunsGetLaterIds, RunIds
    <2> QED
      BY <1>1, <2>1, <2>2 DEF OwnRun
  <1>3. CASE pc[q] # "answered"
    BY <1>1, <1>3 DEF HistoriesOK, InProgress, Running, OwnRun
  <1> QED
    BY <1>2, <1>3

(* A file changes only where a review opens it, or closes it: with its own *)
(* content if no other review has closed it meanwhile.                     *)
LEMMA FileChange ==
    ASSUME TypeOK, [Next]_vars, NEW f \in Files, disk'[f] # disk[f]
    PROVE  \E r \in Reviews : /\ pc[r] \in {"upload", "artifacts", "save"} /\ Target(r) = f
                              /\ OpenFile(r) \/ CloseFile(r)
  <1>1. PICK r \in Reviews : OpenFile(r) \/ CloseFile(r)
    BY DEF Next, Submit, Allocate, Parse, Fail, vars
  <1>2. pc[r] \in {"upload", "artifacts", "save"}
    BY <1>1 DEF OpenFile, CloseFile, TypeOK
  <1>3. \E c : disk' = [disk EXCEPT ![Target(r)] = c]
    BY <1>1 DEF OpenFile, CloseFile
  <1>4. Target(r) = f
    <2> HIDE DEF Target
    <2> QED
      BY <1>3 DEF TypeOK
  <1> QED
    BY <1>1, <1>2, <1>4

LEMMA OwnContent ==
    ASSUME TypeOK, NEW r \in Reviews, CloseFile(r), ~overlaid[r]
    PROVE  disk'[Target(r)] = r
  <1>1. pc[r] \in {"upload", "artifacts", "save"} /\ disk' = [disk EXCEPT ![Target(r)] = r]
    BY DEF CloseFile, TypeOK
  <1>2. Target(r) \in Files
    BY <1>1, TargetFile
  <1> HIDE DEF Target
  <1> QED
    BY <1>1, <1>2 DEF TypeOK

LEMMA StepOverlaidOK == FilesInv /\ [Next]_vars => OverlaidOK'
  <1> SUFFICES ASSUME FilesInv, [Next]_vars, NEW q \in Reviews, overlaid'[q]
               PROVE  writing'[q] /\ IF pc'[q] = "upload" THEN ~OwnName(q)' ELSE ~OwnRun(q)'
    BY DEF OverlaidOK
  <1>1. TypeOK /\ OverlaidOK /\ HistoriesOK
    BY DEF FilesInv, IInv
  <1>2. ASSUME pc'[q] = pc[q], pc[q] \in {"upload", "artifacts", "save"},
               IF pc[q] = "upload" THEN ~OwnName(q) ELSE ~OwnRun(q)
        PROVE  IF pc'[q] = "upload" THEN ~OwnName(q)' ELSE ~OwnRun(q)'
    <2>1. pc[q] # "upload" => id[q] # 0 /\ id'[q] = id[q]
      BY <1>1, <1>2, Stays DEF TypeOK, RunIds
    <2> QED
      BY <1>2, <2>1, AloneBefore
  <1>3. ASSUME NEW r \in Reviews, CloseFile(r)
        PROVE  writing'[q] /\ IF pc'[q] = "upload" THEN ~OwnName(q)' ELSE ~OwnRun(q)'
    <2>1. q # r /\ (overlaid[q] \/ (writing[q] /\ Target(q) = Target(r)))
      BY <1>3 DEF CloseFile
    <2>2. /\ writing'[q] /\ pc'[q] = pc[q]
          /\ pc[q] \in {"upload", "artifacts", "save"} /\ pc[r] \in {"upload", "artifacts", "save"}
      BY <1>1, <1>3, <2>1 DEF CloseFile, TypeOK, OverlaidOK
    <2>3. IF pc[q] = "upload" THEN ~OwnName(q) ELSE ~OwnRun(q)
      <3>1. CASE overlaid[q]
        BY <1>1, <3>1 DEF OverlaidOK
      <3>2. CASE Target(q) = Target(r)
        <4>1. r \in peers[q]
          BY <1>1, <2>1, <2>2 DEF HistoriesOK, InProgress, Running
        <4>2. pc[q] = pc[r] /\ IF pc[q] = "upload" THEN NameOf[q] = NameOf[r] ELSE id[q] = id[r]
          BY <1>1, <2>2, <3>2, SameFile
        <4> QED
          BY <1>1, <2>2, <4>1, <4>2 DEF OwnName, OwnRun, TypeOK
      <3> QED
        BY <2>1, <3>1, <3>2
    <2> QED
      BY <1>2, <2>2, <2>3
  <1>4. CASE ~\E r \in Reviews : CloseFile(r)
    <2>1. overlaid[q] /\ writing[q] /\ pc[q] \in {"upload", "artifacts", "save"}
      BY <1>1, <1>4 DEF OverlaidOK, TypeOK, Next, vars, Submit, OpenFile, Allocate, Parse, Fail
    <2>2. writing'[q] /\ pc'[q] = pc[q]
      BY <1>1, <1>4, <2>1, SMTT(40) DEF TypeOK, Next, vars, Submit, OpenFile, Allocate, Parse, Fail
    <2> QED
      BY <1>1, <1>2, <2>1, <2>2 DEF OverlaidOK
  <1> QED
    BY <1>3, <1>4

LEMMA StepFreshOK == FilesInv /\ [Next]_vars => FreshOK'
  <1> SUFFICES ASSUME TypeOK, FreshOK, [Next]_vars, NEW q \in Reviews
               PROVE  /\ pc'[q] \in {"new", "upload", "allocate"} => id'[q] = 0
                      /\ pc'[q] \in {"new", "upload", "allocate", "parse"}
                             => next'[q] = 1 /\ input'[q] = Missing
    BY DEF FreshOK, FilesInv, IInv
  <1>1. ASSUME NEW r \in Reviews, CloseFile(r), r = q
        PROVE  /\ pc'[q] \in {"new", "upload", "allocate"} => id'[q] = 0
               /\ pc'[q] \in {"new", "upload", "allocate", "parse"}
                      => next'[q] = 1 /\ input'[q] = Missing
    BY <1>1 DEF TypeOK, FreshOK, CloseFile, AfterWrite
  <1>2. ASSUME NEW r \in Reviews, CloseFile(r), r # q
        PROVE  pc'[q] = pc[q] /\ id'[q] = id[q] /\ next'[q] = next[q] /\ input'[q] = input[q]
    BY <1>2 DEF TypeOK, CloseFile
  <1>3. CASE ~\E r \in Reviews : CloseFile(r)
    BY <1>3 DEF TypeOK, FreshOK, Next, vars, Submit, OpenFile, Allocate, Parse, Fail
  <1> QED
    BY <1>1, <1>2, <1>3 DEF FreshOK

LEMMA StepUploadsOK == FilesInv /\ [Next]_vars => UploadsOK'
  <1> SUFFICES ASSUME FilesInv, [Next]_vars, NEW q \in Uploaded,
                      pc'[q] \in {"allocate", "parse"}, OwnName(q)'
               PROVE  disk'[Manuscript(NameOf[q])] = q
    BY DEF UploadsOK, Manuscript
  <1> USE LedgerAssumption
  <1>1. TypeOK /\ OverlaidOK /\ UploadsOK
    BY DEF FilesInv, IInv
  <1>2. pc[q] \in {"upload", "allocate", "parse"}
    BY <1>1 DEF TypeOK, Next, vars, Submit, OpenFile, CloseFile, AfterWrite, Allocate, Parse, Fail
  <1>3. OwnName(q)
    BY <1>2, AloneBefore
  <1>4. CASE pc[q] = "upload"
    <2>0. PICK r \in Reviews : CloseFile(r)
      BY <1>1, <1>4 DEF TypeOK, Next, vars, Submit, OpenFile, Allocate, Parse, Fail
    <2>1. CloseFile(q)
      BY <1>1, <1>4, <2>0 DEF TypeOK, CloseFile
    <2>2. disk'[Target(q)] = q
      BY <1>1, <1>3, <1>4, <2>1, OwnContent DEF OverlaidOK
    <2> QED
      BY <1>4, <2>2 DEF Target
  <1>5. CASE pc[q] \in {"allocate", "parse"}
    <2>1. disk[Manuscript(NameOf[q])] = q /\ Manuscript(NameOf[q]) \in Files /\ q \in InProgress
      BY <1>1, <1>3, <1>5 DEF UploadsOK, Files, InProgress, Running
    <2> HIDE DEF Manuscript
    <2>2. SUFFICES ASSUME disk'[Manuscript(NameOf[q])] # disk[Manuscript(NameOf[q])] PROVE FALSE
      BY <2>1
    <2>3. PICK r \in Reviews : /\ pc[r] \in {"upload", "artifacts", "save"}
                               /\ Target(r) = Manuscript(NameOf[q])
      BY <1>1, <2>1, <2>2, FileChange
    <2> HIDE DEF Target
    <2> QED
      BY <1>3, <1>5, <2>1, <2>3, UploaderIsPeer
  <1> QED
    BY <1>2, <1>4, <1>5

LEMMA StepReviewsOwnBytes == FilesInv /\ [Next]_vars => ReviewsOwnBytes'
  <1> SUFFICES ASSUME FilesInv, [Next]_vars, NEW q \in Reviews, input'[q] # Missing, OwnName(q)'
               PROVE  input'[q] = q
    BY DEF ReviewsOwnBytes, OwnName
  <1>1. TypeOK /\ FreshOK /\ UploadsOK /\ ReviewsOwnBytes
    BY DEF FilesInv, IInv
  <1>2. CASE input'[q] = input[q]
    <2>1. OwnName(q)
      BY <1>1, <1>2, AloneBefore DEF FreshOK
    <2> QED
      BY <1>1, <1>2, <2>1 DEF ReviewsOwnBytes, OwnName
  <1>3. CASE input'[q] # input[q]
    <2>1. Parse(q)
      BY <1>1, <1>3 DEF TypeOK, Next, vars, Submit, OpenFile, CloseFile, Allocate, Parse, Fail
    <2>2. /\ input'[q] = IF q \in Uploaded THEN disk[Manuscript(NameOf[q])] ELSE q
          /\ pc[q] = "parse"
      BY <1>1, <2>1 DEF Parse, TypeOK
    <2>3. OwnName(q)
      BY <2>2, AloneBefore
    <2> QED
      BY <1>1, <2>2, <2>3 DEF UploadsOK
  <1> QED
    BY <1>2, <1>3

(* Past parsing, a review gets on only by closing a file.                  *)
LEMMA WritesOn ==
    ASSUME TypeOK, [Next]_vars, NEW q \in Reviews, pc[q] \in {"artifacts", "save", "answered"},
           ~CloseFile(q), pc'[q] # "failed"
    PROVE  pc'[q] = pc[q] /\ next'[q] = next[q] /\ (writing[q] => writing'[q])
  <1>1. ASSUME NEW r \in Reviews, CloseFile(r)
        PROVE  pc'[q] = pc[q] /\ next'[q] = next[q] /\ (writing[q] => writing'[q])
    <2>1. r # q /\ r \in Reviews
      BY <1>1
    <2>2. /\ pc' = [pc EXCEPT ![r] = AfterWrite(r)]
          /\ next' = [next EXCEPT ![r] = IF AfterWrite(r) = "artifacts" THEN @ + 1 ELSE @]
          /\ writing' = [writing EXCEPT ![r] = FALSE]
      BY <1>1 DEF CloseFile
    <2> HIDE DEF AfterWrite
    <2> QED
      BY <2>1, <2>2 DEF TypeOK
  <1>2. ASSUME NEW r \in Reviews, OpenFile(r) PROVE writing[q] => writing'[q]
    BY <1>2 DEF OpenFile, TypeOK
  <1>3. ASSUME NEW r \in Reviews, Fail(r) PROVE r # q
    BY <1>3 DEF Fail, TypeOK, InProgress
  <1> QED
    BY <1>1, <1>2, <1>3, SMTT(40) DEF TypeOK, Next, vars, Submit, OpenFile, Allocate, Parse, Fail

LEMMA StepArtifactsOK == FilesInv /\ [Next]_vars => ArtifactsOK'
  <1> SUFFICES ASSUME FilesInv, [Next]_vars, NEW q \in Reviews, OwnRun(q)',
                      NEW k \in Written(q)'
               PROVE  (\/ disk[Artifact(id[q], ArtifactFiles[k])] = q
                       \/ writing[q] /\ Target(q) = Artifact(id[q], ArtifactFiles[k]))'
    BY DEF ArtifactsOK
  <1> DEFINE f == Artifact(id[q], ArtifactFiles[k])
  <1> USE LedgerAssumption
  <1>1. TypeOK /\ OverlaidOK /\ FreshOK /\ ArtifactsOK
    BY DEF FilesInv, IInv
  <1>2. k \in 1..Len(ArtifactFiles) /\ pc'[q] \in {"artifacts", "save", "answered"}
    BY DEF Written
  <1>3. /\ pc[q] \in {"artifacts", "save", "answered"}
        /\ k \in Written(q) \/ (CloseFile(q) /\ pc[q] = "artifacts" /\ k = next[q])
    <2>1. CASE pc[q] \in {"artifacts", "save", "answered"} /\ ~CloseFile(q)
      <3>1. pc'[q] = pc[q] /\ next'[q] = next[q]
        BY <1>1, <1>2, <2>1, WritesOn
      <3> QED
        BY <2>1, <3>1 DEF Written
    <2>2. CASE CloseFile(q)
      <3>1. /\ pc[q] \in {"upload", "artifacts", "save"}
            /\ pc'[q] = AfterWrite(q)
            /\ next'[q] = IF AfterWrite(q) = "artifacts" THEN next[q] + 1 ELSE next[q]
            /\ next[q] \in 1..Len(ArtifactFiles)
        BY <1>1, <2>2 DEF TypeOK, CloseFile
      <3>2. pc[q] # "upload"
        BY <1>2, <3>1 DEF AfterWrite
      <3> QED
        BY <1>2, <2>2, <3>1, <3>2 DEF Written, AfterWrite
    <2>3. CASE pc[q] \notin {"artifacts", "save", "answered"} /\ ~CloseFile(q)
      <3>1. Parse(q)
        <4>1. ASSUME NEW r \in Reviews, CloseFile(r) PROVE pc'[q] = pc[q]
          <5>1. r # q
            BY <2>3, <4>1
          <5> QED
            BY <1>1, <4>1, <5>1 DEF CloseFile, TypeOK
        <4> QED
          BY <1>1, <1>2, <2>3, <4>1 DEF TypeOK, Next, vars, Submit, OpenFile, Allocate, Parse, Fail
      <3>2. pc'[q] = "artifacts" /\ next'[q] = 1
        BY <1>1, <3>1 DEF Parse, TypeOK, FreshOK
      <3> QED
        BY <1>2, <3>2 DEF Written
    <2> QED
      BY <2>1, <2>2, <2>3
  <1>4. id'[q] = id[q] /\ id[q] \in RunIds /\ OwnRun(q)
    BY <1>1, <1>3, Stays, AloneBefore DEF TypeOK, RunIds
  <1>5. f \in Files /\ f' = f
    BY <1>2, <1>4 DEF Files, ArtifactNames, Artifact
  <1>6. k \in Written(q) => disk[f] = q \/ (writing[q] /\ Target(q) = f)
    BY <1>1, <1>4 DEF ArtifactsOK
  <1> HIDE DEF f
  <1> SUFFICES disk'[f] = q \/ (writing'[q] /\ Target(q)' = f)
    BY <1>4, <1>5 DEF f, Artifact
  <1>7. CASE CloseFile(q)
    <2>1. disk'[Target(q)] = q
      BY <1>1, <1>3, <1>4, <1>7, OwnContent DEF OverlaidOK
    <2>2. k \notin Written(q) => Target(q) = f
      BY <1>3 DEF f, Target
    <2>3. Target(q) # f => disk'[f] = disk[f]
      <3>1. \E c : disk' = [disk EXCEPT ![Target(q)] = c]
        BY <1>7 DEF CloseFile
      <3> HIDE DEF Target
      <3> QED
        BY <1>1, <1>5, <3>1 DEF TypeOK
    <2> HIDE DEF Target
    <2> QED
      BY <1>6, <2>1, <2>2, <2>3
  <1>8. CASE ~CloseFile(q)
    <2>1. k \in Written(q) /\ pc'[q] = pc[q] /\ next'[q] = next[q]
      BY <1>1, <1>2, <1>3, <1>8, WritesOn
    <2>2. Target(q)' = Target(q)
      BY <1>4, <2>1 DEF Target, Artifact, RunFile, Manuscript
    <2>3. writing[q] => writing'[q]
      BY <1>1, <1>2, <1>3, <1>8, WritesOn
    <2>4. CASE OpenFile(q)
      <3>1. writing'[q] /\ ~writing[q] /\ disk' = [disk EXCEPT ![Target(q)] = Torn]
        BY <1>1, <2>4 DEF OpenFile, TypeOK
      <3> HIDE DEF Target
      <3> QED
        BY <1>1, <1>5, <1>6, <2>1, <2>2, <3>1 DEF TypeOK
    <2>5. CASE ~OpenFile(q) /\ disk[f] = q
      <3>1. SUFFICES ASSUME disk'[f] # disk[f] PROVE FALSE
        BY <2>5
      <3>2. PICK r \in Reviews : /\ pc[r] \in {"upload", "artifacts", "save"} /\ Target(r) = f
                                 /\ r # q
        BY <1>1, <1>5, <1>8, <2>5, <3>1, FileChange
      <3> HIDE DEF Target
      <3> QED
        BY <1>2, <1>3, <1>4, <3>2, WriterIsPeer DEF f
    <2> HIDE DEF Target
    <2> QED
      BY <1>6, <2>1, <2>2, <2>3, <2>4, <2>5
  <1> QED
    BY <1>7, <1>8

LEMMA StepSavedOK == FilesInv /\ [Next]_vars => SavedOK'
  <1> SUFFICES ASSUME FilesInv, [Next]_vars, NEW q \in Reviews, pc'[q] = "answered", OwnRun(q)'
               PROVE  disk'[RunFile(id'[q])] = q
    BY DEF SavedOK, Answered, RunFile
  <1>1. TypeOK /\ OverlaidOK /\ SavedOK
    BY DEF FilesInv, IInv
  <1>2. pc[q] = "answered" \/ (CloseFile(q) /\ pc[q] = "save")
    BY <1>1, Answering
  <1>3. id'[q] = id[q] /\ id[q] \in RunIds /\ OwnRun(q)
    BY <1>1, <1>2, Stays, AloneBefore DEF TypeOK, RunIds
  <1>4. CASE pc[q] = "answered"
    <2>1. disk[RunFile(id[q])] = q /\ RunFile(id[q]) \in Files
      BY <1>1, <1>3, <1>4 DEF SavedOK, Answered, Files
    <2> HIDE DEF RunFile, Target
    <2>2. SUFFICES ASSUME disk'[RunFile(id[q])] # disk[RunFile(id[q])] PROVE FALSE
      BY <1>3, <2>1
    <2>3. PICK r \in Reviews : /\ pc[r] \in {"upload", "artifacts", "save"}
                               /\ Target(r) = RunFile(id[q])
      BY <1>1, <2>1, <2>2, FileChange
    <2> QED
      BY <1>3, <1>4, <2>3, WriterIsPeer
  <1>5. CASE CloseFile(q) /\ pc[q] = "save"
    <2>1. disk'[Target(q)] = q
      BY <1>1, <1>3, <1>5, OwnContent DEF OverlaidOK
    <2> QED
      BY <1>3, <1>5, <2>1 DEF Target, RunFile
  <1> QED
    BY <1>2, <1>4, <1>5

LEMMA StepFilesInv == FilesInv /\ [Next]_vars => FilesInv'
  BY StepIInv, StepOverlaidOK, StepFreshOK, StepUploadsOK, StepReviewsOwnBytes,
     StepArtifactsOK, StepSavedOK DEF FilesInv

(* A review that no upload under its file name overlaps reviews the bytes  *)
(* it was submitted with, whatever other reviews write, fail in or leave.  *)
THEOREM AlwaysReviewsOwnBytes == Spec => []ReviewsOwnBytes
  <1>1. FilesInv => ReviewsOwnBytes
    BY DEF FilesInv
  <1> QED
    BY <1>1, InitFilesInv, StepFilesInv, PTL DEF Spec

(* An answered review is recorded, its run file and every artifact, and    *)
(* stays so, unless an overlapping review chose the same id.               *)
THEOREM RecordedUnlessIdShared == Spec => [](\A q \in Answered : OwnRun(q) => Recorded(q))
  <1>1. FilesInv => \A q \in Answered : OwnRun(q) => Recorded(q)
    <2> SUFFICES ASSUME FilesInv, NEW q \in Answered, OwnRun(q), NEW file \in ArtifactNames
                 PROVE  disk[RunFile(id[q])] = q /\ disk[Artifact(id[q], file)] = q
      BY LedgerAssumption DEF Recorded, FilesInv, SavedOK
    <2>1. PICK k \in Written(q) : file = ArtifactFiles[k]
      BY DEF ArtifactNames, Written, Answered
    <2>2. ~writing[q]
      BY DEF FilesInv, IInv, TypeOK, Answered
    <2> QED
      BY <2>1, <2>2 DEF FilesInv, ArtifactsOK, SavedOK, Answered
  <1> QED
    BY <1>1, InitFilesInv, StepFilesInv, PTL DEF Spec

-----------------------------------------------------------------------------
(***************************************************************************)
(* The views (LedgerViews).  A view holds only what it has read of a run   *)
(* whose record is not touched any more, and the dashboard, as long as it  *)
(* reads, has of every such run either the row or the id still to read; it *)
(* goes through the ids in the order of their names.                       *)
(***************************************************************************)
LEMMA NamesInOrder ==
    /\ \A n \in RunIds : ~Before(n, n)
    /\ \A m, n \in RunIds : Before(m, n) => ~Before(n, m)
    /\ \A m, n \in RunIds : m # n => Before(m, n) \/ Before(n, m)
    /\ StrictOn(Alphabetical, RunIds)
  <1>1. \A n \in RunIds : n \in Nat /\ Leading(n) \in Int
    BY LedgerAssumption, LedgerViewsAssumption DEF Leading, RunIds
  <1> HIDE DEF Leading
  <1>2. /\ \A n \in RunIds : ~Before(n, n)
        /\ \A m, n \in RunIds : Before(m, n) => ~Before(n, m)
        /\ \A m, n \in RunIds : m # n => Before(m, n) \/ Before(n, m)
    BY <1>1 DEF Before
  <1>3. \A k, m, n \in RunIds : Before(k, m) /\ Before(m, n) => Before(k, n)
    BY <1>1 DEF Before
  <1>4. \A m, n \in RunIds : <<m, n>> \in Alphabetical <=> Before(m, n)
    BY DEF Alphabetical
  <1> QED
    BY <1>2, <1>3, <1>4 DEF StrictOn

LEMMA RunNamesInOrder ==
    /\ RunNames \in Seq(RunIds) /\ Range(RunNames) = RunIds
    /\ InOrder(RunNames, Alphabetical)
  <1> DEFINE ids == [n \in 1..MaxRunId |-> n]
             along == NotAfter(Alphabetical, RunIds)
             differ == Different(RunIds)
  <1>1. ids \in Seq(RunIds) /\ Len(ids) = MaxRunId /\ IsInjective(ids)
    BY LedgerAssumption DEF RunIds, IsInjective
  <1>2. Range(ids) = RunIds
    BY DEF Range, RunIds
  <1>3. RunNames = Ranked(ids, Alphabetical)
    BY DEF RunNames
  <1> HIDE DEF ids
  <1>4. /\ RunNames \in Seq(RunIds) /\ Range(RunNames) = RunIds
        /\ InOrder(RunNames, along) /\ IsInjective(RunNames)
    BY <1>1, <1>2, <1>3, NamesInOrder, RankedSorted
  <1>5. InOrder(RunNames, differ)
    BY <1>4, OnceInjective
  <1>6. InOrder(RunNames, Alphabetical)
    <2> SUFFICES ASSUME NEW i \in 1..Len(RunNames), NEW j \in 1..Len(RunNames), i < j
                 PROVE  <<RunNames[i], RunNames[j]>> \in Alphabetical
      BY DEF InOrder
    <2> DEFINE m == RunNames[i]
               n == RunNames[j]
    <2>1. <<m, n>> \in along /\ <<m, n>> \in differ
      BY <1>4, <1>5 DEF InOrder
    <2> HIDE DEF m, n
    <2>2. m \in RunIds /\ n \in RunIds /\ <<n, m>> \notin Alphabetical /\ m # n
      BY <2>1 DEF NotAfter, Different
    <2>3. <<m, n>> \in Alphabetical
      BY <2>2, NamesInOrder DEF Alphabetical
    <2> QED
      BY <2>3 DEF m, n
  <1> QED
    BY <1>4, <1>6

(* The ids are listed in the order of their names.                         *)
LEMMA RunListInOrder ==
    /\ RunList \in Seq(RunIds) /\ Range(RunList) = {n \in RunIds : Listed(n)}
    /\ \A i, j \in 1..Len(RunList) : i < j => Before(RunList[i], RunList[j])
  <1> DEFINE T == {n \in RunIds : Listed(n)}
  <1>1. RunList = Sift(RunNames, T) /\ T \subseteq RunIds
    BY DEF RunList
  <1> HIDE DEF T
  <1>2. RunNames \in Seq(RunIds) /\ Range(RunNames) = RunIds /\ InOrder(RunNames, Alphabetical)
    BY RunNamesInOrder
  <1>3. RunList \in Seq(RunIds) /\ Range(RunList) = T
    <2>1. Sift(RunNames, T) \in Seq(RunIds) /\ Range(Sift(RunNames, T)) = Range(RunNames) \cap T
      BY <1>2, SiftRange
    <2> QED
      BY <1>1, <1>2, <2>1
  <1>4. InOrder(RunList, Alphabetical)
    BY <1>1, <1>2, SiftInOrder
  <1>5. ASSUME NEW i \in 1..Len(RunList), NEW j \in 1..Len(RunList), i < j
        PROVE  Before(RunList[i], RunList[j])
    BY <1>4, <1>5 DEF InOrder, Alphabetical
  <1> QED
    BY <1>3, <1>5 DEF T

(* A view lists ids, or is about one run, which is in its todo until it is *)
(* read; only the dashboard lists.                                         *)
Rows == [run : RunIds, of : Reviews]

ViewKinds == {"none", "dashboard", "report", "client", "latest", "findings", "feedback"}
ViewStages == {"none", "list", "paper", "again", "record", "findings", "shown", "error"}

ViewTyped ==
    /\ view \in [kind : ViewKinds, stage : ViewStages, todo : Seq(RunIds), rows : Seq(Rows)]
    /\ since \subseteq Answered
    /\ view.stage \in {"record", "again", "paper", "findings"} => view.todo # << >>
    /\ view.stage \in {"record", "findings"} => view.rows = << >>
    /\ view.stage = "list" => view.kind = "dashboard"
    /\ view.kind = "dashboard" => view.stage \in {"list", "shown"}

(* The ids read and to read, in the order of their names.                  *)
Listing(rows, todo) ==
    /\ \A i, j \in 1..Len(rows) : i < j => Before(rows[i].run, rows[j].run)
    /\ \A i \in 1..Len(rows), j \in 1..Len(todo) : Before(rows[i].run, todo[j])
    /\ \A i, j \in 1..Len(todo) : i < j => Before(todo[i], todo[j])

(* What is read of the run of q is its own.                                *)
Own(q, rows) == \A n \in 1..Len(rows) : rows[n].run = id[q] => rows[n].of = q

(* The run of q is read or still to read.                                  *)
Queued(q, rows, todo) ==
    \/ \E n \in 1..Len(rows) : rows[n].run = id[q] /\ rows[n].of = q
    \/ \E n \in 1..Len(todo) : todo[n] = id[q]

(* Neither is before the run of q.                                         *)
NoneBefore(q, rows, todo) ==
    /\ \A n \in 1..Len(rows) : ~Before(rows[n].run, id[q])
    /\ \A n \in 1..Len(todo) : ~Before(todo[n], id[q])

(* It is among the rows, or there are as many as fit, all of runs after it.*)
Fits(q, rows) ==
    \/ \E n \in 1..Len(rows) : rows[n].run = id[q] /\ rows[n].of = q
    \/ Len(rows) = DASHBOARD_ROWS /\ \A n \in 1..Len(rows) : Before(id[q], rows[n].run)

ViewOf(q) ==
    /\ Own(q, view.rows)
    /\ view.stage = "list" => Queued(q, view.rows, view.todo)
    /\ view.kind = "latest" => NoneBefore(q, view.rows, view.todo)
    /\ view.kind = "dashboard" /\ view.stage = "shown" => Fits(q, view.rows)

ViewInv ==
    /\ ViewTyped
    /\ view.stage = "list" => Listing(view.rows, view.todo)
    /\ \A q \in since : OwnRun(q) => ViewOf(q)

LEMMA InitViewInv == ViewInit => ViewInv
  BY DEF ViewInit, ViewInv, ViewTyped, NoView, ViewKinds, ViewStages

(* The record and the artifacts under the id of an answered review that    *)
(* shares it with none.                                                    *)
LEMMA OwnFiles ==
    ASSUME FilesInv, NEW q \in Answered, OwnRun(q)
    PROVE  /\ q \in Reviews /\ id[q] \in RunIds
           /\ disk[RunFile(id[q])] = q /\ Listed(id[q])
           /\ \A file \in ArtifactNames : disk[Artifact(id[q], file)] = q
  <1>1. TypeOK /\ q \in Reviews /\ pc[q] = "answered" /\ id[q] \in RunIds
    BY DEF FilesInv, IInv, TypeOK, Answered
  <1>2. disk[RunFile(id[q])] = q
    BY DEF FilesInv, SavedOK
  <1>3. ASSUME NEW file \in ArtifactNames PROVE disk[Artifact(id[q], file)] = q
    <2>1. PICK k \in 1..Len(ArtifactFiles) : file = ArtifactFiles[k]
      BY DEF ArtifactNames
    <2>2. k \in Written(q) /\ ~writing[q]
      BY <1>1 DEF Written, TypeOK
    <2> QED
      BY <1>1, <2>1, <2>2 DEF FilesInv, ArtifactsOK
  <1> QED
    BY <1>1, <1>2, <1>3, LedgerAssumption DEF Listed

(* What can be read of a run file or an artifact is a review's.            *)
LEMMA ReadsReview ==
    ASSUME TypeOK, NEW f \in Files, Readable(disk[f])
    PROVE  disk[f] \in Reviews
  BY DEF TypeOK, Contents, Readable

LEMMA RunFilesThere ==
    ASSUME NEW n \in RunIds
    PROVE  RunFile(n) \in Files /\ Artifact(n, "paper.json") \in Files
                                /\ Artifact(n, "findings.json") \in Files
  BY LedgerViewsAssumption DEF Files

(* While reviews go on no open view changes, and what it shows of a run    *)
(* stays true as long as the run is not shared.                            *)
LEMMA StepNext == FilesInv /\ ViewInv /\ [Next]_vars /\ UNCHANGED viewVars => ViewInv'
  <1> SUFFICES ASSUME FilesInv, ViewInv, [Next]_vars, UNCHANGED viewVars PROVE ViewInv'
    OBVIOUS
  <1>1. TypeOK /\ UNCHANGED <<view, since>>
    BY DEF FilesInv, IInv, viewVars
  <1>2. Answered \subseteq Answered'
    BY <1>1, Stays
  <1>3. ViewTyped'
    BY <1>1, <1>2 DEF ViewInv, ViewTyped
  <1>4. ASSUME NEW q \in since, OwnRun(q)' PROVE ViewOf(q)'
    <2>1. q \in Reviews /\ pc[q] = "answered"
      BY DEF ViewInv, ViewTyped, Answered
    <2>2. id'[q] = id[q] /\ id[q] # 0
      BY <1>1, <2>1, Stays, LedgerAssumption DEF TypeOK, RunIds
    <2>3. OwnRun(q)
      BY <1>4, <2>1, <2>2, AloneBefore
    <2>4. ViewOf(q)
      BY <2>3 DEF ViewInv
    <2> QED
      BY <1>1, <2>2, <2>4 DEF ViewOf, Own, Queued, NoneBefore, Fits
  <1> QED
    BY <1>1, <1>3, <1>4 DEF ViewInv, Listing

(* What a view has to be after a step that changes no file and no review.  *)
ViewAllowed(of, kind, stage, todo, rows) ==
    /\ kind \in ViewKinds /\ stage \in ViewStages /\ todo \in Seq(RunIds) /\ rows \in Seq(Rows)
    /\ stage \in {"record", "again", "paper", "findings"} => todo # << >>
    /\ stage \in {"record", "findings"} => rows = << >>
    /\ stage = "list" => kind = "dashboard" /\ Listing(rows, todo)
    /\ kind = "dashboard" => stage \in {"list", "shown"}
    /\ \A q \in of : OwnRun(q) =>
          /\ Own(q, rows)
          /\ stage = "list" => Queued(q, rows, todo)
          /\ kind = "latest" => NoneBefore(q, rows, todo)
          /\ kind = "dashboard" /\ stage = "shown" => Fits(q, rows)

LEMMA Viewed ==
    ASSUME UNCHANGED vars, since' \subseteq Answered,
           NEW kind, NEW stage, NEW todo, NEW rows,
           view' = [kind |-> kind, stage |-> stage, todo |-> todo, rows |-> rows],
           ViewAllowed(since', kind, stage, todo, rows)
    PROVE  ViewInv'
  <1>1. /\ view'.kind = kind /\ view'.stage = stage /\ view'.todo = todo /\ view'.rows = rows
        /\ UNCHANGED <<id, pc, peers>> /\ Answered' = Answered
    BY DEF vars, Answered
  <1>2. ViewTyped'
    BY <1>1 DEF ViewAllowed, ViewKinds, ViewStages, ViewTyped
  <1>4. (view.stage = "list" => Listing(view.rows, view.todo))'
    BY <1>1 DEF ViewAllowed, ViewKinds, ViewStages, Listing
  <1>5. ASSUME NEW q \in since', OwnRun(q)' PROVE ViewOf(q)'
    <2>1. OwnRun(q)
      BY <1>1, <1>5 DEF OwnRun
    <2> QED
      BY <1>1, <2>1 DEF ViewAllowed, ViewKinds, ViewStages, ViewOf, Own, Queued, NoneBefore, Fits
  <1> QED
    BY <1>2, <1>4, <1>5 DEF ViewInv

LEMMA StepOpen == FilesInv /\ ViewInv /\ (Open \/ GiveFeedback) => ViewInv'
  <1> SUFFICES ASSUME FilesInv, ViewInv, Open \/ GiveFeedback PROVE ViewInv'
    OBVIOUS
  <1>0. TypeOK
    BY DEF FilesInv, IInv
  <1>1. \A q \in Answered : OwnRun(q) =>
           /\ q \in Reviews /\ id[q] \in RunIds /\ Listed(id[q])
           /\ disk[RunFile(id[q])] = q
    BY OwnFiles
  <1>2. CASE OpenView("dashboard", "list", RunList, << >>)
    <2>1. /\ UNCHANGED vars /\ since' = Answered
          /\ view' = [kind |-> "dashboard", stage |-> "list", todo |-> RunList, rows |-> << >>]
      BY <1>2 DEF OpenView
    <2>2. Listing(<< >>, RunList) /\ RunList \in Seq(RunIds)
      BY RunListInOrder DEF Listing
    <2>3. ASSUME NEW q \in Answered, OwnRun(q)
          PROVE  Own(q, << >>) /\ Queued(q, << >>, RunList)
      <3>1. id[q] \in Range(RunList)
        BY <1>1, <2>3, RunListInOrder
      <3>2. \E n \in 1..Len(RunList) : RunList[n] = id[q]
        BY <2>2, <3>1, SeqRange
      <3> QED
        BY <3>2 DEF Own, Queued
    <2>4. ViewAllowed(since', "dashboard", "list", RunList, << >>)
      BY <2>1, <2>2, <2>3 DEF ViewAllowed, ViewKinds, ViewStages
    <2> QED
      BY <2>1, <2>4, Viewed
  <1>3. ASSUME NEW n \in RunIds,
               \/ OpenRun("report", "paper", n)
               \/ OpenRun("client", "again", n)
               \/ OpenRun("feedback", "shown", n)
        PROVE  ViewInv'
    <2> DEFINE c == disk[RunFile(n)]
               row == [run |-> n, of |-> c]
    <2>1. PICK kind \in {"report", "client", "feedback"}, stage \in {"paper", "again", "shown"} :
             OpenRun(kind, stage, n)
      BY <1>3
    <2>2. CASE Readable(c)
      <3>1. /\ UNCHANGED vars /\ since' = Answered
            /\ view' = [kind |-> kind, stage |-> stage, todo |-> <<n>>, rows |-> <<row>>]
        BY <2>1, <2>2 DEF OpenRun, OpenView
      <3>2. row \in Rows
        BY <1>0, <2>2, RunFilesThere, ReadsReview DEF Rows
      <3>3. ASSUME NEW q \in Answered, OwnRun(q) PROVE Own(q, <<row>>)
        BY <1>1, <3>3 DEF Own
      <3> HIDE DEF row
      <3>4. <<n>> \in Seq(RunIds) /\ <<n>> # << >> /\ <<row>> \in Seq(Rows)
        BY <3>2
      <3>5. ViewAllowed(since', kind, stage, <<n>>, <<row>>)
        BY <2>1, <3>1, <3>3, <3>4 DEF ViewAllowed, ViewKinds, ViewStages
      <3> QED
        BY <3>1, <3>5, Viewed
    <2>3. CASE ~Readable(c)
      <3>1. /\ UNCHANGED vars /\ since' = Answered
            /\ view' = [kind |-> kind, stage |-> "error", todo |-> << >>, rows |-> << >>]
        BY <2>1, <2>3 DEF OpenRun, OpenView
      <3>2. ViewAllowed(since', kind, "error", << >>, << >>)
        BY <2>1 DEF ViewAllowed, ViewKinds, ViewStages, Own
      <3> QED
        BY <3>1, <3>2, Viewed
    <2> QED
      BY <2>2, <2>3
  <1>4. CASE OpenView("latest", "record", <<Latest>>, << >>)
    <2>1. /\ UNCHANGED vars /\ since' = Answered /\ Answered # {}
          /\ view' = [kind |-> "latest", stage |-> "record", todo |-> <<Latest>>, rows |-> << >>]
      BY <1>4 DEF OpenView
    <2> DEFINE N == Len(RunList)
    <2>2. RunList \in Seq(RunIds) /\ N \in Nat /\ N > 0
      <3>1. RunList \in Seq(RunIds)
        BY RunListInOrder
      <3>2. PICK q \in Answered : TRUE
        BY <2>1
      <3>3. id[q] \in RunIds /\ Listed(id[q])
        BY <1>0 DEF FilesInv, IInv, RecordsOK, TypeOK, Answered
      <3>4. \E n \in 1..N : RunList[n] = id[q]
        BY <3>1, <3>3, RunListInOrder, SeqRange
      <3> QED
        BY <3>1, <3>4
    <2>3. Latest = RunList[N] /\ Latest \in RunIds
      BY <2>2 DEF Latest, Last
    <2>4. ASSUME NEW q \in Answered, OwnRun(q) PROVE ~Before(Latest, id[q])
      <3>1. id[q] \in Range(RunList) /\ id[q] \in RunIds
        BY <1>1, <2>4, RunListInOrder
      <3>2. PICK n \in 1..N : RunList[n] = id[q]
        BY <2>2, <3>1, SeqRange
      <3>3. CASE n = N
        BY <2>3, <3>1, <3>2, <3>3, NamesInOrder
      <3>4. CASE n < N
        <4>1. Before(id[q], Latest)
          BY <2>2, <2>3, <3>2, <3>4, RunListInOrder
        <4> QED
          BY <2>3, <3>1, <4>1, NamesInOrder
      <3> QED
        BY <2>2, <3>3, <3>4
    <2>5. ASSUME NEW q \in Answered, OwnRun(q)
          PROVE  Own(q, << >>) /\ NoneBefore(q, << >>, <<Latest>>)
      BY <2>4, <2>5 DEF Own, NoneBefore
    <2>6. <<Latest>> \in Seq(RunIds) /\ <<Latest>> # << >>
      BY <2>3
    <2>7. ViewAllowed(since', "latest", "record", <<Latest>>, << >>)
      BY <2>1, <2>5, <2>6 DEF ViewAllowed, ViewKinds, ViewStages
    <2> QED
      BY <2>1, <2>7, Viewed
  <1>5. CASE RunList # << >> /\ OpenView("findings", "findings", <<Latest>>, << >>)
    <2>1. /\ UNCHANGED vars /\ since' = Answered
          /\ view' = [kind |-> "findings", stage |-> "findings", todo |-> <<Latest>>,
                      rows |-> << >>]
      BY <1>5 DEF OpenView
    <2>2. RunList \in Seq(RunIds)
      BY RunListInOrder
    <2>3. Latest \in RunIds
      BY <1>5, <2>2 DEF Latest, Last
    <2>4. <<Latest>> \in Seq(RunIds) /\ <<Latest>> # << >>
      BY <2>3
    <2>5. ViewAllowed(since', "findings", "findings", <<Latest>>, << >>)
      BY <2>4 DEF ViewAllowed, ViewKinds, ViewStages, Own
    <2> QED
      BY <2>1, <2>5, Viewed
  <1> QED
    BY <1>2, <1>3, <1>4, <1>5 DEF Open, GiveFeedback

(* One more row, of the run whose id is the first of the todo, or, of one  *)
(* that cannot be read, none.                                              *)
LEMMA StepLoadRow == FilesInv /\ ViewInv /\ LoadRow => ViewInv'
  <1> SUFFICES ASSUME FilesInv, ViewInv, LoadRow PROVE ViewInv'
    OBVIOUS
  <1> DEFINE rows == view.rows
             todo == view.todo
             n == Head(todo)
             c == disk[RunFile(n)]
             row == [run |-> n, of |-> c]
             M == Len(rows)
             N == Len(todo)
             rest == Tail(todo)
             more == Append(rows, row)
  <1>0. TypeOK
    BY DEF FilesInv, IInv
  <1>1. /\ view.stage = "list" /\ todo # << >> /\ view.kind = "dashboard"
        /\ rows \in Seq(Rows) /\ todo \in Seq(RunIds) /\ Listing(rows, todo)
        /\ since \subseteq Answered
        /\ \A q \in since : OwnRun(q) => Own(q, rows) /\ Queued(q, rows, todo)
    BY DEF LoadRow, ViewInv, ViewTyped, ViewOf
  <1>2. /\ M \in Nat /\ N \in Nat \ {0} /\ n = todo[1] /\ n \in RunIds
        /\ rest \in Seq(RunIds) /\ Len(rest) = N - 1
        /\ \A k \in 1..N - 1 : rest[k] = todo[k + 1]
    BY <1>1
  <1>3. /\ UNCHANGED vars /\ since' = since
        /\ view' = [kind |-> "dashboard", stage |-> "list", todo |-> rest,
                    rows |-> IF Readable(c) THEN more ELSE rows]
    BY <1>1 DEF LoadRow, ViewInv, ViewTyped, Row, Run
  <1>4. \A q \in Answered : OwnRun(q) => q \in Reviews /\ disk[RunFile(id[q])] = q
    BY OwnFiles
  <1>5. Readable(c) => row \in Rows
    BY <1>0, <1>2, RunFilesThere, ReadsReview DEF Rows
  <1>6. Readable(c) => /\ more \in Seq(Rows) /\ Len(more) = M + 1 /\ more[M + 1] = row
                       /\ \A k \in 1..M : more[k] = rows[k]
    BY <1>1, <1>5, Appended
  <1>7. /\ \A i, j \in 1..M : i < j => Before(rows[i].run, rows[j].run)
        /\ \A i \in 1..M, j \in 1..N : Before(rows[i].run, todo[j])
        /\ \A i, j \in 1..N : i < j => Before(todo[i], todo[j])
    BY <1>1 DEF Listing
  <1> HIDE DEF c, rows, todo, n, M, N, rest, more
  <1>8. Listing(rows, rest)
    <2>1. \A i \in 1..M, j \in 1..N - 1 : Before(rows[i].run, rest[j])
      BY <1>2, <1>7
    <2>2. \A i, j \in 1..N - 1 : i < j => Before(rest[i], rest[j])
      BY <1>2, <1>7
    <2> QED
      BY <1>2, <1>7, <2>1, <2>2 DEF Listing, M
  <1>9. ASSUME Readable(c) PROVE Listing(more, rest)
    <2>1. \A i, j \in 1..M + 1 : i < j => Before(more[i].run, more[j].run)
      <3> SUFFICES ASSUME NEW i \in 1..M + 1, NEW j \in 1..M + 1, i < j
                   PROVE  Before(more[i].run, more[j].run)
        OBVIOUS
      <3>1. i \in 1..M /\ more[i] = rows[i]
        BY <1>2, <1>6, <1>9
      <3>2. CASE j \in 1..M
        BY <1>6, <1>7, <1>9, <3>1, <3>2
      <3>3. CASE j = M + 1
        <4>1. more[j].run = todo[1]
          BY <1>2, <1>6, <1>9, <3>3
        <4> QED
          BY <1>2, <1>7, <3>1, <4>1
      <3> QED
        BY <1>2, <3>2, <3>3
    <2>2. \A i \in 1..M + 1, j \in 1..N - 1 : Before(more[i].run, rest[j])
      <3> SUFFICES ASSUME NEW i \in 1..M + 1, NEW j \in 1..N - 1
                   PROVE  Before(more[i].run, rest[j])
        OBVIOUS
      <3>1. j + 1 \in 1..N /\ rest[j] = todo[j + 1]
        BY <1>2
      <3>2. CASE i \in 1..M
        BY <1>6, <1>7, <1>9, <3>1, <3>2
      <3>3. CASE i = M + 1
        <4>1. more[i].run = todo[1] /\ 1 \in 1..N
          BY <1>2, <1>6, <1>9, <3>3
        <4> QED
          BY <1>2, <1>7, <3>1, <4>1
      <3> QED
        BY <1>2, <3>2, <3>3
    <2>3. \A i, j \in 1..N - 1 : i < j => Before(rest[i], rest[j])
      BY <1>2, <1>7
    <2> QED
      BY <1>2, <1>6, <1>9, <2>1, <2>2, <2>3 DEF Listing
  <1>10. ASSUME NEW q \in since, OwnRun(q)
         PROVE  IF Readable(c) THEN Own(q, more) /\ Queued(q, more, rest)
                ELSE Own(q, rows) /\ Queued(q, rows, rest)
    <2>1. q \in Reviews /\ disk[RunFile(id[q])] = q
      BY <1>1, <1>4, <1>10
    <2>2. n = id[q] => c = q /\ Readable(c)
      BY <2>1, LedgerAssumption DEF c, Readable
    <2>3. /\ \A k \in 1..M : rows[k].run = id[q] => rows[k].of = q
          /\ \/ \E k \in 1..M : rows[k].run = id[q] /\ rows[k].of = q
             \/ \E k \in 1..N : todo[k] = id[q]
      BY <1>1, <1>10 DEF Own, Queued, M, N
    <2>4. \/ \E k \in 1..M : rows[k].run = id[q] /\ rows[k].of = q
          \/ n = id[q]
          \/ \E k \in 1..N - 1 : rest[k] = id[q]
      <3>1. ASSUME NEW k \in 1..N, todo[k] = id[q], k # 1
            PROVE  k - 1 \in 1..N - 1 /\ rest[k - 1] = id[q]
        BY <1>2, <3>1
      <3> QED
        BY <1>2, <2>3, <3>1
    <2>5. CASE Readable(c)
      <3>1. /\ \A k \in 1..M : more[k] = rows[k]
            /\ more[M + 1].run = n /\ more[M + 1].of = c /\ Len(more) = M + 1
        BY <1>6, <2>5
      <3>2. Own(q, more)
        <4>1. ASSUME NEW k \in 1..M + 1, more[k].run = id[q] PROVE more[k].of = q
          <5>1. CASE k \in 1..M
            BY <2>3, <3>1, <4>1, <5>1
          <5>2. CASE k = M + 1
            BY <2>2, <3>1, <4>1, <5>2
          <5> QED
            BY <1>2, <5>1, <5>2
        <4> QED
          BY <3>1, <4>1 DEF Own
      <3>3. \/ \E k \in 1..M + 1 : more[k].run = id[q] /\ more[k].of = q
            \/ \E k \in 1..N - 1 : rest[k] = id[q]
        BY <1>2, <2>2, <2>4, <3>1
      <3> QED
        BY <1>2, <2>5, <3>1, <3>2, <3>3 DEF Queued
    <2>6. CASE ~Readable(c)
      BY <1>2, <2>2, <2>3, <2>4, <2>6 DEF Own, Queued, M
    <2> QED
      BY <2>5, <2>6
  <1>11. ViewAllowed(since', "dashboard", "list", rest, IF Readable(c) THEN more ELSE rows)
    <2>1. CASE Readable(c)
      <3>1. ViewAllowed(since', "dashboard", "list", rest, more)
        BY <1>2, <1>3, <1>6, <1>9, <1>10, <2>1 DEF ViewAllowed, ViewKinds, ViewStages
      <3> QED
        BY <2>1, <3>1
    <2>2. CASE ~Readable(c)
      <3>1. ViewAllowed(since', "dashboard", "list", rest, rows)
        BY <1>1, <1>2, <1>3, <1>8, <1>10, <2>2 DEF ViewAllowed, ViewKinds, ViewStages, rows
      <3> QED
        BY <2>2, <3>1
    <2> QED
      BY <2>1, <2>2
  <1>12. since' \subseteq Answered
    BY <1>1, <1>3
  <1> QED
    BY <1>3, <1>11, <1>12, Viewed

(* The last rows, as many as fit, the other way round.                     *)
LEMMA StepShowDashboard == FilesInv /\ ViewInv /\ ShowDashboard => ViewInv'
  <1> SUFFICES ASSUME FilesInv, ViewInv, ShowDashboard PROVE ViewInv'
    OBVIOUS
  <1> DEFINE rows == view.rows
             M == Len(rows)
             D == Min({DASHBOARD_ROWS, Len(Reverse(rows))})
             last == SubSeq(Reverse(rows), 1, D)
  <1>1. /\ view.stage = "list" /\ view.todo = << >> /\ view.kind = "dashboard"
        /\ rows \in Seq(Rows) /\ M \in Nat
        /\ \A i, j \in 1..M : i < j => Before(rows[i].run, rows[j].run)
        /\ since \subseteq Answered
        /\ \A q \in since : OwnRun(q) => Own(q, rows) /\ Queued(q, rows, << >>)
    BY DEF ShowDashboard, ViewInv, ViewTyped, ViewOf, Listing
  <1>2. /\ UNCHANGED vars /\ since' = since
        /\ view' = [kind |-> "dashboard", stage |-> "shown", todo |-> << >>, rows |-> last]
    BY <1>1 DEF ShowDashboard, Show, ViewInv, ViewTyped
  <1>3. /\ Reverse(rows) \in Seq(Rows) /\ Len(Reverse(rows)) = M
        /\ \A n \in 1..M : Reverse(rows)[n] = rows[M - n + 1]
    BY <1>1 DEF Reverse
  <1>4. D = IF DASHBOARD_ROWS <= M THEN DASHBOARD_ROWS ELSE M
    <2> DEFINE d == IF DASHBOARD_ROWS <= M THEN DASHBOARD_ROWS ELSE M
               S == {DASHBOARD_ROWS, M}
    <2>1. d \in S /\ (\A y \in S : d <= y) /\ S \subseteq Nat
      BY <1>1, LedgerViewsAssumption
    <2>2. \A x \in S : (\A y \in S : x <= y) => x = d
      BY <2>1
    <2> HIDE DEF S, d, M
    <2>3. D = CHOOSE x \in S : \A y \in S : x <= y
      BY <1>3 DEF Min, S
    <2>4. D = d
      BY <2>1, <2>2, <2>3
    <2> QED
      BY <2>4 DEF d
  <1>5. D \in 0..M /\ D \in Nat
    BY <1>1, <1>4, LedgerViewsAssumption
  <1> HIDE DEF D, M, rows
  <1>6. /\ last \in Seq(Rows) /\ Len(last) = D
        /\ \A n \in 1..D : last[n] = rows[M - n + 1]
    <2> DEFINE newest == Reverse(rows)
    <2>1. newest \in Seq(Rows) /\ Len(newest) = M
      BY <1>3
    <2> HIDE DEF newest
    <2>2. /\ SubSeq(newest, 1, D) \in Seq(Rows) /\ Len(SubSeq(newest, 1, D)) = D
          /\ \A n \in 1..D : SubSeq(newest, 1, D)[n] = newest[n]
      BY <1>1, <1>5, <2>1
    <2> QED
      BY <1>3, <1>5, <2>2 DEF newest
  <1> HIDE DEF last
  <1>7. ASSUME NEW q \in since, OwnRun(q) PROVE Own(q, last) /\ Fits(q, last)
    <2>1. \A k \in 1..M : rows[k].run = id[q] => rows[k].of = q
      BY <1>1, <1>7 DEF Own, M
    <2>2. \A n \in 1..D : M - n + 1 \in 1..M
      BY <1>1, <1>5
    <2>3. Own(q, last)
      BY <1>6, <2>1, <2>2 DEF Own
    <2>4. PICK k \in 1..M : rows[k].run = id[q] /\ rows[k].of = q
      BY <1>1, <1>7 DEF Queued, M
    <2>5. CASE M - k + 1 <= D
      <3>1. M - k + 1 \in 1..D /\ M - (M - k + 1) + 1 = k
        BY <1>1, <2>4, <2>5
      <3> QED
        BY <1>6, <2>3, <2>4, <3>1 DEF Fits
    <2>6. CASE ~(M - k + 1 <= D)
      <3>1. D = DASHBOARD_ROWS
        BY <1>1, <1>4, <2>4, <2>6
      <3>2. ASSUME NEW n \in 1..D PROVE Before(id[q], last[n].run)
        <4>1. k < M - n + 1 /\ M - n + 1 \in 1..M
          BY <1>1, <1>5, <2>4, <2>6
        <4> QED
          BY <1>1, <1>6, <2>4, <4>1
      <3> QED
        BY <1>6, <2>3, <3>1, <3>2 DEF Fits
    <2> QED
      BY <1>1, <1>5, <2>5, <2>6
  <1>8. << >> \in Seq(RunIds)
    OBVIOUS
  <1>9. ViewAllowed(since', "dashboard", "shown", << >>, last)
    BY <1>2, <1>6, <1>7, <1>8 DEF ViewAllowed, ViewKinds, ViewStages
  <1>10. since' \subseteq Answered
    BY <1>1, <1>2
  <1> QED
    BY <1>2, <1>9, <1>10, Viewed

LEMMA Showing ==
    ASSUME ViewTyped, NEW r \in Seq(Rows)
    PROVE  /\ Show(r) => view' = [kind |-> view.kind, stage |-> "shown", todo |-> << >>, rows |-> r]
           /\ Refuse => view' = [kind |-> view.kind, stage |-> "error", todo |-> << >>, rows |-> << >>]
           /\ view' = [view EXCEPT !.stage = "record"]
                => view' = [kind |-> view.kind, stage |-> "record", todo |-> view.todo,
                            rows |-> view.rows]
  <1>1. view \in [kind : ViewKinds, stage : ViewStages, todo : Seq(RunIds), rows : Seq(Rows)]
    BY DEF ViewTyped
  <1>2. Show(r) => view' = [kind |-> view.kind, stage |-> "shown", todo |-> << >>, rows |-> r]
    BY <1>1 DEF Show
  <1>3. Refuse => view' = [kind |-> view.kind, stage |-> "error", todo |-> << >>, rows |-> << >>]
    BY <1>1 DEF Refuse
  <1>4. view' = [view EXCEPT !.stage = "record"]
          => view' = [kind |-> view.kind, stage |-> "record", todo |-> view.todo,
                      rows |-> view.rows]
    BY <1>1
  <1> QED
    BY <1>2, <1>3, <1>4

(* What reads the record or another file of the one run it is about.       *)
LEMMA StepLoadOne ==
    FilesInv /\ ViewInv /\ (LoadRecord \/ LoadRecordAgain \/ LoadPaper \/ LoadFindings) => ViewInv'
  <1> SUFFICES ASSUME FilesInv, ViewInv, LoadRecord \/ LoadRecordAgain \/ LoadPaper \/ LoadFindings
               PROVE ViewInv'
    OBVIOUS
  <1> DEFINE rows == view.rows
             todo == view.todo
             kind == view.kind
             n == Head(todo)
             Reads(c) == c \in {disk[RunFile(n)], disk[Artifact(n, "paper.json")]} /\ Readable(c)
             row(c) == [run |-> n, of |-> c]
  <1>0. TypeOK
    BY DEF FilesInv, IInv
  <1>1. /\ view.stage \in {"record", "again", "paper", "findings"} /\ todo # << >>
        /\ kind # "dashboard" /\ kind \in ViewKinds
        /\ rows \in Seq(Rows) /\ todo \in Seq(RunIds)
        /\ since \subseteq Answered
        /\ \A q \in since : OwnRun(q) =>
              Own(q, rows) /\ (kind = "latest" => NoneBefore(q, rows, todo))
    BY DEF LoadRecord, LoadRecordAgain, LoadPaper, LoadFindings, ViewInv, ViewTyped, ViewOf
  <1>2. n = todo[1] /\ n \in RunIds /\ 1 \in 1..Len(todo)
    BY <1>1
  <1>3. UNCHANGED vars /\ since' = since
    BY DEF LoadRecord, LoadRecordAgain, LoadPaper, LoadFindings
  <1>4. ASSUME NEW c, Reads(c) PROVE c \in Reviews
    BY <1>0, <1>2, <1>4, RunFilesThere, ReadsReview
  <1>5. ASSUME NEW c, Reads(c), NEW q \in since, OwnRun(q), n = id[q] PROVE c = q
    <2>1. /\ disk[RunFile(id[q])] = q
          /\ \A file \in ArtifactNames : disk[Artifact(id[q], file)] = q
      BY <1>1, <1>5, OwnFiles
    <2> QED
      BY <1>5, <2>1, LedgerViewsAssumption
  <1>6. \/ view.stage = "findings" /\ view' = [view EXCEPT !.stage = "record"]
        \/ Refuse
        \/ Show(rows)
        \/ \E c : Reads(c) /\ Show(Append(rows, row(c)))
    <2>1. CASE LoadRecord
      <3> DEFINE c == disk[RunFile(n)]
      <3>1. rows = << >>
        BY <2>1 DEF LoadRecord, ViewInv, ViewTyped
      <3>2. Refuse \/ (Reads(c) /\ Show(<<row(c)>>))
        BY <2>1 DEF LoadRecord, Row, Run
      <3>3. <<row(c)>> = Append(rows, row(c))
        BY <3>1
      <3> HIDE DEF c, rows, row, Reads
      <3> QED
        BY <3>2, <3>3
    <2>2. CASE LoadRecordAgain
      <3> DEFINE c == disk[RunFile(n)]
      <3>1. Refuse \/ (Reads(c) /\ Show(Append(rows, row(c))))
        BY <2>2 DEF LoadRecordAgain, Row, Run
      <3> HIDE DEF c, rows, row, Reads
      <3> QED
        BY <3>1
    <2>3. CASE LoadPaper
      <3> DEFINE c == disk[Artifact(n, "paper.json")]
      <3>1. Show(rows \o IF Readable(c) THEN <<row(c)>> ELSE << >>)
        BY <2>3 DEF LoadPaper, Row, Run
      <3>2. Readable(c) => Reads(c)
        OBVIOUS
      <3> HIDE DEF c, rows, row, Reads
      <3>3. rows \o <<row(c)>> = Append(rows, row(c)) /\ rows \o << >> = rows
        BY <1>1
      <3>4. Show(rows) \/ (Reads(c) /\ Show(Append(rows, row(c))))
        BY <3>1, <3>2, <3>3
      <3> QED
        BY <3>4
    <2>4. CASE LoadFindings
      BY <2>4 DEF LoadFindings
    <2> QED
      BY <2>1, <2>2, <2>3, <2>4
  <1>7. << >> \in Seq(RunIds) /\ since' \subseteq Answered
    BY <1>1, <1>3
  <1> HIDE DEF rows, todo, kind, n, Reads
  <1>8. CASE view.stage = "findings" /\ view' = [view EXCEPT !.stage = "record"]
    <2>1. rows = << >>
      BY <1>8 DEF ViewInv, ViewTyped, rows
    <2>2. view' = [kind |-> kind, stage |-> "record", todo |-> todo, rows |-> rows]
      BY <1>1, <1>8, Showing DEF ViewInv, kind, todo, rows
    <2>3. ViewAllowed(since', kind, "record", todo, rows)
      BY <1>1, <1>3, <2>1 DEF ViewAllowed, ViewKinds, ViewStages
    <2> QED
      BY <1>3, <1>7, <2>2, <2>3, Viewed
  <1>9. CASE Refuse
    <2>1. view' = [kind |-> kind, stage |-> "error", todo |-> << >>, rows |-> << >>]
      BY <1>1, <1>9, Showing DEF ViewInv, kind
    <2>2. ViewAllowed(since', kind, "error", << >>, << >>)
      BY <1>1, <1>7 DEF ViewAllowed, ViewKinds, ViewStages, Own, NoneBefore
    <2> QED
      BY <1>3, <1>7, <2>1, <2>2, Viewed
  <1>10. CASE Show(rows)
    <2>1. view' = [kind |-> kind, stage |-> "shown", todo |-> << >>, rows |-> rows]
      BY <1>1, <1>10, Showing DEF ViewInv, kind
    <2>2. ViewAllowed(since', kind, "shown", << >>, rows)
      BY <1>1, <1>3, <1>7 DEF ViewAllowed, ViewKinds, ViewStages, NoneBefore
    <2> QED
      BY <1>3, <1>7, <2>1, <2>2, Viewed
  <1>11. ASSUME NEW c, Reads(c), Show(Append(rows, row(c))) PROVE ViewInv'
    <2> DEFINE more == Append(rows, row(c))
               M == Len(rows)
    <2>1. row(c) \in Rows /\ row(c).run = n /\ row(c).of = c
      BY <1>2, <1>4, <1>11 DEF Rows
    <2> HIDE DEF row
    <2>2. /\ more \in Seq(Rows) /\ Len(more) = M + 1 /\ more[M + 1] = row(c) /\ M \in Nat
          /\ \A k \in 1..M : more[k] = rows[k]
      BY <1>1, <2>1, Appended
    <2>3. Show(more)
      BY <1>11
    <2> HIDE DEF more, M
    <2>4. ASSUME NEW q \in since, OwnRun(q)
          PROVE  Own(q, more) /\ (kind = "latest" => NoneBefore(q, more, << >>))
      <3>1. \A k \in 1..M : rows[k].run = id[q] => rows[k].of = q
        BY <1>1, <2>4 DEF Own, M
      <3>2. Own(q, more)
        BY <1>5, <1>11, <2>1, <2>2, <2>4, <3>1 DEF Own
      <3>3. ASSUME kind = "latest" PROVE NoneBefore(q, more, << >>)
        <4>1. (\A k \in 1..M : ~Before(rows[k].run, id[q])) /\ ~Before(n, id[q])
          BY <1>1, <1>2, <2>4, <3>3 DEF NoneBefore, M
        <4> QED
          BY <2>1, <2>2, <4>1 DEF NoneBefore
      <3> QED
        BY <3>2, <3>3
    <2>5. ViewAllowed(since', kind, "shown", << >>, more)
      BY <1>1, <1>3, <1>7, <2>2, <2>4 DEF ViewAllowed, ViewKinds, ViewStages
    <2>6. view' = [kind |-> kind, stage |-> "shown", todo |-> << >>, rows |-> more]
      BY <2>2, <2>3, Showing DEF ViewInv, kind
    <2> QED
      BY <1>3, <1>7, <2>5, <2>6, Viewed
  <1> QED
    BY <1>6, <1>8, <1>9, <1>10, <1>11

LEMMA ViewSteps == [ViewNext]_<<vars, viewVars>> => [Next]_vars
  BY DEF ViewNext, Views, Open, OpenView, OpenRun, GiveFeedback, CloseView, LoadRow,
         ShowDashboard, LoadRecord, LoadRecordAgain, LoadPaper, LoadFindings

(* Views only read: whatever holds of the reviews and their files holds    *)
(* while the pages, reports and listings of LedgerViews are opened.        *)
THEOREM ViewsOnlyRead == ViewSpec => Spec
  <1>1. ViewInit => Init
    BY DEF ViewInit
  <1> QED
    BY <1>1, ViewSteps, PTL DEF ViewSpec, Spec

LEMMA StepViewInv == FilesInv /\ ViewInv /\ [ViewNext]_<<vars, viewVars>> => FilesInv' /\ ViewInv'
  <1> SUFFICES ASSUME FilesInv, ViewInv, [ViewNext]_<<vars, viewVars>> PROVE FilesInv' /\ ViewInv'
    OBVIOUS
  <1>1. [Next]_vars
    BY ViewSteps
  <1>2. CASE CloseView
    <2>1. UNCHANGED vars /\ view' = NoView /\ since' = {}
      BY <1>2 DEF CloseView
    <2>2. ViewAllowed(since', "none", "none", << >>, << >>)
      BY <2>1 DEF ViewAllowed, ViewKinds, ViewStages
    <2>3. ViewInv'
      BY <2>1, <2>2, Viewed DEF NoView
    <2> QED
      BY <1>1, <2>3, StepFilesInv
  <1>3. CASE UNCHANGED viewVars
    BY <1>1, <1>3, StepNext, StepFilesInv
  <1>4. CASE Views /\ ~CloseView
    <2>1. ViewInv'
      BY <1>4, StepOpen, StepLoadRow, StepShowDashboard, StepLoadOne DEF Views
    <2> QED
      BY <1>1, <2>1, StepFilesInv
  <1> QED
    BY <1>2, <1>3, <1>4 DEF ViewNext

(* An answered review whose id no overlapping review also chose is         *)
(* recorded, and every view that was opened since shows its own record and *)
(* paper, the dashboard unless as many runs listed after it fill it,       *)
(* however many reviews write, fail or leave torn files meanwhile          *)
(* (persist_artifacts, LedgerStore::list_runs, gui_dashboard, gui_report). *)
THEOREM AlwaysRecordedUnlessShared == ViewSpec => []RecordedUnlessShared
  <1>1. ViewInit => FilesInv /\ ViewInv
    BY InitFilesInv, InitViewInv DEF ViewInit
  <1>2. FilesInv /\ ViewInv => RecordedUnlessShared
    <2> SUFFICES ASSUME FilesInv, ViewInv, NEW q \in Answered, OwnRun(q)
                 PROVE  Recorded(q) /\ Shown(q)
      BY DEF RecordedUnlessShared, OwnRun
    <2>1. Recorded(q) /\ q \in Reviews /\ id[q] \in RunIds
      BY OwnFiles DEF Recorded
    <2> SUFFICES ASSUME view.stage \in {"shown", "error"}, q \in since PROVE Shown(q)
      BY <2>1 DEF Shown
    <2>2. ViewOf(q) /\ ViewTyped
      BY DEF ViewInv
    <2>3. view.rows \in Seq(Rows)
      BY <2>2 DEF ViewTyped
    <2>4. CASE view.kind = "dashboard"
      <3>1. Fits(q, view.rows)
        BY <2>2, <2>4 DEF ViewOf, ViewTyped
      <3>2. ASSUME NEW n \in 1..Len(view.rows), view.rows[n].run = id[q], view.rows[n].of = q
            PROVE  [run |-> id[q], of |-> q] \in Range(view.rows)
        <4>1. view.rows[n] \in Rows /\ view.rows[n] \in Range(view.rows)
          BY <2>3, SeqRange
        <4>2. view.rows[n] = [run |-> id[q], of |-> q]
          BY <3>2, <4>1 DEF Rows
        <4> QED
          BY <4>1, <4>2
      <3> QED
        BY <2>3, <2>4, <3>1, <3>2 DEF Fits, Shown
    <2>5. CASE view.kind # "dashboard"
      BY <2>2, <2>3, <2>5 DEF ViewOf, Own, NoneBefore, Shown
    <2> QED
      BY <2>4, <2>5
  <1> QED
    BY <1>1, <1>2, StepViewInv, PTL DEF ViewSpec

=============================================================================
