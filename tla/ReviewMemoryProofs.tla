------------------------- MODULE ReviewMemoryProofs -------------------------
(***************************************************************************)
(* Proofs about ReviewMemory and MemoryRetrieval for any number of         *)
(* processes, requests and units, with every fault allowed: types, that no *)
(* copy of a unit is in a state no human put it in, that only approved     *)
(* units are mirrored, and what a review is then guided by.  HumanConsent  *)
(* is inductive once the types are known: each step copies states between  *)
(* the copies of one unit, or applies one decision that it has just        *)
(* recorded.  What is read follows from it, whatever the state: sifting    *)
(* and sorting add nothing, and the limit cuts off what is less similar    *)
(* (FoundSorted, NoneMissing).                                             *)
(***************************************************************************)
EXTENDS MemoryRetrieval, SequencingProofs

LEMMA StateOfTyped ==
    ASSUME NEW g \in Grants
    PROVE  StateOf(g) \in ApprovalStates
  BY DEF Grants, StateOf, ApprovalStates

LEMMA InitTypeOK == Init => TypeOK
  BY MemoryAssumption DEF Init, TypeOK, Stores, EmptyStore, Retrievable

(* The requests of one process exclude each other in persist.              *)
LEMMA MutexHolder ==
    ASSUME TypeOK, NEW r \in Requests, NEW q \in Requests,
           ProcOf[q] = ProcOf[r], pc[q] = "writing"
    PROVE  /\ ~Free(r)
           /\ pc[r] = "writing" => q = r
  BY MemoryAssumption DEF TypeOK, Free

LEMMA StepTypeOK == TypeOK /\ [Next]_vars => TypeOK'
  <1> SUFFICES ASSUME TypeOK, [Next]_vars PROVE TypeOK'
    OBVIOUS
  <1> USE MemoryAssumption DEF TypeOK, Stores, EmptyStore
  <1>1. ASSUME NEW p \in Procs, Open(p) PROVE TypeOK'
    BY <1>1 DEF Open, requestVars
  <1>2. ASSUME NEW p \in Procs, Stop(p) PROVE TypeOK'
    BY <1>2 DEF Stop, Drop, Nothing
  <1>3. ASSUME NEW r \in Requests, NEW u \in Units, RecordFeedback(r, u) PROVE TypeOK'
    BY <1>3 DEF RecordFeedback, Nothing
  <1>4. ASSUME NEW r \in Requests, NEW u \in Units, NEW g \in Grants, Consent(r, u, g)
        PROVE  TypeOK'
    <2>1. StateOf(g) \in ApprovalStates
      BY StateOfTyped
    <2>2. decisions' \in Seq(Units \X Grants)
      BY <1>4 DEF Consent
    <2> QED
      BY <1>4, <2>1, <2>2 DEF Consent
  <1>5. ASSUME NEW r \in Requests, StoreUnit(r) PROVE TypeOK'
    BY <1>5 DEF StoreUnit, ApprovalStates
  <1>6. ASSUME NEW r \in Requests, PersistBegin(r) PROVE TypeOK'
    BY <1>6, MutexHolder DEF PersistBegin, Free
  <1>7. ASSUME NEW r \in Requests, PersistEnd(r) PROVE TypeOK'
    <2>1. /\ file' \in Stores /\ unreadable' \in BOOLEAN /\ overlaid' \in [Requests -> BOOLEAN]
          /\ UNCHANGED <<open, mem, loaded, mirror, allocated, decisions>>
      BY <1>7 DEF PersistEnd
    <2>2. /\ pc[r] = "writing" /\ pc'[r] \in {"idle", "mirror"}
          /\ pc' \in [Requests -> {"idle", "embedding", "persist", "writing", "mirror", "upsert"}]
          /\ \A q \in Requests \ {r} : pc'[q] = pc[q]
      BY <1>7 DEF PersistEnd
    <2>3. /\ mutex' \in [Procs -> Requests \cup {NoRequest}]
          /\ mutex'[ProcOf[r]] = NoRequest
          /\ \A p \in Procs \ {ProcOf[r]} : mutex'[p] = mutex[p]
      BY <1>7 DEF PersistEnd
    <2>4. /\ arg' \in [Requests -> Units \cup {Nothing}] /\ grant' \in [Requests -> Grants \cup {Nothing}]
          /\ \A q \in Requests \ {r} : arg'[q] = arg[q]
          /\ pc'[r] # "idle" => arg'[r] = arg[r]
      BY <1>7 DEF PersistEnd
    <2>5. ASSUME NEW q \in Requests PROVE mutex'[ProcOf[q]] = q <=> pc'[q] = "writing"
      <3>1. CASE q = r
        BY <2>2, <2>3, <3>1
      <3>2. CASE q # r /\ ProcOf[q] = ProcOf[r]
        BY <2>2, <2>3, <3>2, MutexHolder
      <3>3. CASE ProcOf[q] # ProcOf[r]
        <4>1. mutex'[ProcOf[q]] = mutex[ProcOf[q]] /\ pc'[q] = pc[q]
          BY <2>2, <2>3, <3>3
        <4> QED
          BY <4>1
      <3> QED
        BY <3>1, <3>2, <3>3
    <2>6. ASSUME NEW q \in Requests
          PROVE  /\ pc'[q] # "idle" => arg'[q] \in Units
                 /\ IF pc'[q] = "upsert" THEN Retrievable(loaded'[q]) ELSE loaded'[q] = Absent
      <3>1. loaded'[q] = loaded[q] /\ (pc'[q] = "upsert" <=> pc[q] = "upsert")
        BY <2>1, <2>2
      <3>2. pc'[q] # "idle" => pc[q] # "idle" /\ arg'[q] = arg[q]
        BY <2>2, <2>4
      <3> QED
        BY <3>1, <3>2
    <2> QED
      BY <2>1, <2>2, <2>3, <2>4, <2>5, <2>6
  <1>8. ASSUME NEW r \in Requests, MirrorLoad(r) PROVE TypeOK'
    <2> DEFINE s == mem[ProcOf[r]][arg[r]]
    <2>1. CASE Retrievable(s)
      <3>1. s \in ApprovalStates
        BY <2>1 DEF Retrievable, ApprovalStates
      <3>2. /\ pc[r] = "mirror" /\ pc' = [pc EXCEPT ![r] = "upsert"]
            /\ loaded' = [loaded EXCEPT ![r] = s]
            /\ UNCHANGED <<open, mem, file, unreadable, mutex, arg, grant, overlaid,
                           mirror, allocated, decisions>>
        BY <1>8, <2>1 DEF MirrorLoad
      <3> HIDE <1>8, <2>1 DEF s
      <3>3. Retrievable(s)
        BY <2>1
      <3> QED
        BY <3>1, <3>2, <3>3
    <2>2. CASE ~Retrievable(s)
      <3>1. /\ pc[r] = "mirror" /\ Drop({r})
            /\ UNCHANGED <<open, mem, file, unreadable, mutex, mirror, allocated, decisions>>
        BY <1>8, <2>2 DEF MirrorLoad, Answer
      <3> HIDE <1>8, <2>2
      <3> QED
        BY <3>1 DEF Drop
    <2> QED
      BY <2>1, <2>2
  <1>9. ASSUME NEW r \in Requests, Upsert(r) PROVE TypeOK'
    BY <1>9 DEF Upsert, Answer, Drop
  <1>10. ASSUME NEW r \in Requests, EmbedFails(r) PROVE TypeOK'
    BY <1>10 DEF EmbedFails, Answer, Drop
  <1>11. ASSUME NEW r \in Requests, PersistFails(r) PROVE TypeOK'
    <2>1. CASE pc[r] = "persist" /\ Free(r) /\ UNCHANGED mutex
      BY <1>11, <2>1 DEF PersistFails, Answer, Drop, Free
    <2>2. CASE pc[r] = "writing" /\ mutex' = [mutex EXCEPT ![ProcOf[r]] = NoRequest]
      <3>1. \A q \in Requests : ProcOf[q] = ProcOf[r] /\ pc[q] = "writing" => q = r
        BY <2>2, MutexHolder
      <3>2. \A q \in Requests : mutex'[ProcOf[q]] = q <=> pc'[q] = "writing"
        BY <1>11, <2>2, <3>1 DEF PersistFails, Answer, Drop
      <3> QED
        BY <1>11, <2>2, <3>2 DEF PersistFails, Answer, Drop
    <2> QED
      BY <1>11, <2>1, <2>2 DEF PersistFails
  <1>12. ASSUME NEW r \in Requests, UpsertFails(r) PROVE TypeOK'
    BY <1>12 DEF UpsertFails, Answer, Drop
  <1>13. CASE UNCHANGED vars
    BY <1>13 DEF vars, requestVars
  <1> QED
    BY <1>1, <1>2, <1>3, <1>4, <1>5, <1>6, <1>7, <1>8, <1>9, <1>10, <1>11, <1>12, <1>13
    DEF Next, Step

(* Types hold in every behaviour, with every fault.                        *)
THEOREM MemoryTypeCorrect == Spec => []TypeOK
  BY InitTypeOK, StepTypeOK, PTL DEF Spec

-----------------------------------------------------------------------------
(* A decision once taken stays taken.                                      *)
LEMMA DecidedStable ==
    ASSUME TypeOK, NEW u \in Units, NEW s, Decided(u, s),
           \/ decisions' = decisions
           \/ \E d \in Units \X Grants : decisions' = Append(decisions, d)
    PROVE  Decided(u, s)'
  <1>1. CASE decisions' = decisions
    BY <1>1 DEF Decided
  <1>2. ASSUME NEW d \in Units \X Grants, decisions' = Append(decisions, d)
        PROVE  Decided(u, s)'
    <2>1. /\ Len(decisions) \in Nat
          /\ Len(decisions') = Len(decisions) + 1
          /\ \A k \in 1..Len(decisions) : decisions'[k] = decisions[k]
      BY <1>2 DEF TypeOK
    <2>2. ASSUME NEW k \in 1..Len(decisions), decisions[k][1] = u, s = StateOf(decisions[k][2])
          PROVE  \E j \in 1..Len(decisions') : decisions'[j][1] = u /\ s = StateOf(decisions'[j][2])
      BY <2>1, <2>2
    <2> QED
      BY <2>2 DEF Decided
  <1> QED
    BY <1>1, <1>2

(* The decision a consent applies is the one it has just recorded.         *)
LEMMA ConsentDecided ==
    ASSUME TypeOK, NEW r \in Requests, NEW u \in Units, NEW g \in Grants, Consent(r, u, g)
    PROVE  Decided(u, StateOf(g))'
  <1>1. decisions \in Seq(Units \X Grants) /\ decisions' = Append(decisions, <<u, g>>)
    BY DEF TypeOK, Consent
  <1>2. /\ Len(decisions) + 1 \in 1..Len(decisions')
        /\ decisions'[Len(decisions) + 1] = <<u, g>>
    BY <1>1
  <1> QED
    BY <1>2 DEF Decided

LEMMA InitHumanConsent == Init => HumanConsent
  BY MemoryAssumption DEF Init, HumanConsent, Decided, EmptyStore

(* Each step copies states between the copies of one unit, enters a unit   *)
(* as private, or applies the decision it records.                         *)
LEMMA StepHumanConsent == TypeOK /\ HumanConsent /\ [Next]_vars => HumanConsent'
  <1> SUFFICES ASSUME TypeOK, HumanConsent, [Next]_vars, NEW u \in Units
               PROVE  /\ \A p \in Procs : Decided(u, mem[p][u])'
                      /\ Decided(u, file[u])'
                      /\ Decided(u, mirror[u])'
                      /\ \A r \in Requests : arg'[r] = u => Decided(u, loaded[r])'
    BY DEF HumanConsent
  <1> DEFINE Old(s) == \/ s \in {Absent, "private"}
                       \/ \E k \in 1..Len(decisions) :
                             decisions[k][1] = u /\ s = StateOf(decisions[k][2])
             New(s) == \/ s \in {Absent, "private"}
                       \/ \E k \in 1..Len(decisions') :
                             decisions'[k][1] = u /\ s = StateOf(decisions'[k][2])
             Goal == /\ \A p \in Procs : New(mem'[p][u])
                     /\ New(file'[u])
                     /\ New(mirror'[u])
                     /\ \A r \in Requests : arg'[r] = u => New(loaded'[r])
  <1>a. /\ \A p \in Procs : Old(mem[p][u])
        /\ Old(file[u])
        /\ Old(mirror[u])
        /\ \A r \in Requests : arg[r] = u => Old(loaded[r])
    BY DEF HumanConsent, Decided
  <1>b. New(Absent) /\ New("private")
    OBVIOUS
  <1>c. ASSUME \/ decisions' = decisions
               \/ \E d \in Units \X Grants : decisions' = Append(decisions, d),
               NEW s, Old(s)
        PROVE  New(s)
    BY <1>c, DecidedStable DEF Decided
  <1>d. ASSUME NEW r \in Requests, NEW g \in Grants, Consent(r, u, g) PROVE New(StateOf(g))
    BY <1>d, ConsentDecided DEF Decided
  <1>e. /\ mem \in [Procs -> [Units -> ApprovalStates \cup {Absent}]]
        /\ ProcOf \in [Requests -> Procs]
        /\ arg \in [Requests -> Units \cup {Nothing}]
        /\ loaded \in [Requests -> ApprovalStates \cup {Absent}]
        /\ file \in [Units -> ApprovalStates \cup {Absent}]
        /\ mirror \in [Units -> ApprovalStates \cup {Absent}]
    BY MemoryAssumption DEF TypeOK, Stores
  <1> HIDE DEF Old, New
  <1>1. ASSUME NEW p \in Procs, Open(p) PROVE Goal
    BY <1>1, <1>a, <1>b, <1>c, <1>e DEF Open, EmptyStore, requestVars
  <1>2. ASSUME NEW p \in Procs, Stop(p) PROVE Goal
    BY <1>2, <1>a, <1>b, <1>c, <1>e DEF Stop, Drop, EmptyStore, Nothing
  <1>3. ASSUME NEW r \in Requests, NEW v \in Units, RecordFeedback(r, v) PROVE Goal
    <2>1. /\ arg' = [arg EXCEPT ![r] = v] /\ loaded[r] = Absent
          /\ UNCHANGED <<mem, file, mirror, loaded, decisions>>
      BY <1>3 DEF RecordFeedback, TypeOK
    <2> QED
      BY <2>1, <1>a, <1>b, <1>c, <1>e
  <1>4. ASSUME NEW r \in Requests, NEW v \in Units, NEW g \in Grants, Consent(r, v, g)
        PROVE  Goal
    <2>1. /\ decisions' = Append(decisions, <<v, g>>) /\ UNCHANGED <<file, mirror, loaded>>
          /\ mem' = [mem EXCEPT ![ProcOf[r]][v] = StateOf(g)]
          /\ arg' = [arg EXCEPT ![r] = v] /\ loaded[r] = Absent
      BY <1>4 DEF Consent, TypeOK
    <2>2. v = u => New(StateOf(g))
      BY <1>4, <1>d
    <2>3. \A s : Old(s) => New(s)
      BY <2>1, <1>c
    <2> QED
      BY <2>1, <2>2, <2>3, <1>a, <1>b, <1>e
  <1>5. ASSUME NEW r \in Requests, StoreUnit(r) PROVE Goal
    BY <1>5, <1>a, <1>b, <1>c, <1>e DEF StoreUnit
  <1>6. ASSUME NEW r \in Requests, PersistBegin(r) PROVE Goal
    BY <1>6, <1>a, <1>c DEF PersistBegin
  <1>7. ASSUME NEW r \in Requests, PersistEnd(r) PROVE Goal
    <2>1. /\ file' = mem[ProcOf[r]] /\ UNCHANGED <<mem, loaded, mirror, decisions>>
          /\ \E a : arg' = [arg EXCEPT ![r] = a]
          /\ loaded[r] = Absent
      BY <1>7 DEF PersistEnd, TypeOK
    <2> QED
      BY <2>1, <1>a, <1>b, <1>c, <1>e
  <1>8. ASSUME NEW r \in Requests, MirrorLoad(r) PROVE Goal
    <2>1. UNCHANGED <<mem, file, mirror, decisions>>
      BY <1>8 DEF MirrorLoad
    <2>2. CASE Retrievable(mem[ProcOf[r]][arg[r]])
      BY <1>8, <2>1, <2>2, <1>a, <1>c, <1>e DEF MirrorLoad
    <2>3. CASE ~Retrievable(mem[ProcOf[r]][arg[r]])
      <3>1. Drop({r})
        BY <1>8, <2>3 DEF MirrorLoad, Answer
      <3> QED
        BY <3>1, <2>1, <1>a, <1>b, <1>c, <1>e DEF Drop
    <2> QED
      BY <2>2, <2>3
  <1>9. ASSUME NEW r \in Requests, Upsert(r) PROVE Goal
    BY <1>9, <1>a, <1>b, <1>c, <1>e DEF Upsert, Answer, Drop
  <1>10. ASSUME NEW r \in Requests, EmbedFails(r) \/ PersistFails(r) \/ UpsertFails(r)
         PROVE  Goal
    <2>1. Drop({r}) /\ UNCHANGED <<mem, file, mirror, decisions>>
      BY <1>10 DEF EmbedFails, PersistFails, UpsertFails, Answer
    <2> QED
      BY <2>1, <1>a, <1>b, <1>c, <1>e DEF Drop
  <1>11. ASSUME UNCHANGED vars PROVE Goal
    BY <1>11, <1>a, <1>c DEF vars, requestVars
  <1>12. Goal
    <2> HIDE DEF Goal
    <2> QED
      BY <1>1, <1>2, <1>3, <1>4, <1>5, <1>6, <1>7, <1>8, <1>9, <1>10, <1>11 DEF Next, Step
  <1> QED
    BY <1>12 DEF New, Decided

(* No copy of a unit is ever in a state other than private that no human   *)
(* put that very unit in, however many processes and requests race,        *)
(* whatever fails and whenever they crash.                                 *)
THEOREM HumanConsentAlways == Spec => []HumanConsent
  BY InitTypeOK, StepTypeOK, InitHumanConsent, StepHumanConsent, PTL DEF Spec

-----------------------------------------------------------------------------
LEMMA StepMirrorHoldsApproved ==
    TypeOK /\ MirrorHoldsApproved /\ [Next]_vars => MirrorHoldsApproved'
  <1> SUFFICES ASSUME TypeOK, MirrorHoldsApproved, [Next]_vars PROVE MirrorHoldsApproved'
    OBVIOUS
  <1>1. ASSUME NEW r \in Requests, Upsert(r) PROVE MirrorHoldsApproved'
    <2>1. /\ mirror' = [mirror EXCEPT ![arg[r]] = loaded[r]]
          /\ Retrievable(loaded[r])
          /\ mirror \in [Units -> ApprovalStates \cup {Absent}]
      BY <1>1 DEF Upsert, TypeOK, Stores
    <2> QED
      BY <2>1 DEF MirrorHoldsApproved, Retrievable
  <1>2. CASE UNCHANGED mirror
    BY <1>2 DEF MirrorHoldsApproved, Retrievable
  <1>3. (\E r \in Requests : Upsert(r)) \/ UNCHANGED mirror
    BY DEF Next, vars, Step, Open, Stop, RecordFeedback, StoreUnit, EmbedFails, Consent,
           PersistBegin, PersistEnd, PersistFails, MirrorLoad, UpsertFails
  <1> QED
    BY <1>1, <1>2, <1>3

(* Only approved units are ever uploaded to the mirror, whatever decision  *)
(* overtakes an approval that is on its way there.                         *)
THEOREM MirrorAlwaysApproved == Spec => []MirrorHoldsApproved
  <1>1. Init => MirrorHoldsApproved
    BY DEF Init, MirrorHoldsApproved, EmptyStore
  <1> QED
    BY <1>1, InitTypeOK, StepTypeOK, StepMirrorHoldsApproved, PTL DEF Spec
-----------------------------------------------------------------------------
(* What is read.  A state that a human put a unit in, in any copy of it.   *)
LEMMA StateApproved ==
    ASSUME TypeOK, NEW u \in Units, NEW s, Decided(u, s)
    PROVE  /\ Retrievable(s) => ApprovedOnce(u, {"approve_memory", "approve_training"})
           /\ s = "training_approved" => ApprovedOnce(u, {"approve_training"})
  <1> SUFFICES ASSUME Retrievable(s)
               PROVE  /\ ApprovedOnce(u, {"approve_memory", "approve_training"})
                      /\ s = "training_approved" => ApprovedOnce(u, {"approve_training"})
    BY DEF Retrievable
  <1>1. PICK k \in 1..Len(decisions) : decisions[k][1] = u /\ s = StateOf(decisions[k][2])
    BY DEF Decided, Retrievable, Absent
  <1>2. decisions[k][2] \in Grants
    BY DEF TypeOK
  <1>3. \A g \in Grants : /\ StateOf(g) = "training_approved" => g = "approve_training"
                          /\ StateOf(g) = "memory_approved" => g = "approve_memory"
    BY DEF Grants, StateOf
  <1>4. /\ s = "training_approved" => decisions[k][2] = "approve_training"
        /\ s = "memory_approved" => decisions[k][2] = "approve_memory"
    BY <1>1, <1>2, <1>3, Zenon
  <1> QED
    BY <1>1, <1>4 DEF ApprovedOnce, Retrievable

LEMMA OpenedApproved ==
    ASSUME TypeOK, HumanConsent, NEW u \in Units
    PROVE  /\ Retrievable(OpenedNow[u]) => ApprovedOnce(u, {"approve_memory", "approve_training"})
           /\ OpenedNow[u] = "training_approved" => ApprovedOnce(u, {"approve_training"})
           /\ Retrievable(mirror[u]) => ApprovedOnce(u, {"approve_memory", "approve_training"})
  <1>1. Decided(u, file[u]) /\ Decided(u, mirror[u]) /\ Decided(u, EmptyStore[u])
    BY DEF HumanConsent, EmptyStore, Decided
  <1>2. Decided(u, OpenedNow[u])
    BY <1>1 DEF OpenedNow
  <1> QED
    BY <1>1, <1>2, StateApproved

LEMMA Truncated ==
    ASSUME NEW S, NEW s \in Seq(S), NEW limit \in Nat
    PROVE  /\ Truncate(s, limit) \in Seq(S)
           /\ Len(Truncate(s, limit)) = IF Len(s) <= limit THEN Len(s) ELSE limit
           /\ \A n \in 1..Len(Truncate(s, limit)) : n \in 1..Len(s) /\ Truncate(s, limit)[n] = s[n]
           /\ Range(Truncate(s, limit)) \subseteq Range(s)
  <1> DEFINE m == IF Len(s) <= limit THEN Len(s) ELSE limit
             t == SubSeq(s, 1, m)
  <1>1. Len(s) \in Nat /\ m \in 0..Len(s)
    OBVIOUS
  <1> HIDE DEF m
  <1>2. t \in Seq(S) /\ Len(t) = m /\ \A n \in 1..m : t[n] = s[n] /\ n \in 1..Len(s)
    BY <1>1
  <1>3. Truncate(s, limit) = t
    BY DEF Truncate, m
  <1> HIDE DEF t
  <1>4. Range(t) \subseteq Range(s)
    <2>1. \A x \in Range(t) : \E n \in 1..Len(t) : t[n] = x
      BY <1>2, SeqRange
    <2>2. \A n \in 1..Len(s) : s[n] \in Range(s)
      BY SeqRange
    <2> QED
      BY <1>2, <2>1, <2>2
  <1> QED
    BY <1>2, <1>3, <1>4 DEF m

LEMMA NearerStrict ==
    ASSUME NEW q \in Queries, NEW v
    PROVE  StrictOn(Nearer(q, v), Units) /\ \A u \in Units : Similarity(u, q, v) \in Nat
  <1>1. \A u \in Units : Similarity(u, q, v) \in Nat
    BY RetrievalAssumption DEF Similarity
  <1>2. \A x, y \in Units : <<x, y>> \in Nearer(q, v) <=> Similarity(x, q, v) > Similarity(y, q, v)
    BY DEF Nearer
  <1> QED
    BY <1>1, <1>2 DEF StrictOn

(* What the file store finds, before the limit.                            *)
Found(store, c, q, v) ==
    LET eligible == Sift(Order, {u \in Units : Retrievable(store[u]) /\ AccessibleTo(u, c)})
    IN  IF q.blank THEN eligible ELSE Ranked(Sift(eligible, Relevant(q, v)), Nearer(q, v))

LEMMA FoundSorted ==
    ASSUME NEW store, NEW c, NEW q \in Queries, NEW v
    PROVE  /\ Found(store, c, q, v) \in Seq(Units) /\ IsInjective(Found(store, c, q, v))
           /\ \A u \in Range(Found(store, c, q, v)) :
                 u \in Units /\ Retrievable(store[u]) /\ AccessibleTo(u, c)
           /\ \A u \in Units :
                 Retrievable(store[u]) /\ AccessibleTo(u, c) /\ (q.blank \/ u \in Relevant(q, v)) =>
                    u \in Range(Found(store, c, q, v))
           /\ ~q.blank => \A i, j \in 1..Len(Found(store, c, q, v)) :
                 i < j => Similarity(Found(store, c, q, v)[i], q, v)
                             >= Similarity(Found(store, c, q, v)[j], q, v)
           /\ Truncate(Found(store, c, q, v), TopK) = RetrieveScored(store, c, q, v)
  <1> DEFINE E == {u \in Units : Retrievable(store[u]) /\ AccessibleTo(u, c)}
             eligible == Sift(Order, E)
             T == Relevant(q, v)
             relevant == Sift(eligible, T)
             R == Nearer(q, v)
             ranked == Ranked(relevant, R)
             found == IF q.blank THEN eligible ELSE ranked
  <1>1. Order \in Seq(Units) /\ IsInjective(Order) /\ Range(Order) = Units
    BY RetrievalAssumption
  <1>2. E \subseteq Units
    OBVIOUS
  <1>3. StrictOn(R, Units) /\ \A u \in Units : Similarity(u, q, v) \in Nat
    BY NearerStrict
  <1>4. \A x, y \in Units : <<y, x>> \notin R => ~(Similarity(y, q, v) > Similarity(x, q, v))
    BY DEF Nearer
  <1>5. Truncate(found, TopK) = RetrieveScored(store, c, q, v)
    BY Zenon DEF RetrieveScored
  <1> HIDE DEF E, T, R
  <1>6. eligible \in Seq(Units) /\ Range(eligible) = E /\ IsInjective(eligible)
    <2>1. eligible \in Seq(Units) /\ Range(eligible) = Range(Order) \cap E
      BY <1>1, SiftRange
    <2>2. IsInjective(eligible)
      BY <1>1, SiftOnce
    <2> QED
      BY <1>1, <1>2, <2>1, <2>2
  <1> HIDE DEF eligible
  <1>7. relevant \in Seq(Units) /\ Range(relevant) = E \cap T /\ IsInjective(relevant)
    BY <1>6, SiftRange, SiftOnce
  <1> HIDE DEF relevant
  <1>12. /\ ranked \in Seq(Units) /\ Range(ranked) = E \cap T /\ IsInjective(ranked)
         /\ InOrder(ranked, NotAfter(R, Units))
    BY <1>3, <1>7, RankedSorted
  <1> HIDE DEF ranked
  <1>8. /\ found \in Seq(Units) /\ IsInjective(found)
        /\ Range(found) = IF q.blank THEN E ELSE E \cap T
        /\ ~q.blank => InOrder(found, NotAfter(R, Units))
    BY <1>6, <1>12
  <1> HIDE DEF found
  <1>9. ASSUME ~q.blank, NEW i \in 1..Len(found), NEW j \in 1..Len(found), i < j
        PROVE  Similarity(found[i], q, v) >= Similarity(found[j], q, v)
    <2>1. found[i] \in Units /\ found[j] \in Units
      BY <1>8
    <2>2. <<found[j], found[i]>> \notin R
      BY <1>8, <1>9 DEF InOrder, NotAfter
    <2> QED
      BY <1>3, <1>4, <2>1, <2>2
  <1>10. found = Found(store, c, q, v)
    BY Zenon DEF Found, found, ranked, relevant, eligible, E, T, R
  <1>11. /\ \A u \in E : u \in Units /\ Retrievable(store[u]) /\ AccessibleTo(u, c)
         /\ \A u \in Units : Retrievable(store[u]) /\ AccessibleTo(u, c) => u \in E
         /\ \A u \in Relevant(q, v) : u \in T
    BY DEF E, T
  <1>13. /\ \A u \in Range(found) : u \in Units /\ Retrievable(store[u]) /\ AccessibleTo(u, c)
         /\ \A u \in Units :
               Retrievable(store[u]) /\ AccessibleTo(u, c) /\ (q.blank \/ u \in Relevant(q, v)) =>
                  u \in Range(found)
    BY <1>8, <1>11
  <1> QED
    BY <1>5, <1>8, <1>9, <1>10, <1>13, Zenon

LEMMA SearchedMirror ==
    ASSUME NEW q \in Queries, NEW T
    PROVE  VectorSearch(q, T) \in Seq(Units) /\ Range(VectorSearch(q, T)) \subseteq T
  <1> DEFINE near == {u \in Units : mirror[u] # Absent /\ q.like[u] >= MinSimilarity}
             points == Sift(Order, near)
             R == Nearer(q, "vector")
             nearest == Ranked(points, R)
             limit == IF TopK = 0 THEN 1 ELSE TopK
             best == Truncate(nearest, limit)
  <1>1. VectorSearch(q, T) = Sift(best, T)
    BY Zenon DEF VectorSearch
  <1>2. limit \in Nat /\ Order \in Seq(Units)
    BY RetrievalAssumption
  <1>3. StrictOn(R, Units)
    BY NearerStrict
  <1> HIDE DEF near, R, limit
  <1>4. points \in Seq(Units)
    BY <1>2, SiftRange
  <1> HIDE DEF points
  <1>5. nearest \in Seq(Units)
    BY <1>3, <1>4, RankedSorted
  <1> HIDE DEF nearest
  <1>6. best \in Seq(Units)
    BY <1>2, <1>5, Truncated
  <1> HIDE DEF best
  <1>7. Sift(best, T) \in Seq(Units) /\ Range(Sift(best, T)) = Range(best) \cap T
    BY <1>6, SiftRange
  <1> QED
    BY <1>1, <1>7

(* What RetrieveContext answers, whichever the backend is.                 *)
LEMMA ContextApproved ==
    ASSUME TypeOK, HumanConsent, NEW c, NEW q \in Queries, NEW v
    PROVE  LET context == RetrieveContext(OpenedNow, c, q, v) IN
           /\ context \in Seq(Units)
           /\ \A u \in Range(context) :
                 AccessibleTo(u, c) /\ ApprovedOnce(u, {"approve_memory", "approve_training"})
  <1> DEFINE context == RetrieveContext(OpenedNow, c, q, v)
             Fit(u) == AccessibleTo(u, c) /\ ApprovedOnce(u, {"approve_memory", "approve_training"})
             found == Found(OpenedNow, c, q, v)
             best == Truncate(found, TopK)
             T == {u \in Units : Retrievable(FromPayload(mirror[u])) /\ AccessibleTo(u, c)}
             answer == VectorSearch(q, T)
  <1>1. \A u \in Units : Retrievable(OpenedNow[u]) /\ AccessibleTo(u, c) => Fit(u)
    BY OpenedApproved
  <1>2. \A u \in T : Fit(u)
    BY OpenedApproved DEF FromPayload, Retrievable
  <1>3. context \in {<< >>, best, answer}
    BY FoundSorted, Zenon DEF RetrieveContext
  <1>4. best \in Seq(Units) /\ \A u \in Range(best) : Fit(u)
    <2>1. /\ found \in Seq(Units)
          /\ \A u \in Range(found) : u \in Units /\ Retrievable(OpenedNow[u]) /\ AccessibleTo(u, c)
      BY FoundSorted
    <2> HIDE DEF found, Fit
    <2>2. best \in Seq(Units) /\ Range(best) \subseteq Range(found)
      BY <2>1, RetrievalAssumption, Truncated
    <2> QED
      BY <1>1, <2>1, <2>2
  <1>5. answer \in Seq(Units) /\ Range(answer) \subseteq T
    <2> HIDE DEF T
    <2> QED
      BY SearchedMirror
  <1>6. << >> \in Seq(Units) /\ Range(<< >>) = {}
    BY DEF Range
  <1> HIDE DEF context, best, answer, T, Fit
  <1>7. context \in Seq(Units) /\ \A u \in Range(context) : Fit(u)
    BY <1>2, <1>3, <1>4, <1>5, <1>6
  <1> QED
    BY <1>7 DEF context, Fit

(* The units that the prompts of a review are given.                       *)
LEMMA GivenIs ==
    ASSUME NEW c, NEW q \in Queries, NEW v, RetrieveContext(OpenedNow, c, q, v) \in Seq(Units)
    PROVE  /\ Guidance(c, q, v) \in Seq(Units)
           /\ Range(Guidance(c, q, v)) \subseteq Range(RetrieveContext(OpenedNow, c, q, v))
           /\ Range(MemoryContext(c, q, v)) \ {Warning} = Range(Guidance(c, q, v))
  <1> DEFINE context == RetrieveContext(OpenedNow, c, q, v)
             limit == IF TopK = 0 THEN 1 ELSE TopK
             units == Guidance(c, q, v)
             All == Units \cup {Warning}
  <1>1. limit \in Nat /\ context \in Seq(Units)
    BY RetrievalAssumption
  <1>2. units = Truncate(context, limit)
    BY Zenon DEF Guidance
  <1>3. MemoryContext(c, q, v) = IF units = << >> THEN << >> ELSE <<Warning>> \o units
    BY Zenon DEF MemoryContext
  <1> HIDE DEF context, limit, units
  <1>4. units \in Seq(Units) /\ Range(units) \subseteq Range(context) /\ Range(units) \subseteq Units
    BY <1>1, <1>2, Truncated, SeqRange
  <1>5. Range(<<Warning>> \o units) = {Warning} \cup Range(units)
    <2> DEFINE one == <<Warning>>
    <2>1. one \in Seq(All) /\ units \in Seq(All)
      BY <1>4
    <2>2. Range(one) = {Warning}
      BY DEF Range
    <2> HIDE DEF All, one
    <2>3. Range(one \o units) = Range(one) \cup Range(units)
      BY ONLY <2>1, JoinedRange
    <2> QED
      BY <2>2, <2>3 DEF one
  <1>6. Range(<< >>) = {} /\ Warning \notin Range(units)
    BY <1>4, RetrievalAssumption DEF Range
  <1>7. Range(MemoryContext(c, q, v)) \ {Warning} = Range(units)
    <2>1. CASE units = << >>
      BY <1>3, <1>6, <2>1
    <2>2. CASE units # << >>
      BY <1>3, <1>5, <1>6, <2>2
    <2> QED
      BY <2>1, <2>2
  <1> QED
    BY <1>4, <1>7 DEF context, units

(* Over the file, a unit that is left out has TopK before it that are no   *)
(* less similar.                                                           *)
LEMMA NoneMissing ==
    ASSUME ModeRetrieves, NEW c, c.backend = "file", NEW q \in Queries, NEW v,
           NEW u \in Units \ Range(Guidance(c, q, v)),
           Retrievable(OpenedNow[u]), AccessibleTo(u, c), q.blank \/ u \in Relevant(q, v)
    PROVE  /\ Cardinality(Range(Guidance(c, q, v))) = TopK
           /\ ~q.blank => \A g \in Range(Guidance(c, q, v)) : Similarity(g, q, v) >= Similarity(u, q, v)
  <1> DEFINE found == Found(OpenedNow, c, q, v)
             best == Truncate(found, TopK)
             limit == IF TopK = 0 THEN 1 ELSE TopK
             given == Truncate(best, limit)
  <1>1. /\ found \in Seq(Units) /\ IsInjective(found) /\ u \in Range(found)
        /\ ~q.blank => \A i, j \in 1..Len(found) :
              i < j => Similarity(found[i], q, v) >= Similarity(found[j], q, v)
        /\ best = RetrieveScored(OpenedNow, c, q, v)
    BY FoundSorted, Zenon
  <1>2. Guidance(c, q, v) = given
    BY <1>1, Zenon DEF Guidance, RetrieveContext
  <1>3. TopK \in Nat /\ limit \in Nat /\ TopK <= limit
    BY RetrievalAssumption
  <1> HIDE DEF found, limit
  <1>4. /\ best \in Seq(Units)
        /\ Len(best) = IF Len(found) <= TopK THEN Len(found) ELSE TopK
        /\ \A n \in 1..Len(best) : n \in 1..Len(found) /\ best[n] = found[n]
    BY <1>1, <1>3, Truncated
  <1> HIDE DEF best
  <1>5. /\ given \in Seq(Units)
        /\ Len(given) = IF Len(best) <= limit THEN Len(best) ELSE limit
        /\ \A n \in 1..Len(given) : n \in 1..Len(best) /\ given[n] = best[n]
    <2>1. best \in Seq(Units) /\ limit \in Nat
      BY <1>3, <1>4
    <2> QED
      BY <2>1, Truncated
  <1> HIDE DEF given
  <1>6. /\ Len(given) = (IF Len(found) <= TopK THEN Len(found) ELSE TopK)
        /\ Len(found) \in Nat /\ Len(given) \in Nat
        /\ \A n \in 1..Len(given) : n \in 1..Len(found) /\ given[n] = found[n]
    BY <1>1, <1>3, <1>4, <1>5, SeqRange
  <1>7. PICK j \in 1..Len(found) : found[j] = u
    BY <1>1, SeqRange
  <1>8. DOMAIN found = 1..Len(found) /\ DOMAIN given = 1..Len(given)
    BY <1>1, <1>5
  <1>9. j \notin 1..Len(given)
    <2>1. \A n \in 1..Len(given) : given[n] \in Range(given)
      BY <1>5, SeqRange
    <2> QED
      BY <1>2, <1>6, <1>7, <2>1
  <1>10. Len(given) = TopK /\ \A i \in 1..Len(given) : i < j
    BY <1>3, <1>6, <1>7, <1>9
  <1>11. IsInjective(given)
    BY <1>1, <1>6, <1>8, Zenon DEF IsInjective
  <1>12. Cardinality(Range(given)) = TopK
    BY <1>5, <1>10, <1>11, CountedRange
  <1>13. ASSUME ~q.blank, NEW g \in Range(given) PROVE Similarity(g, q, v) >= Similarity(u, q, v)
    <2>1. PICK i \in 1..Len(given) : given[i] = g
      BY <1>5, SeqRange
    <2>2. i < j /\ found[i] = g /\ i \in 1..Len(found)
      BY <1>6, <1>10, <2>1
    <2> QED
      BY <1>1, <1>7, <1>13, <2>2
  <1> QED
    BY <1>2, <1>12, <1>13

LEMMA ApprovedFollows == TypeOK /\ HumanConsent => GuidanceApproved
  <1> SUFFICES ASSUME TypeOK, HumanConsent PROVE GuidanceApproved
    OBVIOUS
  <1>1. ASSUME NEW u \in Range(ExportTrainingUnits(OpenedNow, TopK))
        PROVE  ApprovedOnce(u, {"approve_training"})
    <2> DEFINE T == {x \in Units : OpenedNow[x] = "training_approved"}
               released == Sift(Order, T)
    <2>1. Order \in Seq(Units) /\ TopK \in Nat
      BY RetrievalAssumption
    <2>2. ExportTrainingUnits(OpenedNow, TopK) = Truncate(released, TopK)
      BY Zenon DEF ExportTrainingUnits
    <2>3. \A x \in T : ApprovedOnce(x, {"approve_training"})
      BY OpenedApproved
    <2> HIDE DEF T
    <2>4. released \in Seq(Units) /\ Range(released) = Range(Order) \cap T
      BY <2>1, SiftRange
    <2> HIDE DEF released
    <2>5. Range(Truncate(released, TopK)) \subseteq Range(released)
      BY <2>1, <2>4, Truncated
    <2> QED
      BY <2>2, <2>3, <2>4, <2>5
  <1>2. ASSUME NEW c, NEW q \in Queries, NEW v, NEW u \in Range(Search(OpenedNow, c, q, v))
        PROVE  ApprovedOnce(u, {"approve_memory", "approve_training"})
    <2> DEFINE T == {x \in Units : Retrievable(mirror[x])}
               Fit(x) == ApprovedOnce(x, {"approve_memory", "approve_training"})
               found == Found(OpenedNow, c, q, v)
    <2>1. Search(OpenedNow, c, q, v) \in {<< >>, Truncate(found, TopK), VectorSearch(q, T)}
      BY FoundSorted, Zenon DEF Search
    <2>2. /\ \A x \in T : Fit(x)
          /\ \A x \in Units : Retrievable(OpenedNow[x]) => Fit(x)
      BY OpenedApproved
    <2>3. found \in Seq(Units) /\ \A x \in Range(found) : x \in Units /\ Retrievable(OpenedNow[x])
      BY FoundSorted
    <2> HIDE DEF found, T, Fit
    <2>4. Range(Truncate(found, TopK)) \subseteq Range(found)
      BY <2>3, RetrievalAssumption, Truncated
    <2>5. Range(VectorSearch(q, T)) \subseteq T
      BY SearchedMirror
    <2>6. Range(<< >>) = {}
      BY DEF Range
    <2>7. Fit(u)
      BY <1>2, <2>1, <2>2, <2>3, <2>4, <2>5, <2>6
    <2> QED
      BY <2>7 DEF Fit
  <1>3. ASSUME NEW c, NEW q \in Queries, NEW v
        PROVE  LET given == Range(MemoryContext(c, q, v)) \ {Warning} IN
               /\ \A u \in given :
                     /\ AccessibleTo(u, c)
                     /\ ApprovedOnce(u, {"approve_memory", "approve_training"})
               /\ ModeRetrieves /\ c.backend = "file" =>
                     \A u \in Units \ given :
                        /\ Retrievable(OpenedNow[u]) /\ AccessibleTo(u, c)
                        /\ q.blank \/ u \in Relevant(q, v)
                        => /\ Cardinality(given) = TopK
                           /\ ~q.blank => \A g \in given : Similarity(g, q, v) >= Similarity(u, q, v)
    <2> DEFINE context == RetrieveContext(OpenedNow, c, q, v)
               given == Range(MemoryContext(c, q, v)) \ {Warning}
    <2>1. /\ context \in Seq(Units)
          /\ \A u \in Range(context) :
                AccessibleTo(u, c) /\ ApprovedOnce(u, {"approve_memory", "approve_training"})
      BY ContextApproved
    <2>2. given = Range(Guidance(c, q, v)) /\ Range(Guidance(c, q, v)) \subseteq Range(context)
      BY <2>1, GivenIs
    <2> HIDE DEF given
    <2>3. \A u \in given :
             AccessibleTo(u, c) /\ ApprovedOnce(u, {"approve_memory", "approve_training"})
      BY <2>1, <2>2
    <2>4. ASSUME ModeRetrieves, c.backend = "file", NEW u \in Units \ given,
                 Retrievable(OpenedNow[u]), AccessibleTo(u, c), q.blank \/ u \in Relevant(q, v)
          PROVE  /\ Cardinality(given) = TopK
                 /\ ~q.blank => \A g \in given : Similarity(g, q, v) >= Similarity(u, q, v)
      BY <2>2, <2>4, NoneMissing
    <2> QED
      BY <2>3, <2>4, Zenon DEF given
  <1> QED
    BY <1>1, <1>2, <1>3, Zenon DEF GuidanceApproved

(* Whatever races, faults and restarts have left in the file and in the    *)
(* mirror, for any number of processes and units, any queries and any      *)
(* limit: a review is guided by units a human approved and its             *)
(* configuration may see, nothing is exported that no human released for   *)
(* training, and over the file no unit is left out but for TopK that are   *)
(* no less similar (retrieve_context, retrieve_scored, vector_search).     *)
THEOREM GuidanceAlwaysApproved == Spec => []GuidanceApproved
  BY ApprovedFollows, MemoryTypeCorrect, HumanConsentAlways, PTL

-----------------------------------------------------------------------------
(* One process over the data directory whose writes succeed and that stops *)
(* only between requests: embeddings and upserts may fail, and it may be   *)
(* restarted.                                                              *)
OneProcess == Procs = {Process} /\ Faults \cap {"write", "crash"} = {}

(* What such a process has in memory and not in the file is what a request *)
(* is about to write; nothing is written over another's bytes.             *)
ServerInv ==
    /\ \A r \in Requests : ~overlaid[r] /\ (pc[r] # "idle" => open[Process])
    /\ open[Process] => \A u \in Units : file[u] = mem[Process][u] \/
          \E r \in Requests : pc[r] \in {"persist", "writing"} /\ arg[r] = u
    /\ unreadable => file = EmptyStore \/ \E r \in Requests : pc[r] = "writing"

LEMMA OneProcessFacts ==
    ASSUME OneProcess, TypeOK
    PROVE  /\ Process \in Procs
           /\ \A r \in Requests : ProcOf[r] = Process
           /\ \A r, q \in Requests : pc[r] = "writing" /\ pc[q] = "writing" => r = q
           /\ mem[Process] \in Stores /\ file \in Stores /\ open[Process] \in BOOLEAN
  BY MemoryAssumption DEF OneProcess, TypeOK

(* A stop finds nothing under way.                                         *)
LEMMA StopsIdle ==
    ASSUME OneProcess, TypeOK, NEW p \in Procs, Stop(p)
    PROVE  /\ \A r \in Requests : pc[r] = "idle"
           /\ ~open'[Process] /\ open[Process] /\ mem'[Process] = EmptyStore
           /\ UNCHANGED <<file, unreadable, mirror, allocated>>
           /\ \A r \in Requests : pc'[r] = "idle" /\ (overlaid'[r] => overlaid[r])
  BY OneProcessFacts DEF Stop, OneProcess, Drop, TypeOK

LEMMA InitServerInv == Init /\ OneProcess => ServerInv
  BY DEF Init, OneProcess, ServerInv, EmptyStore

LEMMA StepServerInv == OneProcess /\ TypeOK /\ ServerInv /\ [Next]_vars => ServerInv'
  <1> SUFFICES ASSUME OneProcess, TypeOK, ServerInv, [Next]_vars PROVE ServerInv'
    OBVIOUS
  <1> DEFINE P == Process
  <1>a. /\ P \in Procs /\ \A r \in Requests : ProcOf[r] = P
        /\ \A r, q \in Requests : pc[r] = "writing" /\ pc[q] = "writing" => r = q
        /\ mem \in [Procs -> [Units -> ApprovalStates \cup {Absent}]]
        /\ file \in [Units -> ApprovalStates \cup {Absent}]
        /\ open \in [Procs -> BOOLEAN] /\ arg \in [Requests -> Units \cup {Nothing}]
        /\ pc \in [Requests -> {"idle", "embedding", "persist", "writing", "mirror", "upsert"}]
        /\ overlaid \in [Requests -> BOOLEAN]
        /\ \A r \in Requests : pc[r] # "idle" => arg[r] \in Units
    BY OneProcessFacts DEF TypeOK, Stores
  <1>1. ASSUME NEW p \in Procs, Open(p) PROVE ServerInv'
    <2>1. p = P /\ ~open[P] /\ open'[P] /\ UNCHANGED <<file, unreadable, pc, arg, overlaid>>
          /\ mem'[P] = IF unreadable THEN EmptyStore ELSE file
      BY <1>1, <1>a DEF Open, OneProcess, requestVars
    <2> HIDE DEF P
    <2>2. \A r \in Requests : pc[r] = "idle"
      BY <2>1 DEF ServerInv, P
    <2> QED
      BY <2>1, <2>2 DEF ServerInv, P
  <1>2. ASSUME NEW p \in Procs, Stop(p) PROVE ServerInv'
    BY <1>2, StopsIdle DEF ServerInv
  <1>3. ASSUME NEW r \in Requests, NEW u \in Units, RecordFeedback(r, u) PROVE ServerInv'
    BY <1>3, <1>a DEF RecordFeedback, ServerInv
  <1>4. ASSUME NEW r \in Requests, NEW u \in Units, NEW s \in ApprovalStates, pc[r] \in {"idle", "embedding"},
               open[P], mem' = [mem EXCEPT ![P][u] = s],
               pc' = [pc EXCEPT ![r] = "persist"],
               arg'[r] = u, \A q \in Requests \ {r} : arg'[q] = arg[q],
               UNCHANGED <<open, file, unreadable, overlaid>>
        PROVE  ServerInv'
    BY <1>4, <1>a DEF ServerInv
  <1>5. ASSUME NEW r \in Requests, NEW u \in Units, NEW g \in Grants, Consent(r, u, g)
        PROVE  ServerInv'
    <2> DEFINE s == StateOf(g)
    <2>1. /\ pc[r] \in {"idle", "embedding"} /\ open[P]
          /\ mem' = [mem EXCEPT ![P][u] = s] /\ pc' = [pc EXCEPT ![r] = "persist"]
          /\ arg'[r] = u /\ \A q \in Requests \ {r} : arg'[q] = arg[q]
          /\ UNCHANGED <<open, file, unreadable, overlaid>>
      BY <1>5, <1>a DEF Consent
    <2>2. s \in ApprovalStates
      BY StateOfTyped
    <2> HIDE DEF s, P
    <2> QED
      BY <2>1, <2>2, <1>4
  <1>6. ASSUME NEW r \in Requests, StoreUnit(r) PROVE ServerInv'
    BY <1>6, <1>4, <1>a DEF StoreUnit, ServerInv, ApprovalStates
  <1>7. ASSUME NEW r \in Requests, PersistBegin(r) PROVE ServerInv'
    BY <1>7, <1>a DEF PersistBegin, ServerInv
  <1>8. ASSUME NEW r \in Requests, PersistEnd(r) PROVE ServerInv'
    <2>1. /\ pc[r] = "writing" /\ file' = mem[P] /\ ~unreadable'
          /\ \A q \in Requests : ~overlaid'[q] /\ (pc'[q] # "idle" => open[P])
          /\ UNCHANGED <<open, mem>>
      BY <1>8, <1>a DEF PersistEnd, ServerInv
    <2> QED
      BY <2>1, <1>a DEF ServerInv
  <1>9. ASSUME NEW r \in Requests, pc[r] \in {"embedding", "mirror", "upsert"}, Drop({r}),
               UNCHANGED <<open, mem, file, unreadable>>
        PROVE  ServerInv'
    BY <1>9, <1>a DEF Drop, ServerInv
  <1>10. ASSUME NEW r \in Requests, MirrorLoad(r) PROVE ServerInv'
    <2> HIDE DEF P
    <2>1. CASE Retrievable(mem[P][arg[r]])
      <3>1. /\ pc[r] = "mirror" /\ pc' = [pc EXCEPT ![r] = "upsert"]
            /\ UNCHANGED <<open, mem, file, unreadable, arg, overlaid>>
        BY <1>10, <2>1, <1>a DEF MirrorLoad
      <3> QED
        BY <3>1, <1>a DEF ServerInv
    <2>2. CASE ~Retrievable(mem[P][arg[r]])
      BY <1>10, <2>2, <1>9, <1>a DEF MirrorLoad, Answer
    <2> QED
      BY <2>1, <2>2
  <1>11. ASSUME NEW r \in Requests, Upsert(r) \/ EmbedFails(r) \/ UpsertFails(r) PROVE ServerInv'
    BY <1>11, <1>9 DEF Upsert, EmbedFails, UpsertFails, Answer
  <1>12. ASSUME NEW r \in Requests, PersistFails(r) PROVE FALSE
    BY <1>12 DEF PersistFails, OneProcess
  <1>13. CASE UNCHANGED vars
    BY <1>13 DEF vars, requestVars, ServerInv
  <1> HIDE DEF P
  <1> QED
    BY <1>1, <1>2, <1>3, <1>5, <1>6, <1>7, <1>8, <1>10, <1>11, <1>12, <1>13 DEF Next, Step

LEMMA ServerInvAlways == OneProcess => (Spec => []ServerInv)
  <1> SUFFICES ASSUME OneProcess PROVE Spec => []ServerInv
    OBVIOUS
  <1> QED
    BY InitServerInv, StepServerInv, InitTypeOK, StepTypeOK, PTL DEF Spec

(* A process that no write fails and that is not killed has on disk what   *)
(* it has in memory whenever no request persists: none of the decisions of *)
(* overlapping requests is lost by a restart.                              *)
THEOREM DurableAlways == OneProcess => (Spec => []DurableWhenQuiet)
  <1> SUFFICES ASSUME OneProcess PROVE Spec => []DurableWhenQuiet
    OBVIOUS
  <1>1. TypeOK /\ ServerInv => DurableWhenQuiet
    <2> SUFFICES ASSUME TypeOK, ServerInv, open[Process], Quiet(Process)
                 PROVE  file = mem[Process] /\ (unreadable => mem[Process] = EmptyStore)
      BY DEF DurableWhenQuiet, OneProcess
    <2>1. \A r \in Requests : pc[r] \notin {"persist", "writing"}
      BY OneProcessFacts DEF Quiet
    <2>2. file = mem[Process]
      <3>1. \A u \in Units : file[u] = mem[Process][u]
        BY <2>1 DEF ServerInv
      <3> QED
        BY <3>1, OneProcessFacts DEF Stores
    <2> QED
      BY <2>1, <2>2 DEF ServerInv
  <1> QED
    BY <1>1, ServerInvAlways, MemoryTypeCorrect, PTL

(* And no rejected unit comes back while nobody decides on it: what a      *)
(* request about another unit writes of it is what the file already says.  *)
THEOREM NeverSilentlyReapproved == OneProcess => (Spec => NoSilentReapproval)
  <1> SUFFICES ASSUME OneProcess PROVE Spec => NoSilentReapproval
    OBVIOUS
  <1>1. TypeOK /\ ServerInv /\ [Next]_vars =>
          [\A u \in Units : file[u] = "rejected" /\ ~InFlight(u) => ~Retrievable(file'[u])]_vars
    <2> SUFFICES ASSUME TypeOK, ServerInv, Next, NEW u \in Units, file[u] = "rejected", ~InFlight(u)
                 PROVE  ~Retrievable(file'[u])
      OBVIOUS
    <2>1. CASE file' = file
      BY <2>1 DEF Retrievable
    <2>2. ASSUME NEW r \in Requests, PersistEnd(r) PROVE ~Retrievable(file'[u])
      <3>1. file' = mem[Process] /\ open[Process]
        BY <2>2, OneProcessFacts DEF PersistEnd, ServerInv
      <3>2. mem[Process][u] = file[u]
        BY <3>1 DEF ServerInv, InFlight
      <3> QED
        BY <3>1, <3>2 DEF Retrievable
    <2>3. (\E r \in Requests : PersistEnd(r)) \/ file' = file
      BY DEF Next, Step, Open, Stop, RecordFeedback, StoreUnit, EmbedFails, Consent,
             PersistBegin, PersistFails, MirrorLoad, Upsert, UpsertFails
    <2> QED
      BY <2>1, <2>2, <2>3
  <1> QED
    BY <1>1, ServerInvAlways, MemoryTypeCorrect, PTL DEF Spec, NoSilentReapproval

-----------------------------------------------------------------------------
(* A unit on its way into the store has an id of its own, which no entry   *)
(* has yet.                                                                *)
EnterInv ==
    /\ \A u \in Units : file[u] # Absent \/ mem[Process][u] # Absent => u \in allocated
    /\ \A r \in Requests : pc[r] = "embedding" =>
          /\ arg[r] \in allocated
          /\ mem[Process][arg[r]] = Absent
          /\ \A q \in Requests \ {r} : pc[q] = "embedding" => arg[q] # arg[r]

LEMMA InitEnterInv == Init /\ OneProcess => EnterInv
  BY DEF Init, OneProcess, EnterInv, EmptyStore

LEMMA StepEnterInv == OneProcess /\ TypeOK /\ ServerInv /\ EnterInv /\ [Next]_vars => EnterInv'
  <1> SUFFICES ASSUME OneProcess, TypeOK, ServerInv, EnterInv, [Next]_vars PROVE EnterInv'
    OBVIOUS
  <1> DEFINE P == Process
  <1>a. /\ P \in Procs /\ \A r \in Requests : ProcOf[r] = P
        /\ mem \in [Procs -> [Units -> ApprovalStates \cup {Absent}]]
        /\ file \in [Units -> ApprovalStates \cup {Absent}]
        /\ arg \in [Requests -> Units \cup {Nothing}]
        /\ pc \in [Requests -> {"idle", "embedding", "persist", "writing", "mirror", "upsert"}]
        /\ \A r \in Requests : pc[r] # "idle" => arg[r] \in Units
    BY OneProcessFacts DEF TypeOK, Stores
  <1>1. ASSUME NEW p \in Procs, Open(p) PROVE EnterInv'
    <2>1. p = P /\ ~open[P] /\ UNCHANGED <<file, pc, allocated>>
          /\ mem'[P] = IF unreadable THEN EmptyStore ELSE file
      BY <1>1, <1>a DEF Open, OneProcess, requestVars
    <2>2. \A r \in Requests : pc'[r] = "idle"
      BY <2>1 DEF ServerInv
    <2> QED
      BY <2>1, <2>2 DEF EnterInv, EmptyStore
  <1>2. ASSUME NEW p \in Procs, Stop(p) PROVE EnterInv'
    BY <1>2, StopsIdle DEF EnterInv, EmptyStore
  <1>3. ASSUME NEW r \in Requests, NEW u \in Units, RecordFeedback(r, u) PROVE EnterInv'
    <2>1. /\ u \notin allocated /\ allocated' = allocated \cup {u} /\ UNCHANGED <<mem, file>>
          /\ pc'[r] = "embedding" /\ arg'[r] = u
          /\ \A q \in Requests \ {r} : pc'[q] = pc[q] /\ arg'[q] = arg[q]
      BY <1>3, <1>a DEF RecordFeedback
    <2> HIDE DEF P
    <2> QED
      BY <2>1 DEF EnterInv, P
  <1>4. ASSUME NEW r \in Requests, NEW u \in Units, NEW g \in Grants, Consent(r, u, g)
        PROVE  EnterInv'
    <2>1. /\ mem[P][u] # Absent /\ UNCHANGED <<file, allocated>>
          /\ \A v \in Units \ {u} : mem'[P][v] = mem[P][v]
          /\ pc'[r] = "persist" /\ \A q \in Requests \ {r} : pc'[q] = pc[q] /\ arg'[q] = arg[q]
      BY <1>4, <1>a DEF Consent
    <2> HIDE DEF P
    <2> QED
      BY <2>1, <1>a DEF EnterInv, P
  <1>5. ASSUME NEW r \in Requests, StoreUnit(r) PROVE EnterInv'
    <2>1. /\ pc[r] = "embedding" /\ UNCHANGED <<file, allocated, arg>>
          /\ \A v \in Units \ {arg[r]} : mem'[P][v] = mem[P][v]
          /\ pc'[r] = "persist" /\ \A q \in Requests \ {r} : pc'[q] = pc[q]
      BY <1>5, <1>a DEF StoreUnit
    <2> HIDE DEF P
    <2> QED
      BY <2>1, <1>a, SMTT(40) DEF EnterInv, P
  <1>6. ASSUME UNCHANGED <<mem, allocated>>, file' = file \/ file' = mem[P],
               \A r \in Requests : pc'[r] = "embedding" => pc[r] = "embedding" /\ arg'[r] = arg[r]
        PROVE  EnterInv'
    BY <1>6 DEF EnterInv
  <1>7. ASSUME NEW r \in Requests,
               \/ PersistBegin(r) \/ PersistEnd(r) \/ MirrorLoad(r) \/ Upsert(r)
               \/ EmbedFails(r) \/ PersistFails(r) \/ UpsertFails(r)
        PROVE  EnterInv'
    <2>1. UNCHANGED <<mem, allocated>> /\ (file' = file \/ file' = mem[P])
      BY <1>7, <1>a DEF PersistBegin, PersistEnd, MirrorLoad, Upsert, EmbedFails, PersistFails, UpsertFails
    <2>2. ASSUME NEW q \in Requests, pc'[q] = "embedding"
          PROVE  pc[q] = "embedding" /\ arg'[q] = arg[q]
      <3>1. CASE PersistBegin(r) \/ PersistEnd(r)
        BY <3>1, <2>2, <1>a DEF PersistBegin, PersistEnd
      <3>2. CASE Drop({r})
        BY <3>2, <2>2, <1>a DEF Drop
      <3>3. CASE MirrorLoad(r) /\ ~Drop({r})
        BY <3>3, <2>2, <1>a DEF MirrorLoad, Answer
      <3> QED
        BY <1>7, <3>1, <3>2, <3>3 DEF Upsert, EmbedFails, PersistFails, UpsertFails, Answer
    <2> QED
      BY <2>1, <2>2, <1>6
  <1>8. CASE UNCHANGED vars
    BY <1>8 DEF vars, requestVars, EnterInv
  <1> HIDE DEF P
  <1> QED
    BY <1>1, <1>2, <1>3, <1>4, <1>5, <1>7, <1>8 DEF Next, Step

(* What the registry shows of the store.                                   *)
Status == IF open[Process] THEN mem[Process] ELSE file

LEMMA StepRegistry ==
    OneProcess /\ TypeOK /\ ServerInv /\ EnterInv /\ [Next]_vars => [Registry!Next]_Status
  <1> SUFFICES ASSUME OneProcess, TypeOK, ServerInv, EnterInv, [Next]_vars
               PROVE  Registry!Next \/ Status' = Status
    OBVIOUS
  <1> DEFINE P == Process
  <1>a. /\ P \in Procs /\ \A r \in Requests : ProcOf[r] = P
        /\ mem \in [Procs -> [Units -> ApprovalStates \cup {Absent}]]
        /\ file \in [Units -> ApprovalStates \cup {Absent}]
        /\ open \in [Procs -> BOOLEAN]
        /\ \A r \in Requests : pc[r] # "idle" => arg[r] \in Units /\ open[P]
    BY OneProcessFacts DEF TypeOK, Stores, ServerInv
  <1>1. ASSUME NEW p \in Procs, Open(p) PROVE Status' = Status
    <2>1. /\ p = P /\ ~open[P] /\ open'[P]
          /\ mem'[P] = IF unreadable THEN EmptyStore ELSE file
      BY <1>1, <1>a DEF Open, OneProcess
    <2>2. unreadable => file = EmptyStore
      BY <2>1 DEF ServerInv
    <2> QED
      BY <2>1, <2>2 DEF Status
  <1>2. ASSUME NEW p \in Procs, Stop(p) PROVE Status' = Status
    <2>1. file = mem[P]
      <3>1. \A u \in Units : file[u] = mem[P][u]
        BY <1>2, StopsIdle DEF ServerInv
      <3> QED
        BY <3>1, <1>a
    <2> QED
      BY <1>2, <2>1, StopsIdle DEF Status
  <1>3. ASSUME NEW r \in Requests, NEW u \in Units, NEW g \in Grants, Consent(r, u, g)
        PROVE  Registry!Next
    <2>1. /\ open[P] /\ open' = open /\ mem[P][u] # Absent
          /\ mem'[P] = [mem[P] EXCEPT ![u] = StateOf(g)]
      BY <1>3, <1>a DEF Consent
    <2>2. StateOf(g) \in {"memory_approved", "training_approved", "rejected"}
      BY DEF Grants, StateOf
    <2>3. Registry!Decide(u)
      BY <2>1, <2>2 DEF Registry!Decide, Registry!Absent, Absent
    <2> QED
      BY <2>3 DEF Registry!Next
  <1>4. ASSUME NEW r \in Requests, StoreUnit(r) PROVE Registry!Next
    <2>1. /\ arg[r] \in Units /\ open[P] /\ open' = open /\ mem[P][arg[r]] = Absent
          /\ mem'[P] = [mem[P] EXCEPT ![arg[r]] = "private"]
      BY <1>4, <1>a DEF StoreUnit, EnterInv
    <2>2. Registry!Enter(arg[r])
      BY <2>1 DEF Registry!Enter, Registry!Absent, Absent
    <2> QED
      BY <2>1, <2>2 DEF Registry!Next
  <1>5. CASE UNCHANGED <<open, mem, file>>
    BY <1>5 DEF Status
  <1>6. ASSUME NEW r \in Requests, PersistEnd(r) PROVE Status' = Status
    <2>1. open[P] /\ UNCHANGED <<open, mem>>
      BY <1>6, <1>a DEF PersistEnd
    <2> QED
      BY <2>1 DEF Status
  <1>7. \/ UNCHANGED <<open, mem, file>>
        \/ \E p \in Procs : Open(p) \/ Stop(p)
        \/ \E r \in Requests :
              StoreUnit(r) \/ PersistEnd(r) \/ \E u \in Units, g \in Grants : Consent(r, u, g)
    BY DEF Next, Step, vars, RecordFeedback, EmbedFails, PersistBegin, PersistFails,
           MirrorLoad, Upsert, UpsertFails
  <1> QED
    BY <1>1, <1>2, <1>3, <1>4, <1>5, <1>6, <1>7

(* One process implements ConsentRegistry: overlapping requests and a      *)
(* restart between requests do not show.                                   *)
THEOREM MemoryImplementsRegistry == OneProcess => (Spec => ImplementsRegistry)
  <1> SUFFICES ASSUME OneProcess PROVE Spec => ImplementsRegistry
    OBVIOUS
  <1>1. Init => Registry!Init
    BY DEF Init, OneProcess, Registry!Init, Registry!Absent, EmptyStore, Absent
  <1> QED
    BY <1>1, ServerInvAlways, InitEnterInv, StepEnterInv, StepRegistry, MemoryTypeCorrect, PTL
    DEF Spec, ImplementsRegistry, Registry!Spec, Status

-----------------------------------------------------------------------------
(* What is approved is mirrored, or the consent that approved it goes on   *)
(* to mirror it; a closed store has nothing under way.                     *)
MirrorPending(u) ==
    \E r \in Requests :
        pc[r] \in {"persist", "writing", "mirror", "upsert"} /\ arg[r] = u /\ grant[r] # Nothing

CoverInv ==
    \A u \in Units :
        /\ open[Process] /\ Retrievable(mem[Process][u]) => Retrievable(mirror[u]) \/ MirrorPending(u)
        /\ ~open[Process] /\ Retrievable(file[u]) => Retrievable(mirror[u])

(* Every upsert succeeds.                                                  *)
Mirrored == UseQdrant /\ "mirror" \notin Faults

LEMMA InitCoverInv == Init /\ OneProcess => CoverInv
  BY DEF Init, OneProcess, CoverInv, EmptyStore, Retrievable, Absent

LEMMA StepCoverInv ==
    OneProcess /\ Mirrored /\ TypeOK /\ ServerInv /\ CoverInv /\ [Next]_vars => CoverInv'
  <1> SUFFICES ASSUME OneProcess, Mirrored, TypeOK, ServerInv, CoverInv, [Next]_vars, NEW u \in Units
               PROVE  /\ open'[Process] /\ Retrievable(mem'[Process][u]) =>
                             Retrievable(mirror'[u]) \/ MirrorPending(u)'
                      /\ ~open'[Process] /\ Retrievable(file'[u]) => Retrievable(mirror'[u])
    BY DEF CoverInv, Retrievable
  <1> DEFINE P == Process
             Goal == /\ open'[P] /\ Retrievable(mem'[P][u]) => Retrievable(mirror'[u]) \/ MirrorPending(u)'
                     /\ ~open'[P] /\ Retrievable(file'[u]) => Retrievable(mirror'[u])
  <1>a. /\ P \in Procs /\ \A r \in Requests : ProcOf[r] = P
        /\ mem \in [Procs -> [Units -> ApprovalStates \cup {Absent}]]
        /\ mirror \in [Units -> ApprovalStates \cup {Absent}]
        /\ open \in [Procs -> BOOLEAN] /\ arg \in [Requests -> Units \cup {Nothing}]
        /\ pc \in [Requests -> {"idle", "embedding", "persist", "writing", "mirror", "upsert"}]
        /\ grant \in [Requests -> Grants \cup {Nothing}]
        /\ \A r \in Requests : pc[r] # "idle" => arg[r] \in Units /\ open[P]
        /\ \A r \in Requests : pc[r] = "upsert" => Retrievable(loaded[r])
    BY OneProcessFacts DEF TypeOK, Stores, ServerInv
  <1>b. /\ open[P] /\ Retrievable(mem[P][u]) => Retrievable(mirror[u]) \/ MirrorPending(u)
        /\ ~open[P] /\ Retrievable(file[u]) => Retrievable(mirror[u])
    BY DEF CoverInv
  <1> HIDE DEF P
  <1>1. ASSUME NEW p \in Procs, Open(p) PROVE Goal
    <2>1. ~open[P] /\ open'[P] /\ mirror' = mirror /\ mem'[P] = IF unreadable THEN EmptyStore ELSE file
      BY <1>1, <1>a DEF Open, OneProcess, P
    <2> QED
      BY <2>1, <1>b DEF EmptyStore, Retrievable, Absent
  <1>2. ASSUME NEW p \in Procs, Stop(p) PROVE Goal
    <2>1. ~MirrorPending(u)
      BY <1>2, StopsIdle DEF MirrorPending
    <2>2. ~open'[P] /\ open[P] /\ UNCHANGED <<file, mirror>>
      BY <1>2, StopsIdle DEF P
    <2>3. file[u] = mem[P][u]
      BY <1>2, StopsIdle DEF ServerInv, P
    <2> QED
      BY <2>1, <2>2, <2>3, <1>b DEF Retrievable
  <1>3. ASSUME NEW r \in Requests, NEW v \in Units, NEW g \in Grants, Consent(r, v, g) PROVE Goal
    <2>1. /\ open[P] /\ UNCHANGED <<open, mirror>> /\ pc[r] = "idle"
          /\ pc'[r] = "persist" /\ arg'[r] = v /\ grant'[r] # Nothing
          /\ \A q \in Requests \ {r} : pc'[q] = pc[q] /\ arg'[q] = arg[q] /\ grant'[q] = grant[q]
          /\ v # u => mem'[P][u] = mem[P][u]
      BY <1>3, <1>a DEF Consent, Grants, Nothing
    <2> QED
      BY <2>1, <1>b DEF MirrorPending, Retrievable
  <1>4. ASSUME NEW r \in Requests, StoreUnit(r) PROVE Goal
    <2>1. /\ open[P] /\ UNCHANGED <<open, mirror, arg, grant>> /\ pc[r] = "embedding"
          /\ \A q \in Requests \ {r} : pc'[q] = pc[q]
          /\ mem'[P][u] = IF arg[r] = u THEN "private" ELSE mem[P][u]
      BY <1>4, <1>a DEF StoreUnit
    <2> QED
      BY <2>1, <1>b DEF MirrorPending, Retrievable
  <1>5. ASSUME NEW r \in Requests, UNCHANGED <<open, mem>>, open[P], mirror'[u] = mirror[u],
               \A q \in Requests \ {r} : pc'[q] = pc[q] /\ arg'[q] = arg[q] /\ grant'[q] = grant[q],
               \/ pc[r] \in {"idle", "embedding"}
               \/ arg[r] # u \/ grant[r] = Nothing \/ ~Retrievable(mem[P][u])
               \/ /\ pc'[r] \in {"persist", "writing", "mirror", "upsert"}
                  /\ arg'[r] = arg[r] /\ grant'[r] = grant[r]
        PROVE  Goal
    BY <1>5, <1>b DEF MirrorPending, Retrievable
  <1>6. ASSUME NEW r \in Requests, NEW v \in Units, RecordFeedback(r, v) PROVE Goal
    BY <1>6, <1>5, <1>a DEF RecordFeedback
  <1>7. ASSUME NEW r \in Requests, PersistBegin(r) PROVE Goal
    BY <1>7, <1>5, <1>a DEF PersistBegin
  <1>8. ASSUME NEW r \in Requests, PersistEnd(r) PROVE Goal
    BY <1>8, <1>5, <1>a DEF PersistEnd, Mirrored
  <1>9. ASSUME NEW r \in Requests, MirrorLoad(r) PROVE Goal
    <2>1. CASE Retrievable(mem[P][arg[r]])
      <3>1. /\ pc[r] = "mirror" /\ pc' = [pc EXCEPT ![r] = "upsert"]
            /\ UNCHANGED <<open, mem, mirror, arg, grant>>
        BY <1>9, <2>1, <1>a DEF MirrorLoad
      <3> QED
        BY <3>1, <1>5, <1>a
    <2>2. CASE ~Retrievable(mem[P][arg[r]])
      <3>1. pc[r] = "mirror" /\ Drop({r}) /\ UNCHANGED <<open, mem, mirror>>
        BY <1>9, <2>2, <1>a DEF MirrorLoad, Answer
      <3>2. arg[r] # u \/ ~Retrievable(mem[P][u])
        BY <2>2 DEF Retrievable
      <3> QED
        BY <3>1, <3>2, <1>5, <1>a DEF Drop
    <2> QED
      BY <2>1, <2>2
  <1>10. ASSUME NEW r \in Requests, Upsert(r) PROVE Goal
    <2>1. /\ pc[r] = "upsert" /\ Drop({r}) /\ UNCHANGED <<open, mem>> /\ open[P]
          /\ mirror' = [mirror EXCEPT ![arg[r]] = loaded[r]] /\ Retrievable(loaded[r])
      BY <1>10, <1>a DEF Upsert, Answer
    <2>2. CASE arg[r] = u
      BY <2>1, <2>2, <1>a DEF Retrievable
    <2>3. CASE arg[r] # u
      BY <2>1, <2>3, <1>5, <1>a DEF Drop
    <2> QED
      BY <2>2, <2>3
  <1>11. ASSUME NEW r \in Requests, EmbedFails(r) PROVE Goal
    BY <1>11, <1>5, <1>a DEF EmbedFails, Answer, Drop
  <1>12. ASSUME NEW r \in Requests, PersistFails(r) \/ UpsertFails(r) PROVE FALSE
    BY <1>12 DEF PersistFails, UpsertFails, OneProcess, Mirrored
  <1>13. ASSUME UNCHANGED vars PROVE Goal
    BY <1>13, <1>b DEF vars, requestVars, MirrorPending, Retrievable
  <1>14. Goal
    <2> HIDE DEF Goal
    <2> QED
      BY <1>1, <1>2, <1>3, <1>4, <1>6, <1>7, <1>8, <1>9, <1>10, <1>11, <1>12, <1>13 DEF Next, Step
  <1> QED
    BY <1>14 DEF P

(* Once no consent on it is under way, a unit the store approves is in the *)
(* mirror as retrievable.                                                  *)
THEOREM MirrorAlwaysCoversApproved ==
    OneProcess /\ Mirrored => (Spec => []MirrorCoversApproved)
  <1> SUFFICES ASSUME OneProcess, Mirrored PROVE Spec => []MirrorCoversApproved
    OBVIOUS
  <1>1. TypeOK /\ CoverInv => MirrorCoversApproved
    BY OneProcessFacts DEF OneProcess, CoverInv, MirrorCoversApproved, MirrorPending, InFlight
  <1> QED
    BY <1>1, InitCoverInv, StepCoverInv, ServerInvAlways, MemoryTypeCorrect, PTL DEF Spec
=============================================================================
