-------------------------- MODULE ReviewCallsProofs --------------------------
(***************************************************************************)
(* Proofs about ReviewRunner and ReviewCalls for any number of reviewers,  *)
(* any enabled subset of them, any max_concurrent and any retry policy.    *)
(*                                                                         *)
(* The runner: the inductive invariant adds to the properties what makes   *)
(* them inductive: the semaphore's queue holds each waiting task exactly   *)
(* once, and only as long as no permit is free; the tasks not spawned yet  *)
(* are the last ones of the list.                                          *)
(*                                                                         *)
(* The calls: every step is a step of the runner or leaves its variables   *)
(* alone, so the runner's invariants hold of them too.  What the calls add *)
(* is an invariant of each call by itself: what its stage says of its      *)
(* task, of its reply, of the time it may have taken and of how its last   *)
(* attempt ended.                                                          *)
(***************************************************************************)
EXTENDS ReviewCalls, FiniteSetTheorems, SequenceTheorems, TLAPS

(* The queue of the semaphore and the states of the tasks agree.           *)
QueueOK ==
    /\ \A p \in 1..Len(waiters) : task[waiters[p]] = "waiting"
    /\ \A p, q \in 1..Len(waiters) : waiters[p] = waiters[q] => p = q
    /\ \A i \in Ids : task[i] = "waiting" => \E p \in 1..Len(waiters) : waiters[p] = i
    /\ waiters # << >> => free = 0

(* The caller's loops: what is spawned is a prefix of the list, joining    *)
(* starts when all of it is.                                               *)
LoopsOK ==
    /\ \A i \in Ids : task[i] = "absent" <=> i > spawned
    /\ phase = "spawn" => spawned < N /\ results = << >>
    /\ phase = "join" => spawned = N /\ Len(results) < N

(* A disabled reviewer never gets a reply.                                 *)
RepliesOK == \A i \in Ids : reply[i] \in Endings(i) \cup {NoReply}

IInv ==
    /\ TypeOK
    /\ PermitsConserved
    /\ QueueOK
    /\ LoopsOK
    /\ RepliesOK
    /\ ResultsFaithful

-----------------------------------------------------------------------------
LEMMA PermitsPositive == Permits \in Nat /\ Permits > 0
  BY RunnerAssumption DEF Permits

LEMMA RunningFinite == IsFiniteSet(Running) /\ Cardinality(Running) \in Nat
  <1>1. IsFiniteSet(Ids)
    BY RunnerAssumption, FS_Interval DEF Ids
  <1>2. Running \subseteq Ids
    BY DEF Running
  <1> QED
    BY <1>1, <1>2, FS_Subset, FS_CardinalityType

(* The bounded set of replies contains the missing reply's shape, too.     *)
LEMMA EndingsTyped == \A i \in Ids : Endings(i) \subseteq Replies \cup {NoReply}
  BY DEF Endings

LEMMA RepliesTyped ==
    ASSUME NEW r \in Replies \cup {NoReply}
    PROVE  \E n \in 0..MaxItems : r.items \in [1..n -> BOOLEAN]
  <1>1. CASE r.tag = "items"
    <2>1. r.items \in UNION {[1..n -> BOOLEAN] : n \in 0..MaxItems}
      BY <1>1 DEF Replies, NoReply, Items
    <2> QED
      BY <2>1
  <1>2. CASE r.tag # "items"
    <2>1. r.items = << >>
      BY <1>2 DEF Replies, NoReply
    <2>2. 0 \in 0..MaxItems /\ << >> \in [1..0 -> BOOLEAN]
      BY RunnerAssumption
    <2> QED
      BY <2>1, <2>2
  <1> QED
    BY <1>1, <1>2

LEMMA JoinResultTyped ==
    ASSUME TypeOK, NEW i \in Ids
    PROVE  /\ JoinResult(i) \in AgentRunResult
           /\ JoinResult(i).agent = Agent[i]
  <1>1. Agent[i] \in Agents
    BY RunnerAssumption DEF Ids
  <1>2. reply[i] \in Replies \cup {NoReply}
    BY DEF TypeOK
  <1>3. PICK n \in 0..MaxItems : reply[i].items \in [1..n -> BOOLEAN]
    BY <1>2, RepliesTyped
  <1>4. FindingsIn(i, reply[i]) \in Seq(Ids \X (1..MaxItems))
    <2>1. DOMAIN reply[i].items = 1..n
      BY <1>3
    <2>2. n \in Nat /\ 1..n \subseteq 1..MaxItems
      BY RunnerAssumption
    <2>3. FindingsIn(i, reply[i]) \in [1..n -> Ids \X (1..MaxItems)]
      BY <2>1, <2>2 DEF FindingsIn
    <2> QED
      BY <2>2, <2>3
  <1>5. << >> \in Seq(Ids \X (1..MaxItems))
    OBVIOUS
  <1> QED
    BY <1>1, <1>4, <1>5 DEF JoinResult, RunOne, AgentRunResult

-----------------------------------------------------------------------------
LEMMA InitIInv == Init => IInv
  <1> SUFFICES ASSUME Init PROVE IInv
    OBVIOUS
  <1> USE RunnerAssumption DEF Init, Ids
  <1>1. TypeOK
    <2>1. free \in 0..Permits
      BY PermitsPositive
    <2> QED
      BY <2>1 DEF TypeOK, TaskStates
  <1>2. PermitsConserved
    <2>1. Running = {}
      BY DEF Running
    <2> QED
      BY <2>1, FS_EmptySet, PermitsPositive DEF PermitsConserved
  <1>3. QueueOK
    BY DEF QueueOK
  <1>4. LoopsOK
    BY DEF LoopsOK
  <1>5. ResultsFaithful
    BY DEF ResultsFaithful
  <1>6. RepliesOK
    BY DEF RepliesOK
  <1> QED
    BY <1>1, <1>2, <1>3, <1>4, <1>5, <1>6 DEF IInv

LEMMA SpawnIInv == IInv /\ Spawn => IInv'
  <1> SUFFICES ASSUME IInv, Spawn PROVE IInv'
    OBVIOUS
  <1> USE RunnerAssumption DEF IInv, Spawn, Ids
  <1>1. spawned + 1 \in Ids /\ task[spawned + 1] = "absent"
    BY DEF TypeOK, LoopsOK
  <1>2. TypeOK'
    BY <1>1 DEF TypeOK, TaskStates
  <1>3. PermitsConserved'
    <2>1. Running' = Running
      BY <1>1 DEF Running, TypeOK
    <2> QED
      BY <2>1 DEF PermitsConserved
  <1>4. QueueOK'
    <2>1. \A i \in Ids : task'[i] = "waiting" <=> task[i] = "waiting"
      BY <1>1 DEF TypeOK
    <2>2. \A p \in 1..Len(waiters) : waiters[p] \in Ids
      BY DEF TypeOK
    <2> QED
      BY <2>1, <2>2 DEF QueueOK
  <1>5. LoopsOK'
    BY <1>1 DEF LoopsOK, TypeOK
  <1>6. ResultsFaithful'
    BY DEF LoopsOK, ResultsFaithful
  <1>7. RepliesOK'
    BY DEF RepliesOK
  <1> QED
    BY <1>2, <1>3, <1>4, <1>5, <1>6, <1>7

LEMMA AcquireIInv ==
    ASSUME IInv, NEW i \in Ids, Acquire(i)
    PROVE  IInv'
  <1> USE RunnerAssumption DEF IInv, Acquire
  <1>1. task[i] = "spawned" /\ RepliesOK'
    BY DEF RepliesOK
  <1>2. CASE free > 0
    <2>1. task' = [task EXCEPT ![i] = "running"] /\ free' = free - 1 /\ waiters' = waiters
      BY <1>2
    <2>2. waiters = << >>
      BY <1>2 DEF QueueOK
    <2>3. TypeOK'
      BY <1>2, <2>1, PermitsPositive DEF TypeOK, TaskStates
    <2>4. PermitsConserved'
      <3>1. Running' = Running \cup {i} /\ i \notin Running
        BY <1>1, <2>1 DEF Running, TypeOK
      <3>2. Cardinality(Running') = Cardinality(Running) + 1
        BY <3>1, RunningFinite, FS_AddElement
      <3> QED
        BY <2>1, <3>2, RunningFinite, PermitsPositive DEF PermitsConserved, TypeOK
    <2>5. QueueOK'
      BY <1>1, <2>1, <2>2 DEF QueueOK, TypeOK
    <2>6. LoopsOK'
      BY <1>1, <2>1 DEF LoopsOK, TypeOK
    <2>7. ResultsFaithful'
      BY <1>1, <2>1 DEF ResultsFaithful, TypeOK, Ids
    <2> QED
      BY <1>1, <2>3, <2>4, <2>5, <2>6, <2>7
  <1>3. CASE ~(free > 0)
    <2>1. task' = [task EXCEPT ![i] = "waiting"] /\ waiters' = Append(waiters, i) /\ free' = free
      BY <1>3
    <2>2. free = 0
      BY <1>3, PermitsPositive DEF TypeOK
    <2>3. TypeOK'
      BY <2>1 DEF TypeOK, TaskStates
    <2>4. PermitsConserved'
      <3>1. Running' = Running
        BY <1>1, <2>1 DEF Running, TypeOK
      <3> QED
        BY <2>1, <3>1 DEF PermitsConserved
    <2>5. QueueOK'
      <3>1. waiters \in Seq(Ids)
        BY DEF TypeOK
      <3>2. Len(waiters') = Len(waiters) + 1 /\ waiters'[Len(waiters) + 1] = i
        BY <2>1, <3>1
      <3>3. \A p \in 1..Len(waiters) : waiters'[p] = waiters[p] /\ waiters[p] \in Ids /\ waiters[p] # i
        BY <1>1, <2>1, <3>1 DEF QueueOK
      <3>4. Len(waiters) \in Nat
        BY <3>1
      <3>5. \A p \in 1..Len(waiters') : task'[waiters'[p]] = "waiting"
        BY <2>1, <3>2, <3>3, <3>4 DEF QueueOK, TypeOK
      <3>6. \A p, q \in 1..Len(waiters') : waiters'[p] = waiters'[q] => p = q
        BY <3>2, <3>3, <3>4 DEF QueueOK
      <3>7. \A j \in Ids : task'[j] = "waiting" => \E p \in 1..Len(waiters') : waiters'[p] = j
        BY <2>1, <3>2, <3>3, <3>4 DEF QueueOK, TypeOK
      <3> QED
        BY <2>1, <2>2, <3>5, <3>6, <3>7 DEF QueueOK
    <2>6. LoopsOK'
      BY <1>1, <2>1 DEF LoopsOK, TypeOK
    <2>7. ResultsFaithful'
      BY <1>1, <2>1 DEF ResultsFaithful, TypeOK, Ids
    <2> QED
      BY <1>1, <2>3, <2>4, <2>5, <2>6, <2>7
  <1> QED
    BY <1>2, <1>3

(* Dropping a permit moves only the ending task and the head of the queue, *)
(* which was waiting.                                                      *)
LEMMA EndTaskIInv ==
    ASSUME IInv, NEW i \in Ids, EndTask(i)
    PROVE  IInv'
  <1> USE RunnerAssumption DEF IInv, EndTask, DropPermit
  <1>1. task[i] = "running" /\ waiters \in Seq(Ids)
    BY DEF TypeOK
  <1>2. reply' \in [Ids -> Replies \cup {NoReply}] /\ RepliesOK'
    BY EndingsTyped DEF TypeOK, RepliesOK
  <1>3. \A j \in Ids : task[j] = "ended" => task'[j] = "ended" /\ reply'[j] = reply[j]
    <2>1. ASSUME waiters # << >> PROVE task[Head(waiters)] = "waiting"
      BY <1>1, <2>1 DEF QueueOK
    <2> QED
      BY <1>1, <2>1 DEF TypeOK
  <1>4. ResultsFaithful'
    <2>1. results' = results /\ Len(results) \in Nat /\ Len(results) <= N
      BY DEF TypeOK
    <2>2. \A k \in 1..Len(results) : k \in Ids
      BY <2>1 DEF Ids
    <2>3. \A k \in 1..Len(results) : task'[k] = "ended" /\ reply'[k] = reply[k]
      BY <1>3, <2>2 DEF ResultsFaithful
    <2> QED
      BY <2>1, <2>3 DEF ResultsFaithful
  <1>5. CASE waiters = << >>
    <2>1. task' = [task EXCEPT ![i] = "ended"] /\ free' = free + 1 /\ waiters' = waiters
      BY <1>5
    <2>2. Running' = Running \ {i} /\ i \in Running
      BY <1>1, <2>1 DEF Running, TypeOK
    <2>3. Cardinality(Running') = Cardinality(Running) - 1
      BY <2>2, RunningFinite, FS_RemoveElement
    <2>4. PermitsConserved'
      BY <2>1, <2>3, RunningFinite, PermitsPositive DEF PermitsConserved, TypeOK
    <2>5. free + 1 <= Permits
      <3>1. Cardinality(Running') \in Nat
        BY <2>2, RunningFinite, FS_RemoveElement, FS_CardinalityType
      <3> QED
        BY <2>3, <3>1, RunningFinite, PermitsPositive DEF PermitsConserved, TypeOK
    <2>6. TypeOK'
      BY <1>2, <2>1, <2>5, PermitsPositive DEF TypeOK, TaskStates
    <2>7. QueueOK'
      BY <1>1, <1>5, <2>1 DEF QueueOK, TypeOK
    <2>8. LoopsOK'
      BY <1>1, <2>1 DEF LoopsOK, TypeOK
    <2> QED
      BY <1>2, <1>4, <2>4, <2>6, <2>7, <2>8
  <1>6. CASE waiters # << >>
    <2> DEFINE h == Head(waiters)
    <2>1. h \in Ids /\ h = waiters[1] /\ Len(waiters) \in Nat /\ Len(waiters) >= 1
      BY <1>1, <1>6
    <2>2. task[h] = "waiting" /\ h # i
      BY <1>1, <2>1 DEF QueueOK
    <2>3. task' = [task EXCEPT ![i] = "ended", ![h] = "running"] /\ waiters' = Tail(waiters) /\ free' = free
      BY <1>6
    <2>4. /\ Len(waiters') = Len(waiters) - 1
          /\ waiters' \in Seq(Ids)
          /\ \A p \in 1..Len(waiters') : waiters'[p] = waiters[p + 1] /\ p + 1 \in 1..Len(waiters)
      BY <1>1, <1>6, <2>1, <2>3
    <2> HIDE DEF h
    <2>5. TypeOK'
      BY <1>2, <2>1, <2>3, <2>4 DEF TypeOK, TaskStates
    <2>6. PermitsConserved'
      <3>1. Running' = (Running \ {i}) \cup {h} /\ i \in Running /\ h \notin Running \ {i}
        BY <1>1, <2>1, <2>2, <2>3 DEF Running, TypeOK
      <3>2. /\ IsFiniteSet(Running \ {i})
            /\ Cardinality(Running \ {i}) = Cardinality(Running) - 1
        BY <3>1, RunningFinite, FS_RemoveElement
      <3>3. Cardinality(Running') = Cardinality(Running \ {i}) + 1
        BY <3>1, <3>2, FS_AddElement
      <3> QED
        BY <2>3, <3>2, <3>3, RunningFinite DEF PermitsConserved
    <2>7. QueueOK'
      <3>1. \A p \in 1..Len(waiters') : waiters'[p] \in Ids /\ waiters'[p] # h /\ waiters'[p] # i
        <4> SUFFICES ASSUME NEW p \in 1..Len(waiters')
                     PROVE  waiters'[p] \in Ids /\ waiters'[p] # h /\ waiters'[p] # i
          OBVIOUS
        <4>1. waiters'[p] = waiters[p + 1] /\ p + 1 \in 1..Len(waiters) /\ p + 1 # 1
          BY <2>1, <2>4
        <4>2. 1 \in 1..Len(waiters)
          BY <2>1
        <4>3. waiters[p + 1] # waiters[1] /\ task[waiters[p + 1]] = "waiting"
          BY <4>1, <4>2 DEF QueueOK
        <4> QED
          BY <1>1, <2>1, <4>1, <4>3
      <3>2. \A p \in 1..Len(waiters') : task'[waiters'[p]] = "waiting"
        BY <2>3, <2>4, <3>1 DEF QueueOK, TypeOK
      <3>3. \A p, q \in 1..Len(waiters') : waiters'[p] = waiters'[q] => p = q
        BY <2>1, <2>4 DEF QueueOK
      <3>4. ASSUME NEW j \in Ids, task'[j] = "waiting"
            PROVE  \E p \in 1..Len(waiters') : waiters'[p] = j
        <4>1. task[j] = "waiting" /\ j # h
          BY <2>1, <2>2, <2>3, <3>4 DEF TypeOK
        <4>2. PICK q \in 1..Len(waiters) : waiters[q] = j
          BY <4>1 DEF QueueOK
        <4>3. q # 1 /\ q - 1 \in 1..Len(waiters')
          BY <2>1, <2>4, <4>1, <4>2
        <4>4. waiters'[q - 1] = waiters[q]
          <5>1. waiters'[q - 1] = waiters[(q - 1) + 1]
            BY <2>4, <4>3
          <5>2. (q - 1) + 1 = q
            BY <2>1, <4>2
          <5> QED
            BY <5>1, <5>2
        <4> QED
          BY <4>2, <4>3, <4>4
      <3>5. free' = 0
        BY <1>6, <2>3 DEF QueueOK
      <3> QED
        BY <3>2, <3>3, <3>4, <3>5 DEF QueueOK
    <2>8. LoopsOK'
      BY <1>1, <2>1, <2>2, <2>3 DEF LoopsOK, TypeOK
    <2> QED
      BY <1>2, <1>4, <2>5, <2>6, <2>7, <2>8
  <1> QED
    BY <1>5, <1>6

LEMMA JoinIInv == IInv /\ Join => IInv'
  <1> SUFFICES ASSUME IInv, Join PROVE IInv'
    OBVIOUS
  <1> USE RunnerAssumption DEF IInv, Join
  <1> DEFINE k == Len(results) + 1
  <1>1. k \in Ids /\ task[k] = "ended" /\ results' = Append(results, JoinResult(k))
    BY DEF LoopsOK, TypeOK, Ids
  <1>2. JoinResult(k).agent = Agent[k]
    BY <1>1, JoinResultTyped
  <1>3. TypeOK'
    BY <1>1, JoinResultTyped DEF TypeOK, Ids
  <1>4. PermitsConserved'
    BY DEF PermitsConserved, Running
  <1>5. QueueOK'
    BY DEF QueueOK
  <1>6. LoopsOK'
    BY <1>1 DEF LoopsOK, TypeOK, Ids
  <1>8. RepliesOK'
    BY DEF RepliesOK
  <1>7. ResultsFaithful'
    <2>1. /\ Len(results') = k
          /\ results'[k] = JoinResult(k)
          /\ \A j \in 1..Len(results) : results'[j] = results[j]
          /\ \A j \in 1..k : j = k \/ j \in 1..Len(results)
      <3>1. results \in Seq(AgentRunResult) /\ Len(results) \in Nat
        BY DEF TypeOK
      <3> QED
        BY <1>1, <3>1
    <2>2. /\ JoinResult(k).status = "disabled" <=> ~Enabled[k]
          /\ JoinResult(k).status = "success" <=> Enabled[k] /\ Resolves(reply[k])
          /\ JoinResult(k).findings # << >> => JoinResult(k).status = "success"
          /\ JoinResult(k).status = "success" =>
                Len(JoinResult(k).findings) = Len(reply[k].items)
      <3>1. PICK n \in 0..MaxItems : reply[k].items \in [1..n -> BOOLEAN]
        BY <1>1, RepliesTyped DEF TypeOK
      <3>2. Len(FindingsIn(k, reply[k])) = Len(reply[k].items)
        BY <3>1 DEF FindingsIn
      <3>3. reply[k].tag = "panic" => ~Resolves(reply[k])
        BY DEF Resolves
      <3>4. reply[k].tag = "panic" => Enabled[k]
        BY <1>1 DEF RepliesOK, Endings, NoReply
      <3> HIDE DEF k
      <3> QED
        BY <1>1, <3>2, <3>3, <3>4 DEF JoinResult, RunOne
    <2> QED
      BY <1>1, <1>2, <2>1, <2>2 DEF ResultsFaithful
  <1> QED
    BY <1>3, <1>4, <1>5, <1>6, <1>7, <1>8

LEMMA CancelIInv == IInv /\ Cancel => IInv'
  <1> SUFFICES ASSUME IInv, Cancel PROVE IInv'
    OBVIOUS
  <1> USE DEF IInv, Cancel
  <1>1. TypeOK'
    BY DEF TypeOK
  <1>2. PermitsConserved' /\ QueueOK' /\ LoopsOK' /\ RepliesOK'
    BY DEF PermitsConserved, Running, QueueOK, LoopsOK, RepliesOK
  <1>3. ResultsFaithful'
    BY DEF ResultsFaithful
  <1> QED
    BY <1>1, <1>2, <1>3

LEMMA StutterIInv == IInv /\ UNCHANGED vars => IInv'
  <1> SUFFICES ASSUME IInv, UNCHANGED vars PROVE IInv'
    OBVIOUS
  <1> USE DEF IInv, vars
  <1>1. TypeOK'
    BY DEF TypeOK
  <1>2. PermitsConserved' /\ QueueOK' /\ LoopsOK' /\ RepliesOK'
    BY DEF PermitsConserved, Running, QueueOK, LoopsOK, RepliesOK
  <1>3. ResultsFaithful'
    BY DEF ResultsFaithful
  <1> QED
    BY <1>1, <1>2, <1>3

LEMMA NextIInv == IInv /\ [Next]_vars => IInv'
  <1> SUFFICES ASSUME IInv, [Next]_vars PROVE IInv'
    OBVIOUS
  <1>1. CASE Spawn
    BY <1>1, SpawnIInv
  <1>2. ASSUME NEW i \in Ids, Acquire(i) PROVE IInv'
    BY <1>2, AcquireIInv
  <1>3. ASSUME NEW i \in Ids, EndTask(i) PROVE IInv'
    BY <1>3, EndTaskIInv
  <1>4. CASE Join
    BY <1>4, JoinIInv
  <1>5. CASE Cancel
    BY <1>5, CancelIInv
  <1>6. CASE UNCHANGED vars
    BY <1>6, StutterIInv
  <1> QED
    BY <1>1, <1>2, <1>3, <1>4, <1>5, <1>6 DEF Next

LEMMA SpecIInv == Spec => []IInv
  BY InitIInv, NextIInv, PTL DEF Spec

-----------------------------------------------------------------------------
(* Type correctness, for every list of reviewers and every bound.          *)
THEOREM TypeCorrect == Spec => []TypeOK
  <1>1. IInv => TypeOK
    BY DEF IInv
  <1> QED
    BY <1>1, SpecIInv, PTL

(* The semaphore never lends more permits than ReviewRunner::new gave it   *)
(* and never loses one, whatever tasks return, fail or panic.              *)
THEOREM PermitsAlwaysConserved == Spec => []PermitsConserved
  <1>1. IInv => PermitsConserved
    BY DEF IInv
  <1> QED
    BY <1>1, SpecIInv, PTL

(* No task is left queued while a permit is free.                          *)
THEOREM NeverIdlePermit == Spec => []NoIdlePermit
  <1>1. IInv => NoIdlePermit
    <2> SUFFICES ASSUME IInv, NEW i \in Ids, task[i] = "waiting"
                 PROVE  free = 0
      BY DEF NoIdlePermit
    <2>1. PICK p \in 1..Len(waiters) : waiters[p] = i
      BY DEF IInv, QueueOK
    <2>2. waiters # << >>
      BY <2>1 DEF IInv, TypeOK
    <2> QED
      BY <2>2 DEF IInv, QueueOK
  <1> QED
    BY <1>1, SpecIInv, PTL

(* Every result is its own reviewer's, tells how its task ended, and       *)
(* carries findings only, and then all of them, when the task succeeded.   *)
THEOREM ResultsAlwaysFaithful == Spec => []ResultsFaithful
  <1>1. IInv => ResultsFaithful
    BY DEF IInv
  <1> QED
    BY <1>1, SpecIInv, PTL

-----------------------------------------------------------------------------
(* What AgentOutcomes sees of the results.                                 *)
Reported == [k \in DOMAIN results |->
                [agent |-> results[k].agent, status |-> results[k].status]]

LEMMA JoinReports ==
    ASSUME IInv, Join
    PROVE  Abstract!Next
  <1> DEFINE k == Len(results) + 1
             entry == [agent |-> Agent[k], status |-> JoinResult(k).status]
  <1>1. /\ k \in Ids
        /\ results \in Seq(AgentRunResult)
        /\ Len(results) \in Nat
        /\ Len(results) < N
        /\ results' = Append(results, JoinResult(k))
    BY RunnerAssumption DEF IInv, TypeOK, LoopsOK, Join, Ids
  <1>2. JoinResult(k) \in AgentRunResult /\ JoinResult(k).agent = Agent[k]
    BY <1>1, JoinResultTyped DEF IInv
  <1>3. JoinResult(k).status \in Abstract!Statuses(k)
    <2>1. reply[k].tag = "panic" => Enabled[k]
      BY <1>1 DEF IInv, RepliesOK, Endings, NoReply
    <2> HIDE DEF k
    <2> QED
      BY <2>1 DEF Abstract!Statuses, JoinResult, RunOne
  <1> HIDE DEF k
  <1>4. /\ DOMAIN results = 1..Len(results)
        /\ DOMAIN results' = 1..k
        /\ results'[k] = JoinResult(k)
        /\ \A j \in 1..Len(results) : results'[j] = results[j]
    <2>1. k = Len(results) + 1
      BY DEF k
    <2> QED
      BY <1>1, <1>2, <2>1
  <1>5. Reported \in Seq([agent : {results[j].agent : j \in DOMAIN results},
                           status : {results[j].status : j \in DOMAIN results}])
        /\ Len(Reported) = Len(results)
    BY <1>1, <1>4 DEF Reported
  <1>6. Reported' = Append(Reported, entry)
    <2>1. k = Len(results) + 1
      BY DEF k
    <2>2. Reported' = [j \in 1..k |->
                          [agent |-> results'[j].agent, status |-> results'[j].status]]
      BY <1>4 DEF Reported
    <2>3. Append(Reported, entry) =
              [j \in 1..k |-> IF j = k THEN entry ELSE Reported[j]]
      BY <1>1, <1>5, <2>1
    <2>4. ASSUME NEW j \in 1..k
          PROVE  [agent |-> results'[j].agent, status |-> results'[j].status]
                   = IF j = k THEN entry ELSE Reported[j]
      <3>1. CASE j = k
        BY <1>2, <1>4, <3>1
      <3>2. CASE j # k
        <4>1. j \in 1..Len(results)
          BY <1>1, <2>1, <3>2
        <4> QED
          BY <1>4, <3>2, <4>1 DEF Reported
      <3> QED
        BY <3>1, <3>2
    <2> QED
      BY <2>2, <2>3, <2>4
  <1> QED
    BY <1>1, <1>3, <1>5, <1>6 DEF Abstract!Next, Abstract!ReportNext, Reported, k

(* ReviewRunner implements AgentOutcomes: joining a task reports the next  *)
(* reviewer of the list with a status it can have, and nothing else        *)
(* reports anything or takes a report back.                                *)
THEOREM RunnerImplementsAgentOutcomes == Spec => ImplementsAgentOutcomes
  <1>1. Init => Abstract!Init
    BY DEF Init, Abstract!Init
  <1>2. IInv /\ [Next]_vars => [Abstract!Next]_Reported
    <2> SUFFICES ASSUME IInv, [Next]_vars PROVE Abstract!Next \/ Reported' = Reported
      OBVIOUS
    <2>1. CASE Join
      BY <2>1, JoinReports
    <2>2. CASE results' = results
      BY <2>2 DEF Reported
    <2> QED
      BY <2>1, <2>2 DEF Next, Spawn, Acquire, EndTask, Cancel, vars
  <1> QED
    BY <1>1, <1>2, SpecIInv, PTL DEF Spec, ImplementsAgentOutcomes, Abstract!Spec, Reported

-----------------------------------------------------------------------------
(* The longest delay before a retry.                                       *)
Delay == IF max_backoff_seconds < 1 THEN 1 ELSE max_backoff_seconds

Underway == {"attempt", "sent", "backoff"}

(* The call of reviewer i and its task agree, and nothing is replied       *)
(* before the call is over.                                                *)
TaskAgrees(i) ==
    /\ stage[i] \in Underway => task[i] = "running"
    /\ task[i] = "ended" <=> stage[i] = "over"
    /\ stage[i] # "over" => reply[i].tag = "none"

(* Every failure has cost no more than a timeout, and each but the last    *)
(* failure of a call in backoff the delay after it too.                    *)
WithinBudget(i) ==
    /\ stage[i] = "none" => failures[i] = 0 /\ spent[i] = 0 /\ last[i] = "none"
    /\ stage[i] \in {"attempt", "sent"} =>
          failures[i] <= max_retries /\ spent[i] <= failures[i] * (RequestTimeout + Delay)
    /\ stage[i] = "backoff" =>
          /\ failures[i] \in 1..max_retries
          /\ spent[i] <= failures[i] * (RequestTimeout + Delay) - Delay
    /\ spent[i] <= (max_retries + 1) * RequestTimeout + max_retries * Delay

(* A call goes on only after failures that may pass.                       *)
RetriedForTransients(i) ==
    /\ stage[i] \in Underway => IF failures[i] = 0 THEN last[i] = "none"
                                ELSE last[i] \in {"timeout", "unreachable", "overloaded"}
    /\ reply[i].tag = "provider_error" /\ last[i] \in {"timeout", "unreachable", "overloaded"} =>
          failures[i] = max_retries + 1

CallOK(i) == TaskAgrees(i) /\ WithinBudget(i) /\ RetriedForTransients(i)

CallInv ==
    /\ IInv
    /\ CallTypeOK
    /\ \A i \in Ids : CallOK(i)

-----------------------------------------------------------------------------
LEMMA DelayNat == Delay \in Nat /\ Delay >= 1 /\ RequestTimeout \in Nat /\ RequestTimeout >= 1
  BY CallAssumption DEF Delay, RequestTimeout

(* backoff_for stays under its cap, whatever the power has come to.        *)
LEMMA BackoffCapped ==
    ASSUME NEW n \in Nat
    PROVE  BackoffFor(n) \in Nat /\ BackoffFor(n) <= Delay
  BY CallAssumption DEF BackoffFor, Delay

(* The arithmetic of the budget: one more attempt after f failures.        *)
LEMMA OneMoreAttempt ==
    ASSUME NEW f \in Nat
    PROVE  /\ f * (RequestTimeout + Delay) \in Nat
           /\ f * (RequestTimeout + Delay) + RequestTimeout
                = (f + 1) * (RequestTimeout + Delay) - Delay
           /\ f <= max_retries => f * (RequestTimeout + Delay) + RequestTimeout
                                    <= (max_retries + 1) * RequestTimeout + max_retries * Delay
  <1> DEFINE A == RequestTimeout
             B == Delay
  <1>1. A \in Nat /\ B \in Nat /\ max_retries \in Nat
    BY DelayNat, CallAssumption
  <1> HIDE DEF A, B
  <1>2. f * (A + B) \in Nat /\ f * (A + B) + A = (f + 1) * (A + B) - B
    BY <1>1
  <1>3. ASSUME f <= max_retries
        PROVE  f * (A + B) + A <= (max_retries + 1) * A + max_retries * B
    <2>1. f * (A + B) <= max_retries * (A + B)
      BY <1>1, <1>3
    <2>2. max_retries * (A + B) + A = (max_retries + 1) * A + max_retries * B
      BY <1>1
    <2>3. max_retries * (A + B) \in Nat /\ f * (A + B) \in Nat
      BY <1>1
    <2> QED
      BY <1>1, <2>1, <2>2, <2>3
  <1> QED
    BY <1>2, <1>3 DEF A, B

LEMMA BudgetNat == (max_retries + 1) * RequestTimeout + max_retries * Delay \in Nat
  BY DelayNat, CallAssumption

-----------------------------------------------------------------------------
(* What the end of task i does: its reply is one a reviewer can get, it is *)
(* the only task to end, and at most one waiting task starts to run.       *)
LEMMA EndTaskFacts ==
    ASSUME IInv, NEW i \in Ids, EndTask(i)
    PROVE  /\ task[i] = "running" /\ task'[i] = "ended"
           /\ reply'[i] \in Endings(i)
           /\ \A j \in Ids \ {i} :
                 /\ reply'[j] = reply[j]
                 /\ task'[j] # task[j] => task[j] = "waiting" /\ task'[j] = "running"
  <1> USE DEF IInv, EndTask, DropPermit
  <1>1. /\ task \in [Ids -> TaskStates] /\ reply \in [Ids -> Replies \cup {NoReply}]
        /\ waiters \in Seq(Ids)
    BY DEF TypeOK
  <1>2. \A j \in Ids \ {i} : reply'[j] = reply[j]
    BY <1>1
  <1>3. reply'[i] \in Endings(i)
    BY <1>1
  <1>4. waiters # << >> => Head(waiters) \in Ids /\ task[Head(waiters)] = "waiting"
    BY <1>1 DEF QueueOK
  <1>5. CASE waiters = << >>
    BY <1>1, <1>2, <1>3, <1>5
  <1>6. CASE waiters # << >>
    BY <1>1, <1>2, <1>3, <1>4, <1>6
  <1> QED
    BY <1>5, <1>6

(* A step that is not of call j leaves it as it was.                       *)
CallKept(j) ==
    /\ <<stage[j], failures[j], last[j], spent[j], vision>>'
         = <<stage[j], failures[j], last[j], spent[j], vision>>
    /\ reply'[j] = reply[j]
    /\ task'[j] # task[j] => task[j] \notin {"running", "ended"} /\ task'[j] # "ended"

LEMMA OtherCallOK ==
    ASSUME NEW j \in Ids, CallOK(j), CallKept(j)
    PROVE  CallOK(j)'
  <1> USE DEF CallKept
  <1>1. TaskAgrees(j)'
    BY DEF CallOK, TaskAgrees, Underway
  <1>2. WithinBudget(j)'
    BY DEF CallOK, WithinBudget
  <1>3. RetriedForTransients(j)'
    BY DEF CallOK, RetriedForTransients, Underway
  <1> QED
    BY <1>1, <1>2, <1>3 DEF CallOK

(* It is therefore enough to look at the call that takes the step.         *)
OnlyCall(i) ==
    /\ vision' = vision
    /\ \A j \in Ids \ {i} :
          <<stage[j], failures[j], last[j], spent[j]>>'
            = <<stage[j], failures[j], last[j], spent[j]>>
    /\ EndTask(i) \/ UNCHANGED vars

CallTyped ==
    /\ stage \in [Ids -> Stages]
    /\ failures \in [Ids -> Nat] /\ last \in [Ids -> Answers \cup {"none"}]
    /\ spent \in [Ids -> Nat]
    /\ vision \in BOOLEAN

LEMMA OneCallOK ==
    ASSUME CallInv, NEW i \in Ids, OnlyCall(i), CallTyped', CallOK(i)'
    PROVE  CallInv'
  <1>1. IInv'
    BY NextIInv DEF CallInv, OnlyCall, Next
  <1>2. ASSUME NEW j \in Ids \ {i} PROVE CallOK(j)'
    <2>1. CASE EndTask(i)
      BY <2>1, <1>2, EndTaskFacts, OtherCallOK DEF CallInv, OnlyCall, CallKept
    <2>2. CASE UNCHANGED vars
      BY <2>2, <1>2, OtherCallOK DEF CallInv, OnlyCall, CallKept, vars
    <2> QED
      BY <2>1, <2>2 DEF OnlyCall
  <1>3. \A j \in Ids : CallOK(j)'
    BY <1>2
  <1>4. CallTypeOK'
    BY <1>3 DEF CallTyped, CallTypeOK, CallOK, TaskAgrees, Underway
  <1> QED
    BY <1>1, <1>3, <1>4 DEF CallInv

-----------------------------------------------------------------------------
LEMMA InitCallInv == CallInit => CallInv
  <1> SUFFICES ASSUME CallInit PROVE CallInv
    OBVIOUS
  <1> USE DEF CallInit
  <1>1. IInv
    BY InitIInv
  <1>2. \A i \in Ids : task[i] = "absent" /\ reply[i] = NoReply
    BY DEF Init
  <1>3. CallTypeOK
    BY <1>2 DEF CallTypeOK, Stages, Answers
  <1>4. ASSUME NEW i \in Ids PROVE CallOK(i)
    BY <1>2, CallAssumption, BudgetNat
    DEF CallOK, TaskAgrees, WithinBudget, RetriedForTransients, Underway, NoReply
  <1> QED
    BY <1>1, <1>3, <1>4 DEF CallInv

LEMMA CallerCallInv == CallInv /\ Caller => CallInv'
  <1> SUFFICES ASSUME CallInv, Caller PROVE CallInv'
    OBVIOUS
  <1> USE DEF CallInv
  <1>1. IInv'
    BY NextIInv DEF Caller, Next
  <1>2. ASSUME NEW j \in Ids PROVE CallKept(j)
    <2>1. reply'[j] = reply[j]
      BY DEF Caller, Spawn, Join, Cancel, Acquire
    <2>2. task'[j] # task[j] => task[j] \notin {"running", "ended"} /\ task'[j] # "ended"
      <3>1. CASE Spawn
        BY <3>1 DEF Spawn, IInv, TypeOK, LoopsOK, Ids
      <3>2. ASSUME NEW i \in Ids, Acquire(i), task'[j] # task[j]
            PROVE  task[j] \notin {"running", "ended"} /\ task'[j] # "ended"
        <4>1. \E s \in {"running", "waiting"} : task' = [task EXCEPT ![i] = s]
          BY <3>2 DEF Acquire
        <4>2. j = i
          BY <3>2, <4>1 DEF IInv, TypeOK
        <4>3. task[i] = "spawned" /\ task'[i] \in {"running", "waiting"}
          BY <3>2, <4>1 DEF Acquire, IInv, TypeOK
        <4> QED
          BY <4>2, <4>3
      <3> QED
        BY <3>1, <3>2 DEF Caller, Join, Cancel
    <2> QED
      BY <2>1, <2>2 DEF CallKept, Caller, callVars
  <1>3. \A j \in Ids : CallOK(j)'
    BY <1>2, OtherCallOK
  <1>4. CallTypeOK'
    BY <1>2, <1>3 DEF CallTypeOK, CallKept, CallOK, TaskAgrees, Underway, Caller, callVars
  <1> QED
    BY <1>1, <1>3, <1>4

(* The end of a call before anything is sent.                              *)
LEMMA UnsentOver ==
    ASSUME CallInv, NEW i \in Ids, NEW tag, EndCall(i, tag), stage[i] = "none",
           tag \in {"none", "panic", "provider_error"},
           UNCHANGED <<vision, failures, last, spent>>
    PROVE  CallInv'
  <1> USE DEF CallInv, EndCall
  <1>1. /\ task[i] = "running" /\ task'[i] = "ended" /\ reply'[i].tag = tag
        /\ stage \in [Ids -> Stages] /\ stage' = [stage EXCEPT ![i] = "over"]
    BY EndTaskFacts DEF CallTypeOK
  <1>2. CallTyped'
    BY <1>1 DEF CallTyped, CallTypeOK, Stages
  <1>3. OnlyCall(i)
    BY <1>1 DEF OnlyCall, CallTypeOK
  <1>4. CallOK(i)'
    <2>1. CallOK(i)
      OBVIOUS
    <2> QED
      BY <1>1, <2>1 DEF CallOK, TaskAgrees, WithinBudget, RetriedForTransients, Underway
  <1> QED
    BY <1>2, <1>3, <1>4, OneCallOK

LEMMA SkipCallInv ==
    ASSUME CallInv, NEW i \in Ids, Skip(i)
    PROVE  CallInv'
  BY UnsentOver DEF Skip

LEMMA StartCallInv ==
    ASSUME CallInv, NEW i \in Ids, Start(i)
    PROVE  CallInv'
  <1> USE DEF CallInv
  <1>1. task[i] = "running" /\ stage[i] = "none" /\ UNCHANGED <<vision, failures, last, spent>>
    BY DEF Start
  <1>2. CASE EndCall(i, "panic")
    BY <1>1, <1>2, UnsentOver
  <1>3. CASE EndCall(i, "provider_error")
    BY <1>1, <1>3, UnsentOver
  <1>4. ASSUME stage' = [stage EXCEPT ![i] = "attempt"], UNCHANGED vars
        PROVE  CallInv'
    <2>1. stage'[i] = "attempt" /\ task'[i] = "running" /\ reply' = reply
      BY <1>1, <1>4 DEF CallTypeOK, vars
    <2>2. CallTyped'
      BY <1>1, <1>4 DEF CallTyped, CallTypeOK, Stages
    <2>3. OnlyCall(i)
      BY <1>1, <1>4 DEF OnlyCall, CallTypeOK
    <2>4. CallOK(i)'
      <3>1. CallOK(i) /\ reply[i].tag = "none"
        BY <1>1 DEF CallOK, TaskAgrees
      <3> QED
        BY <1>1, <2>1, <3>1, DelayNat, CallAssumption
        DEF CallOK, TaskAgrees, WithinBudget, RetriedForTransients, Underway
    <2> QED
      BY <2>2, <2>3, <2>4, OneCallOK
  <1> QED
    BY <1>2, <1>3, <1>4 DEF Start

LEMMA SendCallInv ==
    ASSUME CallInv, NEW i \in Ids, Send(i)
    PROVE  CallInv'
  <1> USE DEF CallInv, Send
  <1>1. /\ stage \in [Ids -> Stages] /\ stage'[i] = "sent"
    BY DEF CallTypeOK
  <1>2. CallTyped'
    BY <1>1 DEF CallTyped, CallTypeOK, Stages
  <1>3. OnlyCall(i)
    BY DEF OnlyCall, CallTypeOK
  <1>4. CallOK(i)'
    <2>1. CallOK(i) /\ task' = task /\ reply' = reply
      BY DEF vars
    <2> QED
      BY <1>1, <2>1 DEF CallOK, TaskAgrees, WithinBudget, RetriedForTransients, Underway
  <1> QED
    BY <1>2, <1>3, <1>4, OneCallOK

LEMMA RetryCallInv ==
    ASSUME CallInv, NEW i \in Ids, Retry(i)
    PROVE  CallInv'
  <1> USE DEF CallInv, Retry
  <1>1. /\ stage[i] = "backoff" /\ stage'[i] = "attempt" /\ CallOK(i)
        /\ spent \in [Ids -> Nat] /\ failures[i] \in Nat
        /\ spent'[i] = spent[i] + BackoffFor(failures[i])
    BY DEF CallTypeOK
  <1>2. BackoffFor(failures[i]) \in Nat /\ BackoffFor(failures[i]) <= Delay
    BY <1>1, BackoffCapped
  <1>3. CallTyped'
    BY <1>1, <1>2 DEF CallTyped, CallTypeOK, Stages
  <1>4. OnlyCall(i)
    BY DEF OnlyCall, CallTypeOK
  <1>5. WithinBudget(i)'
    <2> DEFINE upto == failures[i] * (RequestTimeout + Delay)
               total == (max_retries + 1) * RequestTimeout + max_retries * Delay
    <2>1. /\ failures[i] \in 1..max_retries /\ spent[i] <= upto - Delay
          /\ spent[i] \in Nat /\ upto \in Nat /\ total \in Nat
          /\ upto + RequestTimeout <= total
      BY <1>1, OneMoreAttempt, BudgetNat, CallAssumption DEF CallOK, WithinBudget
    <2> HIDE DEF upto, total
    <2>2. spent'[i] <= upto /\ spent'[i] <= total
      BY <1>1, <1>2, <2>1, DelayNat
    <2> QED
      BY <1>1, <2>1, <2>2, CallAssumption DEF WithinBudget, upto, total
  <1>6. TaskAgrees(i)' /\ RetriedForTransients(i)'
    BY <1>1 DEF CallOK, TaskAgrees, RetriedForTransients, Underway, vars
  <1> QED
    BY <1>3, <1>4, <1>5, <1>6, OneCallOK DEF CallOK

LEMMA AnsweredCallInv ==
    ASSUME CallInv, NEW i \in Ids, Answered(i)
    PROVE  CallInv'
  <1> USE DEF CallInv
  <1>1. /\ stage[i] = "sent" /\ CallOK(i) /\ stage \in [Ids -> Stages]
        /\ spent \in [Ids -> Nat] /\ failures \in [Ids -> Nat] /\ last \in [Ids -> Answers \cup {"none"}]
        /\ task[i] = "running" /\ reply[i].tag = "none"
        /\ failures[i] <= max_retries
    BY DEF Answered, CallTypeOK, CallOK, TaskAgrees, WithinBudget, Underway
  <1>2. PICK answer \in Answers :
          LET class == Classify(answer) IN
          /\ \/ class = "ok" /\ \E tag \in {"items", "unparseable", "panic"} : EndCall(i, tag)
             \/ answer \in Quoted /\ EndCall(i, "panic")
             \/ GivesUp(i, class) /\ EndCall(i, "provider_error")
             \/ /\ class # "ok" /\ ~GivesUp(i, class)
                /\ stage' = [stage EXCEPT ![i] = "backoff"]
                /\ UNCHANGED vars
          /\ last' = [last EXCEPT ![i] = answer]
          /\ failures' = [failures EXCEPT ![i] = IF class = "ok" THEN @ ELSE @ + 1]
    BY DEF Answered
  <1> DEFINE class == Classify(answer)
  <1>3. /\ spent'[i] = spent[i] + RequestTimeout /\ last'[i] = answer
        /\ failures'[i] = IF class = "ok" THEN failures[i] ELSE failures[i] + 1
        /\ UNCHANGED vision
    BY <1>1, <1>2 DEF Answered
  <1>4. class \in {"ok", "transient", "permanent"}
        /\ (class = "transient" <=> answer \in {"timeout", "unreachable", "overloaded"})
    BY DEF Classify, Answers
  <1>5. /\ stage' = [stage EXCEPT ![i] = stage'[i]]
        /\ \/ stage'[i] = "over" /\ EndTask(i) /\ task'[i] = "ended"
           \/ stage'[i] = "backoff" /\ UNCHANGED vars
    BY <1>1, <1>2, EndTaskFacts DEF EndCall
  <1>6. CallTyped'
    BY <1>1, <1>2, <1>5, DelayNat DEF Answered, CallTyped, CallTypeOK, Stages
  <1>7. OnlyCall(i)
    BY <1>1, <1>5 DEF Answered, OnlyCall, CallTypeOK
  <1>8. WithinBudget(i)'
    <2> DEFINE upto == failures[i] * (RequestTimeout + Delay)
               total == (max_retries + 1) * RequestTimeout + max_retries * Delay
    <2>1. /\ spent[i] <= upto /\ spent[i] \in Nat /\ upto \in Nat /\ total \in Nat
          /\ upto + RequestTimeout = (failures[i] + 1) * (RequestTimeout + Delay) - Delay
          /\ upto + RequestTimeout <= total
      BY <1>1, OneMoreAttempt, BudgetNat, CallAssumption DEF CallOK, WithinBudget
    <2> HIDE DEF upto, total
    <2>2. /\ spent'[i] <= total
          /\ spent'[i] <= (failures[i] + 1) * (RequestTimeout + Delay) - Delay
      <3>1. spent'[i] <= upto + RequestTimeout
        BY <1>1, <1>3, <2>1, DelayNat
      <3>2. spent'[i] \in Nat /\ upto + RequestTimeout \in Nat
        BY <1>1, <1>3, <2>1, DelayNat
      <3>3. spent'[i] <= total
        BY <2>1, <3>1, <3>2
      <3> QED
        BY <2>1, <3>1, <3>3
    <2>3. CASE stage'[i] = "over"
      BY <2>2, <2>3 DEF WithinBudget, total
    <2>4. CASE stage'[i] = "backoff"
      <3>1. class # "ok" /\ ~GivesUp(i, class)
        BY <1>1, <1>2, <2>4 DEF EndCall
      <3>2. failures[i] < max_retries /\ failures'[i] = failures[i] + 1
        BY <1>1, <1>3, <1>4, <3>1, CallAssumption DEF GivesUp
      <3>3. failures'[i] \in 1..max_retries
        BY <1>1, <3>2, CallAssumption
      <3> QED
        BY <2>2, <2>4, <3>2, <3>3 DEF WithinBudget, total
    <2> QED
      BY <1>5, <2>3, <2>4
  <1>9. RetriedForTransients(i)'
    <2>1. CASE stage'[i] = "over"
      <3>1. ASSUME reply'[i].tag = "provider_error", class = "transient"
            PROVE  failures'[i] = max_retries + 1
        <4>1. EndCall(i, reply'[i].tag) /\ GivesUp(i, class)
          BY <1>1, <1>2, <2>1, <3>1 DEF EndCall
        <4> QED
          BY <1>1, <1>3, <3>1, <4>1, CallAssumption DEF GivesUp
      <3> QED
        BY <1>3, <1>4, <2>1, <3>1 DEF RetriedForTransients, Underway
    <2>2. CASE stage'[i] = "backoff"
      <3>1. class = "transient" /\ failures'[i] = failures[i] + 1
        BY <1>1, <1>2, <1>3, <1>4, <2>2 DEF EndCall, GivesUp
      <3>2. reply'[i].tag = "none"
        BY <1>1, <1>5, <2>2 DEF vars
      <3> QED
        BY <1>1, <1>3, <1>4, <2>2, <3>1, <3>2 DEF RetriedForTransients, Underway
    <2> QED
      BY <1>5, <2>1, <2>2
  <1>10. TaskAgrees(i)'
    BY <1>1, <1>3, <1>5 DEF TaskAgrees, Underway, vars
  <1> QED
    BY <1>6, <1>7, <1>8, <1>9, <1>10, OneCallOK DEF CallOK

LEMMA NextCallInv == CallInv /\ [CallNext]_allVars => CallInv'
  <1> SUFFICES ASSUME CallInv, [CallNext]_allVars PROVE CallInv'
    OBVIOUS
  <1>1. CASE Caller
    BY <1>1, CallerCallInv
  <1>2. ASSUME NEW i \in Ids, CallStep(i) PROVE CallInv'
    BY <1>2, SkipCallInv, StartCallInv, SendCallInv, AnsweredCallInv, RetryCallInv DEF CallStep
  <1>3. CASE UNCHANGED allVars
    <2>1. IInv'
      BY <1>3, StutterIInv DEF CallInv, allVars, vars
    <2>2. CallTypeOK'
      BY <1>3 DEF CallInv, CallTypeOK, allVars
    <2>3. ASSUME NEW j \in Ids PROVE CallOK(j)'
      BY <1>3, <2>3, OtherCallOK DEF CallInv, CallKept, allVars
    <2> QED
      BY <2>1, <2>2, <2>3 DEF CallInv
  <1> QED
    BY <1>1, <1>2, <1>3 DEF CallNext

LEMMA CallSpecCallInv == CallSpec => []CallInv
  BY InitCallInv, NextCallInv, PTL DEF CallSpec

-----------------------------------------------------------------------------
(* Type correctness of the calls, for every retry policy.                  *)
THEOREM CallsTypeCorrect == CallSpec => []CallTypeOK
  <1>1. CallInv => CallTypeOK
    BY DEF CallInv
  <1> QED
    BY <1>1, CallSpecCallInv, PTL

(* However its attempts fail, a call is over in the time that timeout,     *)
(* retries and the cap on the delays allow.                                *)
THEOREM CallTimeAlwaysBounded == CallSpec => []CallTimeBounded
  <1>1. CallInv => CallTimeBounded
    BY DEF CallInv, CallOK, WithinBudget, CallTimeBounded, Delay
  <1> QED
    BY <1>1, CallSpecCallInv, PTL

(* Only an attempt that ended without a status, or with 429 or 5xx, is     *)
(* made again, and as often as allowed.  (A body that was cut is not, and  *)
(* CutBodiesRetried does not hold.)                                        *)
THEOREM RetriesAlwaysForTransients == CallSpec => []RetriesAreForTransients
  <1>1. CallInv => RetriesAreForTransients
    <2> SUFFICES ASSUME CallInv, NEW i \in Ids
                 PROVE  /\ task[i] = "running" /\ failures[i] > 0 =>
                             last[i] \in {"timeout", "unreachable", "overloaded"}
                        /\ reply[i].tag = "provider_error"
                             /\ last[i] \in {"timeout", "unreachable", "overloaded"} =>
                             failures[i] = max_retries + 1
      BY DEF RetriesAreForTransients
    <2>1. CallOK(i) /\ stage[i] \in Stages /\ failures[i] \in Nat
      BY DEF CallInv, CallTypeOK
    <2>2. ASSUME task[i] = "running", failures[i] > 0 PROVE stage[i] \in Underway
      BY <2>1, <2>2 DEF CallOK, TaskAgrees, WithinBudget, Stages, Underway
    <2> QED
      BY <2>1, <2>2 DEF CallOK, RetriedForTransients
  <1> QED
    BY <1>1, CallSpecCallInv, PTL

(* With its calls spelled out the runner takes the runner's steps alone:   *)
(* what is proved of the runner holds of it.                               *)
THEOREM CallsRefineRunner == CallSpec => Spec
  <1>1. CallInit => Init
    BY DEF CallInit
  <1>2. [CallNext]_allVars => [Next]_vars
    <2> SUFFICES ASSUME [CallNext]_allVars PROVE [Next]_vars
      OBVIOUS
    <2>1. CASE Caller
      BY <2>1 DEF Caller, Next
    <2>2. ASSUME NEW i \in Ids, CallStep(i) PROVE EndTask(i) \/ UNCHANGED vars
      <3>1. CASE Skip(i)
        BY <3>1 DEF Skip, EndCall
      <3>2. CASE Start(i)
        BY <3>2 DEF Start, EndCall
      <3>3. CASE Answered(i)
        BY <3>3 DEF Answered, EndCall
      <3> QED
        BY <2>2, <3>1, <3>2, <3>3 DEF CallStep, Send, Retry
    <2>3. CASE UNCHANGED allVars
      BY <2>3 DEF allVars, vars
    <2> QED
      BY <2>1, <2>2, <2>3 DEF CallNext, Next
  <1> QED
    BY <1>1, <1>2, PTL DEF CallSpec, Spec

(* The permits are conserved and none is idle, the results are faithful    *)
(* and reported in order, whatever happens in the calls.                   *)
THEOREM RunnerHoldsWithCalls ==
    CallSpec => [](PermitsConserved /\ NoIdlePermit /\ ResultsFaithful) /\ ImplementsAgentOutcomes
  BY CallsRefineRunner, PermitsAlwaysConserved, NeverIdlePermit, ResultsAlwaysFaithful,
     RunnerImplementsAgentOutcomes, PTL
=============================================================================
