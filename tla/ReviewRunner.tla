---------------------------- MODULE ReviewRunner ----------------------------
(***************************************************************************)
(* The parallel reviewer runner of paper-guard-review (runner.rs): one     *)
(* tokio task per reviewer, a semaphore of max_concurrent permits, and a   *)
(* caller that awaits the tasks in list order.  A task ends by returning   *)
(* or by panicking; either way its permit is dropped.  The caller's future *)
(* may itself be dropped while it awaits a task (the HTTP handler of       *)
(* paper-guard-service goes away with its client): the tasks are detached  *)
(* and run on.                                                             *)
(***************************************************************************)
EXTENDS Integers, Sequences, FiniteSets

CONSTANTS N,              \* the number of reviewers handed to run
          Agents,         \* the reviewer kinds
          Agent,          \* Agent[i]: the kind of reviewer i
          Enabled,        \* Enabled[i]: reviewer i's settings().enabled
          max_concurrent, \* the configured bound, 0 for the default
          MaxItems        \* bound: findings in one LLM reply

ASSUME RunnerAssumption ==
    /\ N \in Nat
    /\ Agent \in [1..N -> Agents]
    /\ Enabled \in [1..N -> BOOLEAN]
    /\ max_concurrent \in Nat
    /\ MaxItems \in Nat

VARIABLES phase,    \* of the caller: "spawn", "join", "done", "cancelled"
          spawned,  \* tasks spawned so far
          task,     \* task[i]: where reviewer i's task is
          reply,    \* reply[i]: what reviewer i's LLM call led to
          free,     \* permits the semaphore has left
          waiters,  \* tasks queued in the semaphore, first come first served
          results   \* the Vec<AgentRunResult> built so far

vars == <<phase, spawned, task, reply, free, waiters, results>>

Ids == 1..N
TaskStates == {"absent", "spawned", "waiting", "running", "ended"}

(* ReviewRunner::new                                                       *)
Permits == IF max_concurrent = 0 THEN 4 ELSE max_concurrent

(***************************************************************************)
(* An LLM call: the provider fails, the reply is not a findings array, it  *)
(* is an array of items each of which passes the schema and its validation *)
(* or does not, or the task panics on the way.                             *)
(***************************************************************************)
Items == UNION {[1..n -> BOOLEAN] : n \in 0..MaxItems}
NoReply == [tag |-> "none", items |-> << >>]
Replies == [tag : {"items"}, items : Items]
             \cup [tag : {"unparseable", "provider_error", "panic"}, items : {<< >>}]

(* What the task of reviewer i can end with: a disabled reviewer never     *)
(* calls its provider.                                                     *)
Endings(i) == IF Enabled[i] THEN Replies ELSE {NoReply}

(* resolve_findings: every item is accepted or the whole reply is refused. *)
Resolves(r) == r.tag = "items" /\ \A k \in DOMAIN r.items : r.items[k]
FindingsIn(i, r) == [k \in DOMAIN r.items |-> <<i, k>>]

AgentRunResult == [agent    : Agents,
                   status   : {"success", "failed", "disabled"},
                   findings : Seq(Ids \X (1..MaxItems))]

(* Mutant: a reply that parses is a success, whatever its items are worth. *)
RunOneLenient(i, r) ==
    [agent    |-> Agent[i],
     status   |-> IF ~Enabled[i] THEN "disabled"
                  ELSE IF r.tag = "items" THEN "success" ELSE "failed",
     findings |-> IF Enabled[i] /\ Resolves(r) THEN FindingsIn(i, r) ELSE << >>]

(* run_one                                                                 *)
RunOne(i, r) ==
    [agent    |-> Agent[i],
     status   |-> IF ~Enabled[i] THEN "disabled"
                  ELSE IF Resolves(r) THEN "success" ELSE "failed",
     findings |-> IF Enabled[i] /\ Resolves(r) THEN FindingsIn(i, r) ELSE << >>]

(* What awaiting the handle of reviewer i gives: run_one's result, or a    *)
(* failure under the name kept beside the handle when the task panicked.   *)
JoinResult(i) ==
    IF reply[i].tag = "panic"
      THEN [agent |-> Agent[i], status |-> "failed", findings |-> << >>]
      ELSE RunOne(i, reply[i])

-----------------------------------------------------------------------------
Init ==
    /\ phase = IF N = 0 THEN "done" ELSE "spawn"
    /\ spawned = 0
    /\ task = [i \in Ids |-> "absent"]
    /\ reply = [i \in Ids |-> NoReply]
    /\ free = Permits
    /\ waiters = << >>
    /\ results = << >>

(* The spawning loop: the next reviewer gets its task.                     *)
Spawn ==
    /\ phase = "spawn"
    /\ spawned < N
    /\ spawned' = spawned + 1
    /\ task' = [task EXCEPT ![spawned + 1] = "spawned"]
    /\ phase' = IF spawned + 1 = N THEN "join" ELSE "spawn"
    /\ UNCHANGED <<reply, free, waiters, results>>

(* semaphore.acquire().await, its first poll: a free permit is taken, or   *)
(* the task queues up.                                                     *)
Acquire(i) ==
    /\ task[i] = "spawned"
    /\ IF free > 0
         THEN /\ task' = [task EXCEPT ![i] = "running"]
              /\ free' = free - 1
              /\ UNCHANGED waiters
         ELSE /\ task' = [task EXCEPT ![i] = "waiting"]
              /\ waiters' = Append(waiters, i)
              /\ UNCHANGED free
    /\ UNCHANGED <<phase, spawned, reply, results>>

(* Mutant: the permit is returned and nobody is woken.                     *)
DropPermitToPool(i) ==
    /\ task' = [task EXCEPT ![i] = "ended"]
    /\ free' = free + 1
    /\ UNCHANGED waiters

(* Dropping _permit when task i ends: the permit goes to the task that     *)
(* has waited longest, or back to the semaphore.                           *)
DropPermit(i) ==
    IF waiters = << >>
      THEN /\ task' = [task EXCEPT ![i] = "ended"]
           /\ free' = free + 1
           /\ UNCHANGED waiters
      ELSE /\ task' = [task EXCEPT ![i] = "ended", ![Head(waiters)] = "running"]
           /\ waiters' = Tail(waiters)
           /\ UNCHANGED free

(* Mutant: a task that panics takes its permit with it.                    *)
EndTaskPanicLeaks(i) ==
    /\ task[i] = "running"
    /\ \E r \in Endings(i) :
          /\ reply' = [reply EXCEPT ![i] = r]
          /\ IF r.tag = "panic"
               THEN task' = [task EXCEPT ![i] = "ended"] /\ UNCHANGED <<free, waiters>>
               ELSE DropPermit(i)
    /\ UNCHANGED <<phase, spawned, results>>

(* run_one returns, or the task panics inside it.                          *)
EndTask(i) ==
    /\ task[i] = "running"
    /\ \E r \in Endings(i) : reply' = [reply EXCEPT ![i] = r]
    /\ DropPermit(i)
    /\ UNCHANGED <<phase, spawned, results>>

(* Mutant: results are collected in the order in which the tasks end.      *)
JoinFirstEnded ==
    /\ phase = "join"
    /\ \E i \in Ids :
          /\ task[i] = "ended"
          /\ \A k \in DOMAIN results : results[k].agent # Agent[i]
          /\ results' = Append(results, JoinResult(i))
    /\ phase' = IF Len(results) + 1 = N THEN "done" ELSE "join"
    /\ UNCHANGED <<spawned, task, reply, free, waiters>>

(* The joining loop: the handles are awaited in list order.                *)
Join ==
    /\ phase = "join"
    /\ task[Len(results) + 1] = "ended"
    /\ results' = Append(results, JoinResult(Len(results) + 1))
    /\ phase' = IF Len(results) + 1 = N THEN "done" ELSE "join"
    /\ UNCHANGED <<spawned, task, reply, free, waiters>>

(* The caller's future is dropped while it awaits a handle.                *)
Cancel ==
    /\ phase = "join"
    /\ phase' = "cancelled"
    /\ UNCHANGED <<spawned, task, reply, free, waiters, results>>

Next ==
    \/ Spawn
    \/ \E i \in Ids : Acquire(i) \/ EndTask(i)
    \/ Join
    \/ Cancel

(* The runtime polls every task that can go on, and every LLM call ends:   *)
(* the HTTP client has a timeout and the retries are bounded.  Nothing     *)
(* makes a client go away.                                                 *)
Fairness ==
    /\ WF_vars(Spawn)
    /\ WF_vars(Join)
    /\ \A i \in Ids : WF_vars(Acquire(i)) /\ WF_vars(EndTask(i))

Spec == Init /\ [][Next]_vars
FairSpec == Spec /\ Fairness

-----------------------------------------------------------------------------
Running == {i \in Ids : task[i] = "running"}

(* Every variable stays in its range, and the caller's phase agrees with   *)
(* how far its two loops have come.                                        *)
TypeOK ==
    /\ phase \in {"spawn", "join", "done", "cancelled"}
    /\ spawned \in 0..N
    /\ task \in [Ids -> TaskStates]
    /\ reply \in [Ids -> Replies \cup {NoReply}]
    /\ free \in 0..Permits
    /\ waiters \in Seq(Ids)
    /\ results \in Seq(AgentRunResult)
    /\ Len(results) <= N

(* No more tasks are past acquire than the semaphore has permits, and none *)
(* of the permits is lost, whether tasks return or panic: what is free and *)
(* what is held always add up.                                             *)
PermitsConserved == free + Cardinality(Running) = Permits

(* A task waits in the semaphore only while every permit is held: a panic, *)
(* a disabled reviewer or a dropped caller never strands a queued task.    *)
NoIdlePermit == (\E i \in Ids : task[i] = "waiting") => free = 0

(* Result k is reviewer k's own: its task has ended, and the result says   *)
(* what that task came to, under that reviewer's name.  A success carries  *)
(* every finding of the reply; a failure, a panic or a partly invalid      *)
(* reply carries none (runner.rs: "never fabricate, and preserve WHICH     *)
(* agent failed").                                                         *)
ResultsFaithful ==
    \A k \in 1..Len(results) :
        /\ task[k] = "ended"
        /\ results[k].agent = Agent[k]
        /\ results[k].status = "disabled" <=> ~Enabled[k]
        /\ results[k].status = "success" <=> Enabled[k] /\ Resolves(reply[k])
        /\ results[k].findings # << >> => results[k].status = "success"
        /\ results[k].status = "success" =>
              Len(results[k].findings) = Len(reply[k].items)

(* Every review comes back with a result for every reviewer, whatever the  *)
(* reviewers do, unless the caller has gone away; and every task that was  *)
(* spawned ends, also when nobody awaits it any more: a queued reviewer is *)
(* never starved of its permit.                                            *)
ReviewEnds ==
    /\ <>(phase = "cancelled" \/ (phase = "done" /\ Len(results) = N))
    /\ \A i \in Ids : (task[i] = "spawned") ~> (task[i] = "ended")

(* The runner implements AgentOutcomes: the report is what the results say *)
(* of agent and status.                                                    *)
Abstract == INSTANCE AgentOutcomes WITH
    reported <- [k \in DOMAIN results |->
                   [agent |-> results[k].agent, status |-> results[k].status]]
ImplementsAgentOutcomes == Abstract!Spec
=============================================================================
