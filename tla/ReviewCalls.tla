----------------------------- MODULE ReviewCalls -----------------------------
(***************************************************************************)
(* ReviewRunner with the LLM call of a running reviewer spelled out: the   *)
(* request a reviewer builds (paper-guard-review, reviewer.rs), and the    *)
(* attempts, error classes and backoff of the OpenAI-compatible provider   *)
(* (paper-guard-llm) that answers it.  A task keeps its permit from its    *)
(* first attempt to its last, while it sleeps between them too.            *)
(*                                                                         *)
(* Time is counted per call, in seconds, by what bounds it: every attempt  *)
(* is charged the whole of its timeout.                                    *)
(***************************************************************************)
EXTENDS ReviewRunner

CONSTANTS max_retries, base_backoff_seconds, backoff_multiplier, max_backoff_seconds,
          timeout_seconds,
          WithImages    \* the reviewers that want the figures' images

ASSUME CallAssumption ==
    /\ {max_retries, base_backoff_seconds, backoff_multiplier, max_backoff_seconds,
        timeout_seconds} \subseteq Nat
    /\ WithImages \subseteq 1..N

VARIABLES vision,   \* whether the provider the reviewers share takes images
          stage,    \* stage[i]: where the call of reviewer i is
          failures, \* failures[i]: how many of its attempts failed
          last,     \* last[i]: how the last one ended
          spent     \* spent[i]: the seconds it may have taken

callVars == <<vision, stage, failures, last, spent>>
allVars == <<phase, spawned, task, reply, free, waiters, results,
             vision, stage, failures, last, spent>>

Stages == {"none", "attempt", "sent", "backoff", "over"}

-----------------------------------------------------------------------------
(* What comes of an HTTP attempt: no status in time or no connection; a    *)
(* status of 429 or 5xx ("overloaded"); another error status ("refused");  *)
(* a success whose body times out or breaks off on its way ("cut"), is     *)
(* there but no completion ("malformed"), or is a completion ("ok").       *)
Answers == {"ok", "timeout", "unreachable", "overloaded", "refused", "cut", "malformed"}

(* Mutant: what timed out is not tried again.                              *)
ClassifyTimeoutPermanent(answer) ==
    CASE answer = "ok" -> "ok"
      [] answer \in {"unreachable", "overloaded"} -> "transient"
      [] OTHER -> "permanent"

(* classify_send_error, classify_status and parse_success.  A body that was *)
(* cut is read as "", which is no JSON: to the code it is malformed.       *)
Classify(answer) ==
    CASE answer = "ok" -> "ok"
      [] answer \in {"timeout", "unreachable", "overloaded"} -> "transient"
      [] OTHER -> "permanent"

(* An answer with a status that is no success is quoted in the error, and  *)
(* cutting the quotation panics inside a multi-byte character.             *)
Quoted == {"overloaded", "refused"}

RequestTimeout == IF timeout_seconds = 0 THEN 1 ELSE timeout_seconds

(* Mutant: the delay grows without a cap.                                  *)
BackoffUncapped(n) ==
    LET delay == base_backoff_seconds * backoff_multiplier ^ (n - 1)
    IN  IF delay < 1 THEN 1 ELSE delay

(* backoff_for: before the n-th retry.                                     *)
BackoffFor(n) ==
    LET delay == base_backoff_seconds * backoff_multiplier ^ (n - 1)
        capped == IF delay \in 0..max_backoff_seconds THEN delay ELSE max_backoff_seconds
    IN  IF capped < 1 THEN 1 ELSE capped

-----------------------------------------------------------------------------
CallInit ==
    /\ Init
    /\ vision \in BOOLEAN
    /\ stage = [i \in Ids |-> "none"]
    /\ failures = [i \in Ids |-> 0] /\ last = [i \in Ids |-> "none"]
    /\ spent = [i \in Ids |-> 0]

Caller == (Spawn \/ Join \/ Cancel \/ \E i \in Ids : Acquire(i)) /\ UNCHANGED callVars

(* Mutant: the outcome of the call never reaches the task.                 *)
EndCallForgotten(i, tag) ==
    /\ stage' = [stage EXCEPT ![i] = "over"]
    /\ UNCHANGED vars

(* The call of reviewer i is over, and its task with it.                   *)
EndCall(i, tag) ==
    /\ EndTask(i)
    /\ reply'[i].tag = tag
    /\ stage' = [stage EXCEPT ![i] = "over"]

(* A disabled reviewer ends without a call.                                *)
Skip(i) ==
    /\ ~Enabled[i] /\ stage[i] = "none"
    /\ EndCall(i, "none")
    /\ UNCHANGED <<vision, failures, last, spent>>

(* Whether the request of a reviewer has images: of its figures, those     *)
(* that can be read.  (No parser of the repository sets a figure's asset:  *)
(* only a caller with documents of its own has images.)                    *)
Images(i) == IF i \in WithImages THEN BOOLEAN ELSE {FALSE}

(* The request is built, which may panic where the text is cut, and passes *)
(* the capability gate of generate or not.  (The format it asks for is one *)
(* the provider supports: build_provider derives the capability from it.)  *)
Start(i) ==
    /\ Enabled[i] /\ task[i] = "running" /\ stage[i] = "none"
    /\ \/ EndCall(i, "panic")
       \/ \E images \in Images(i) :
             \/ images /\ ~vision /\ EndCall(i, "provider_error")
             \/ /\ images => vision
                /\ stage' = [stage EXCEPT ![i] = "attempt"]
                /\ UNCHANGED vars
    /\ UNCHANGED <<vision, failures, last, spent>>

(* An attempt is sent.  Every attempt of a call sends the same request.    *)
Send(i) ==
    /\ stage[i] = "attempt"
    /\ stage' = [stage EXCEPT ![i] = "sent"]
    /\ UNCHANGED <<vision, failures, last, spent>> /\ UNCHANGED vars

(* Whether generate returns the error of this attempt: it is permanent, or *)
(* all the retries are used up.                                            *)
GivesUp(i, class) ==
    class = "permanent" \/ (class = "transient" /\ failures[i] >= max_retries)

(* The attempt is answered, or times out.                                  *)
Answered(i) ==
    /\ stage[i] = "sent"
    /\ spent' = [spent EXCEPT ![i] = @ + RequestTimeout]
    /\ \E answer \in Answers :
          LET class == Classify(answer) IN
          /\ \/ class = "ok" /\ \E tag \in {"items", "unparseable", "panic"} : EndCall(i, tag)
             \/ answer \in Quoted /\ EndCall(i, "panic")
             \/ GivesUp(i, class) /\ EndCall(i, "provider_error")
             \/ /\ class # "ok" /\ ~GivesUp(i, class)
                /\ stage' = [stage EXCEPT ![i] = "backoff"]
                /\ UNCHANGED vars
          /\ last' = [last EXCEPT ![i] = answer]
          /\ failures' = [failures EXCEPT ![i] = IF class = "ok" THEN @ ELSE @ + 1]
    /\ UNCHANGED vision

(* tokio::time::sleep is over.                                             *)
Retry(i) ==
    /\ stage[i] = "backoff"
    /\ spent' = [spent EXCEPT ![i] = @ + BackoffFor(failures[i])]
    /\ stage' = [stage EXCEPT ![i] = "attempt"]
    /\ UNCHANGED <<vision, failures, last>> /\ UNCHANGED vars

CallStep(i) == Skip(i) \/ Start(i) \/ Send(i) \/ Answered(i) \/ Retry(i)

CallNext == Caller \/ \E i \in Ids : CallStep(i)

(* Tasks that can go on are polled; an attempt ends by its timeout and a   *)
(* sleep by its length.  That the whole call ends is not assumed.          *)
CallFairness ==
    /\ WF_allVars(Spawn /\ UNCHANGED callVars)
    /\ WF_allVars(Join /\ UNCHANGED callVars)
    /\ \A i \in Ids : /\ WF_allVars(Acquire(i) /\ UNCHANGED callVars)
                      /\ WF_allVars(CallStep(i))

CallSpec == CallInit /\ [][CallNext]_allVars
FairCallSpec == CallSpec /\ CallFairness

-----------------------------------------------------------------------------
(* Types; a call is under way exactly in tasks that hold a permit.         *)
CallTypeOK ==
    /\ stage \in [Ids -> Stages]
    /\ failures \in [Ids -> Nat] /\ last \in [Ids -> Answers \cup {"none"}]
    /\ spent \in [Ids -> Nat]
    /\ vision \in BOOLEAN
    /\ \A i \in Ids : /\ stage[i] \in {"attempt", "sent", "backoff"} => task[i] = "running"
                      /\ task[i] = "ended" <=> stage[i] = "over"

(* A call is over within the time its configuration allows, however its    *)
(* attempts fail: max_retries more requests, each within the timeout, and  *)
(* delays none of which is over the cap ("a strict cap", architecture.md). *)
CallTimeBounded ==
    LET delay == IF max_backoff_seconds < 1 THEN 1 ELSE max_backoff_seconds
    IN \A i \in Ids : spent[i] <= (max_retries + 1) * RequestTimeout + max_retries * delay

(* A request that failed for good is never sent again, and one that failed *)
(* for the moment ends the call only when the retries are used up: no      *)
(* reviewer is lost to a single attempt that ended before a status came    *)
(* (timeout, no connection), or with 429 or 5xx.  A success whose body is  *)
(* cut is not among them: see CutBodiesRetried.                            *)
RetriesAreForTransients ==
    LET Momentary == {"timeout", "unreachable", "overloaded"} IN
    \A i \in Ids :
        /\ task[i] = "running" /\ failures[i] > 0 => last[i] \in Momentary
        /\ reply[i].tag = "provider_error" /\ last[i] \in Momentary =>
              failures[i] = max_retries + 1

(* The same of a timeout or a broken connection while a body is read, as   *)
(* architecture.md has it ("only transient errors (timeout, connection,    *)
(* 429, 5xx) are retried") and ProviderError::Transient: such a call gives *)
(* up only when its retries are used up.  The code never retries it.       *)
CutBodiesRetried ==
    \A i \in Ids :
        reply[i].tag = "provider_error" /\ last[i] = "cut" => failures[i] = max_retries + 1

(* The runner with the calls spelled out implements the runner, its        *)
(* fairness included: that every call ends is a consequence.               *)
ImplementsRunner == FairSpec
=============================================================================
