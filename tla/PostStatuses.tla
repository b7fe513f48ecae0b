---------------------------- MODULE PostStatuses ----------------------------
(***************************************************************************)
(* send_batch_balloon_statuses_to_miriada: the statuses of a batch are     *)
(* posted by a pool of threads, each with retries, while the calling       *)
(* thread collects the results and cancels what has not started after the  *)
(* first error.  Jobs are numbered in the order of submission, which is    *)
(* the order the pool starts them in and the order they are cancelled in.  *)
(***************************************************************************)
EXTENDS Integers, FiniteSets

CONSTANTS
    NJobs,      \* number of balloons whose payload was prepared
    Workers,    \* MIRIADA_BATCH_SEND_WORKERS
    Retries     \* MIRIADA_REQUEST_RETRIES

ASSUME PostAssumption ==
    /\ NJobs \in Nat \ {0}
    /\ Workers \in Nat \ {0}
    /\ Retries \in Nat

Jobs == 1..NJobs

\* "cancelled": cancel() succeeded but no worker has met the job yet; "dropped":
\* a worker met it and told as_completed.
JobStates == {"new", "queued", "sending", "sleeping", "ok", "failed",
              "cancelled", "dropped"}

\* What as_completed yields.
Settled == {"ok", "failed", "dropped"}

VARIABLES
    job,        \* [Jobs -> JobStates]: the futures
    attempt,    \* [Jobs -> 0..Retries]: retries used
    received,   \* [Jobs -> Nat]: times Miriada recorded the status
    phase,      \* what the calling thread is doing
    cursor,     \* next job of its loop
    collected,  \* jobs as_completed has yielded
    error       \* first_error is set

vars == <<job, attempt, received, phase, cursor, collected, error>>
callerVars == <<phase, cursor, collected, error>>

Init ==
    /\ job = [j \in Jobs |-> "new"]
    /\ attempt = [j \in Jobs |-> 0]
    /\ received = [j \in Jobs |-> 0]
    /\ phase = "submit"
    /\ cursor = 1
    /\ collected = {}
    /\ error = FALSE

----------------------------------------------------------------------------
(* The pool.                                                               *)

\* Threads of the pool that hold a job.
Busy == {j \in Jobs : job[j] \in {"sending", "sleeping"}}

\* The job at the head of the pool's queue, when a thread is free to take it.
IsNext(j) ==
    /\ job[j] \in {"queued", "cancelled"}
    /\ \A i \in 1..(j - 1) : job[i] \notin {"queued", "cancelled"}
    /\ Cardinality(Busy) < Workers

Take(j) ==
    /\ IsNext(j)
    /\ job' = [job EXCEPT ![j] = IF @ = "queued" THEN "sending" ELSE "dropped"]
    /\ UNCHANGED <<attempt, received, callerVars>>

\* Status 200.
Accepted(j) ==
    /\ job[j] = "sending"
    /\ job' = [job EXCEPT ![j] = "ok"]
    /\ received' = [received EXCEPT ![j] = @ + 1]
    /\ UNCHANGED <<attempt, callerVars>>

\* Seeded fault: one attempt too many.
AttemptFails_OffByOne(j) ==
    /\ job[j] = "sending"
    /\ \/ UNCHANGED received
       \/ received' = [received EXCEPT ![j] = @ + 1]
    /\ IF attempt[j] <= Retries
       THEN /\ attempt' = [attempt EXCEPT ![j] = @ + 1]
            /\ job' = [job EXCEPT ![j] = "sleeping"]
       ELSE /\ job' = [job EXCEPT ![j] = "failed"]
            /\ UNCHANGED attempt
    /\ UNCHANGED callerVars

\* Seeded fault: the attempts are not counted.
AttemptFails_Uncounted(j) ==
    /\ job[j] = "sending"
    /\ job' = [job EXCEPT ![j] = "sleeping"]
    /\ UNCHANGED <<attempt, received, callerVars>>

\* Another status, an unreadable answer, a network error or a timeout: Miriada may
\* have recorded the status all the same.  The thread sleeps and tries again, or
\* gives up with MiriadaAPIError.
AttemptFails(j) ==
    /\ job[j] = "sending"
    /\ \/ UNCHANGED received
       \/ received' = [received EXCEPT ![j] = @ + 1]
    /\ IF attempt[j] < Retries
       THEN /\ attempt' = [attempt EXCEPT ![j] = @ + 1]
            /\ job' = [job EXCEPT ![j] = "sleeping"]
       ELSE /\ job' = [job EXCEPT ![j] = "failed"]
            /\ UNCHANGED attempt
    /\ UNCHANGED callerVars

Wake(j) ==
    /\ job[j] = "sleeping"
    /\ job' = [job EXCEPT ![j] = "sending"]
    /\ UNCHANGED <<attempt, received, callerVars>>

----------------------------------------------------------------------------
(* The calling thread.                                                     *)

\* executor.submit for each job; the pool starts at once.
Submit ==
    /\ phase = "submit"
    /\ job' = [job EXCEPT ![cursor] = "queued"]
    /\ cursor' = cursor + 1
    /\ phase' = IF cursor = NJobs THEN "collect" ELSE "submit"
    /\ UNCHANGED <<attempt, received, collected, error>>

\* Seeded fault: a failed job is collected like one that was sent.
Collect_NoError(j) ==
    /\ phase = "collect"
    /\ j \notin collected
    /\ job[j] \in Settled
    /\ collected' = collected \cup {j}
    /\ UNCHANGED <<job, attempt, received, phase, cursor, error>>

\* The loop over as_completed: the first error starts the cancellation.
Collect(j) ==
    /\ phase = "collect"
    /\ j \notin collected
    /\ job[j] \in Settled
    /\ collected' = collected \cup {j}
    /\ IF job[j] = "failed" /\ ~error
       THEN error' = TRUE /\ phase' = "cancel" /\ cursor' = 1
       ELSE UNCHANGED <<error, phase, cursor>>
    /\ UNCHANGED <<job, attempt, received>>

\* Seeded fault: jobs already taken by a thread are marked as cancelled too.
Cancel_Running ==
    /\ phase = "cancel"
    /\ job' = [job EXCEPT ![cursor] = IF @ \in Settled THEN @ ELSE "cancelled"]
    /\ cursor' = cursor + 1
    /\ phase' = IF cursor = NJobs THEN "collect" ELSE "cancel"
    /\ UNCHANGED <<attempt, received, collected, error>>

\* pending.cancel(), which fails for a job a thread has taken.
Cancel ==
    /\ phase = "cancel"
    /\ job' = [job EXCEPT ![cursor] = IF @ = "queued" THEN "cancelled" ELSE @]
    /\ cursor' = cursor + 1
    /\ phase' = IF cursor = NJobs THEN "collect" ELSE "cancel"
    /\ UNCHANGED <<attempt, received, collected, error>>

\* Seeded fault: the call returns at the first error, without leaving the executor.
Return_Early ==
    /\ phase = "collect"
    /\ error \/ collected = Jobs
    /\ phase' = "done"
    /\ UNCHANGED <<job, attempt, received, cursor, collected, error>>

\* The executor is left when every job is settled; the call returns.
Return ==
    /\ phase = "collect"
    /\ collected = Jobs
    /\ phase' = "done"
    /\ UNCHANGED <<job, attempt, received, cursor, collected, error>>

Pool(j) == Take(j) \/ Accepted(j) \/ AttemptFails(j) \/ Wake(j)

Caller == Submit \/ (\E j \in Jobs : Collect(j)) \/ Cancel \/ Return

Next == Caller \/ \E j \in Jobs : Pool(j)

\* Every request has a timeout, so a thread that sends gets some outcome.
Fairness == WF_vars(Caller) /\ \A j \in Jobs : WF_vars(Pool(j))

Spec == Init /\ [][Next]_vars /\ Fairness

----------------------------------------------------------------------------
(* Properties.                                                             *)

\* Types; the bound on received is part of what the retries promise.
TypeOK ==
    /\ job \in [Jobs -> JobStates]
    /\ attempt \in [Jobs -> 0..Retries]
    /\ received \in [Jobs -> 0..(Retries + 1)]
    /\ phase \in {"submit", "collect", "cancel", "done"}
    /\ cursor \in 1..(NJobs + 1)
    /\ collected \subseteq Jobs
    /\ error \in BOOLEAN

\* The pass is reported as sent only if Miriada recorded every status, and as
\* failed only if some status used up its attempts.
ResultIsTrue ==
    phase = "done" =>
        IF error THEN \E j \in Jobs : job[j] = "failed"
        ELSE \A j \in Jobs : received[j] > 0

\* A job that was cancelled was never posted: what a retry of the closing posts
\* again is at most what some thread had already taken.
CancelledNeverPosted ==
    \A j \in Jobs : job[j] \in {"cancelled", "dropped"} => received[j] = 0

\* When the call has returned, with or without an error, no thread posts any more:
\* the batch is not moved to miriada_error while its statuses are still going out.
QuietAfterReturn == [][phase = "done" => UNCHANGED received]_vars

\* The call returns, whatever Miriada answers and whatever was cancelled.
Returns == <>(phase = "done")

Pass == INSTANCE StatusPass WITH
    recorded <- {j \in Jobs : received[j] > 0},
    acknowledged <- {j \in Jobs : job[j] = "ok"},
    outcome <- IF phase # "done" THEN "pending" ELSE IF error THEN "error" ELSE "sent"

\* The pool with its retries and cancellations is one pass of the abstract kind.
ImplementsPass == Pass!Spec
=============================================================================
