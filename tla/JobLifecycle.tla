---------------------------- MODULE JobLifecycle ----------------------------
(***************************************************************************)
(* What the persistent job queue promises about one job record, whatever   *)
(* processes and requests act on it: a job is attempted a bounded number   *)
(* of times, a cancellation that was requested while an attempt runs is    *)
(* the outcome of that attempt, and success is final.  One step breaks     *)
(* these promises, a retry that writes over a row it did not read          *)
(* (Overwrite), and it marks the job for good.  JobQueue, with its worker  *)
(* processes and interleaved HTTP requests, implements this module.        *)
(***************************************************************************)
EXTENDS Naturals

CONSTANTS Jobs,       \* identities of the job rows
          MaxRetries  \* Settings.max_job_retries

VARIABLES state,   \* state[j]: the state column, or "absent" / "deleted"
          attempt, \* attempt[j]: the attempt_number column
          overwritten  \* overwritten[j]: an outdated retry wrote over the row

vars == <<state, attempt, overwritten>>

Settled == {"succeeded", "failed", "cancelled"}

Init == /\ state = [j \in Jobs |-> "absent"]
        /\ attempt = [j \in Jobs |-> 0]
        /\ overwritten = [j \in Jobs |-> FALSE]

\* A step of job j from one of the states From to the state to.
Move(j, From, to) == /\ state[j] \in From
                     /\ state' = [state EXCEPT ![j] = to]

Submit(j) == Move(j, {"absent"}, "queued") /\ UNCHANGED <<attempt, overwritten>>

\* The only step that counts an attempt, at most MaxRetries + 1 times as long as
\* no outdated retry interferes.
Start(j) == /\ Move(j, {"queued"}, "running")
            /\ attempt[j] <= MaxRetries \/ overwritten[j]
            /\ attempt' = [attempt EXCEPT ![j] = @ + 1]
            /\ UNCHANGED overwritten

CancelQueued(j)  == Move(j, {"queued"}, "cancelled") /\ UNCHANGED <<attempt, overwritten>>
RequestCancel(j) == Move(j, {"running"}, "cancel_requested") /\ UNCHANGED <<attempt, overwritten>>

Succeed(j) == Move(j, {"running"}, "succeeded") /\ UNCHANGED <<attempt, overwritten>>
Fail(j)    == Move(j, {"running"}, "failed") /\ UNCHANGED <<attempt, overwritten>>

\* A running attempt is cancelled by a request or by its worker shutting down.
Cancel(j) == Move(j, {"running", "cancel_requested"}, "cancelled") /\ UNCHANGED <<attempt, overwritten>>

Retry(j) == /\ attempt[j] <= MaxRetries
            /\ Move(j, {"failed", "cancelled"}, "queued")
            /\ UNCHANGED <<attempt, overwritten>>

\* A retry that read an earlier row of the job queues it whatever became of it.
Overwrite(j) == /\ Move(j, {"running", "cancel_requested"} \cup Settled, "queued")
                /\ overwritten' = [overwritten EXCEPT ![j] = TRUE]
                /\ UNCHANGED attempt

\* Deleting a project removes all of its jobs at once.
Delete(S) == /\ state' = [j \in Jobs |-> IF j \in S THEN "deleted" ELSE state[j]]
             /\ UNCHANGED <<attempt, overwritten>>

Next == \/ \E j \in Jobs : \/ Submit(j) \/ Start(j) \/ CancelQueued(j) \/ RequestCancel(j)
                           \/ Succeed(j) \/ Fail(j) \/ Cancel(j) \/ Retry(j)
                           \/ Overwrite(j)
        \/ \E S \in SUBSET Jobs : Delete(S)

Spec == Init /\ [][Next]_vars
=============================================================================
