------------------------------ MODULE JobQueue ------------------------------
(***************************************************************************)
(* The persistent job queue of FlipThisVideoMaker: the jobs and workers    *)
(* tables, the HTTP handlers that submit, cancel, retry and delete, and    *)
(* the worker processes that claim a job, run its pipeline and finalise    *)
(* it.  Every function of services/jobs.py except retry is one conditional *)
(* UPDATE in one transaction, hence one action; retry loads the row,       *)
(* decides on the loaded copy and writes in a later transaction, hence two *)
(* (RetryLoad, RetryCommit), and any number of clients may be between the  *)
(* two with the same job.  A process is one boot generation of one logical *)
(* worker.  The pipeline is abstracted to what it can do to its job:       *)
(* notice a cancellation, raise, or return.                                *)
(***************************************************************************)
EXTENDS Naturals, FiniteSets

CONSTANTS Jobs,       \* job rows that may ever be created
          Projects,   \* projects; deleting one deletes its jobs
          Workers,    \* logical worker ids of config/workers.yaml
          Procs,      \* worker processes (boot generations)
          Clients,    \* HTTP requests that retry a job, one at a time each
          ProjectOf,  \* ProjectOf[j]: jobs.project_id
          WorkerOf,   \* WorkerOf[p]: the --device of process p
          MaxRetries, \* Settings.max_job_retries
          NoJob, NoProc

ASSUME JobQueueAssumption ==
    /\ ProjectOf \in [Jobs -> Projects]
    /\ WorkerOf \in [Procs -> Workers]
    /\ IsFiniteSet(Clients) /\ Clients # {}
    /\ MaxRetries \in Nat
    /\ NoJob \notin Jobs
    /\ NoProc \notin Procs

VARIABLES job,       \* job[j]: the columns of the jobs row
          clock,     \* created_at of the next job
          retrying,  \* retrying[c]: the job whose row a retry request loaded and accepted
          copy,      \* copy[c]: that row as it was loaded
          overwritten, \* history: overwritten[j], a retry changed a row of j that was not its copy
          row,       \* row[w]: workers.instance_id, NoProc while there is no row
          pc,        \* pc[p]: where process p stands in loop / process_next
          running,   \* running[p]: the job process p claimed
          stopped,   \* stopped[p]: loop's flag, set by SIGTERM or SIGINT
          lost       \* lost[p]: reporter.generation_lost

reqVars  == <<retrying, copy, overwritten>>
procVars == <<row, pc, running, stopped, lost>>
vars     == <<job, clock, retrying, copy, overwritten, row, pc, running, stopped, lost>>

Active   == {"running", "cancel_requested"}
Terminal == {"succeeded", "failed", "cancelled"}
Retryable == {"failed", "cancelled"}
JobStates == {"absent", "queued", "deleted"} \cup Active \cup Terminal

JobRecord == [state : JobStates, attempt : Nat, created : Nat,
              completed : BOOLEAN, outputs : BOOLEAN, error : BOOLEAN]

\* completed: completed_at is set; outputs, error: the JSON column is not empty.
NewJob == [state |-> "absent", attempt |-> 0, created |-> 0,
           completed |-> FALSE, outputs |-> FALSE, error |-> FALSE]

Booting   == {"inserting", "verifying"}
Executing == {"working", "completing", "cancelling", "failing"}
Looping   == {"top", "claiming"} \cup Executing
Live      == Booting \cup Looping
PCs       == {"off", "exited", "crashed"} \cup Live

Init ==
    /\ job = [j \in Jobs |-> NewJob]
    /\ clock = 1
    /\ retrying = [c \in Clients |-> NoJob]
    /\ copy = [c \in Clients |-> NewJob]
    /\ overwritten = [j \in Jobs |-> FALSE]
    /\ row = [w \in Workers |-> NoProc]
    /\ pc = [p \in Procs |-> "off"]
    /\ running = [p \in Procs |-> NoJob]
    /\ stopped = [p \in Procs |-> FALSE]
    /\ lost = [p \in Procs |-> FALSE]

-----------------------------------------------------------------------------
(* HTTP requests *)

SubmittedRow(j) == [job[j] EXCEPT !.state = "queued", !.created = clock]
\* Faulty variant: the state misspelt.
CancelledRow_Misspelt(j) == [job[j] EXCEPT !.state = "canceled", !.completed = TRUE]
CancelledRow(j) == [job[j] EXCEPT !.state = "cancelled", !.completed = TRUE]
CancelRequestedRow(j) == [job[j] EXCEPT !.state = "cancel_requested"]

\* enqueue_render, regenerate_shot: one INSERT with the column defaults.
Submit(j) ==
    /\ job[j].state = "absent"
    /\ job' = [job EXCEPT ![j] = SubmittedRow(j)]
    /\ clock' = clock + 1
    /\ UNCHANGED <<reqVars, procVars>>

\* request_cancellation: one UPDATE; in any other state it changes nothing.
RequestCancellation(j) ==
    /\ \/ /\ job[j].state = "queued"
          /\ job' = [job EXCEPT ![j] = CancelledRow(j)]
       \/ /\ job[j].state = "running"
          /\ job' = [job EXCEPT ![j] = CancelRequestedRow(j)]
    /\ UNCHANGED <<clock, reqVars, procVars>>

\* Faulty variants: a cancelling job may be retried; one retry too many.
RetryAccepts_Cancelling(j) == /\ job[j].state \in Retryable \cup {"cancel_requested"}
                              /\ ~(job[j].attempt > MaxRetries)
RetryAccepts_OffByOne(j) == /\ job[j].state \in Retryable
                            /\ ~(job[j].attempt > MaxRetries + 1)

\* What retry requires of the copy of the row it was given.
RetryAccepts(j) == /\ job[j].state \in Retryable
                   /\ ~(job[j].attempt > MaxRetries)

\* retry_job loads the row and retry accepts it; a refused retry answers 409.
RetryLoad(c, j) ==
    /\ retrying[c] = NoJob
    /\ RetryAccepts(j)
    /\ retrying' = [retrying EXCEPT ![c] = j]
    /\ copy' = [copy EXCEPT ![c] = job[j]]
    /\ UNCHANGED <<job, clock, overwritten, procVars>>

\* Faulty variant: completed_at survives the retry.
RetriedRow_KeepsCompletion(j, seen) ==
    IF job[j].state = "deleted" THEN job[j]
    ELSE [job[j] EXCEPT !.state = "queued", !.error = IF seen.error THEN FALSE ELSE @]

\* The row after the flush of retry's assignments: UPDATE ... WHERE id, with no
\* condition on the state, writes the columns that differ from the loaded copy,
\* so error_info only if that copy had one.  A row that is gone makes it raise.
RetriedRow(j, seen) ==
    IF job[j].state = "deleted" THEN job[j]
    ELSE [job[j] EXCEPT !.state = "queued",
                        !.completed = IF seen.completed THEN FALSE ELSE @,
                        !.error = IF seen.error THEN FALSE ELSE @]

RetryCommit(c) ==
    /\ retrying[c] # NoJob
    /\ LET j == retrying[c]
           r == RetriedRow(j, copy[c])
       IN  /\ job' = [job EXCEPT ![j] = r]
           /\ overwritten' = [overwritten EXCEPT ![j] = @ \/ job[j] \notin {copy[c], r}]
    /\ retrying' = [retrying EXCEPT ![c] = NoJob]
    /\ copy' = [copy EXCEPT ![c] = NewJob]
    /\ UNCHANGED <<clock, procVars>>

\* delete_project: the foreign key cascades to the jobs; jobs of the project
\* that were not submitted yet can no longer be.
DeleteProject(q) ==
    /\ \E j \in Jobs : ProjectOf[j] = q /\ job[j].state \notin {"absent", "deleted"}
    /\ job' = [j \in Jobs |-> IF ProjectOf[j] = q THEN [job[j] EXCEPT !.state = "deleted"]
                                                  ELSE job[j]]
    /\ UNCHANGED <<clock, reqVars, procVars>>

Request == \/ \E j \in Jobs : Submit(j) \/ RequestCancellation(j)
           \/ \E c \in Clients : RetryCommit(c) \/ \E j \in Jobs : RetryLoad(c, j)
           \/ \E q \in Projects : DeleteProject(q)

-----------------------------------------------------------------------------
(* Worker processes: loop, process_next, _process_claimed_job *)

Goto(p, label) == pc' = [pc EXCEPT ![p] = label]

\* register_worker: the UPDATE rotates an existing row to this generation.
Boot(p) ==
    /\ pc[p] = "off"
    /\ LET w == WorkerOf[p] IN
       \/ /\ row[w] # NoProc
          /\ row' = [row EXCEPT ![w] = p]
          /\ Goto(p, "verifying")
       \/ /\ row[w] = NoProc
          /\ Goto(p, "inserting")
          /\ UNCHANGED row
    /\ UNCHANGED <<job, clock, reqVars, running, stopped, lost>>

\* The INSERT after an UPDATE that found no row; the session's identity map
\* then answers the ownership check with the object just added.  When another
\* process inserted first, IntegrityError turns it into a rotation.
InsertRow(p) ==
    /\ pc[p] = "inserting"
    /\ row' = [row EXCEPT ![WorkerOf[p]] = p]
    /\ Goto(p, IF row[WorkerOf[p]] = NoProc THEN "top" ELSE "verifying")
    /\ UNCHANGED <<job, clock, reqVars, running, stopped, lost>>

\* The re-read after a rotation: RuntimeError if yet another process owns the row.
VerifyRow(p) ==
    /\ pc[p] = "verifying"
    /\ Goto(p, IF row[WorkerOf[p]] = p THEN "top" ELSE "exited")
    /\ UNCHANGED <<job, clock, reqVars, row, running, stopped, lost>>

\* The heartbeat thread's guarded UPDATE matches no row any more.
LoseGeneration(p) ==
    /\ pc[p] \in Looping
    /\ ~lost[p]
    /\ row[WorkerOf[p]] # p
    /\ lost' = [lost EXCEPT ![p] = TRUE]
    /\ UNCHANGED <<job, clock, reqVars, row, pc, running, stopped>>

\* SIGTERM or SIGINT: the handler only sets the flag.
Signal(p) ==
    /\ pc[p] \in Live
    /\ ~stopped[p]
    /\ stopped' = [stopped EXCEPT ![p] = TRUE]
    /\ UNCHANGED <<job, clock, reqVars, row, pc, running, lost>>

\* Faulty variant: a superseded process keeps looping.
LoopTop_IgnoresLoss(p) ==
    /\ pc[p] = "top"
    /\ Goto(p, IF stopped[p] THEN "exited" ELSE "claiming")
    /\ UNCHANGED <<job, clock, reqVars, row, running, stopped, lost>>

\* while not stopped: a lost generation raises, otherwise process_next starts.
LoopTop(p) ==
    /\ pc[p] = "top"
    /\ Goto(p, IF stopped[p] \/ lost[p] THEN "exited" ELSE "claiming")
    /\ UNCHANGED <<job, clock, reqVars, row, running, stopped, lost>>

\* Jobs the claim's subquery may return: queued, oldest first.  Every job is
\* enqueued with the default priority and for the cpu queue all workers here
\* serve.
Candidates == {j \in Jobs : /\ job[j].state = "queued"
                            /\ \A i \in Jobs : job[i].state = "queued"
                                                => job[j].created <= job[i].created}

ClaimedRow(j) == [job[j] EXCEPT !.state = "running", !.attempt = @ + 1, !.completed = FALSE]

\* claim_next: one UPDATE, guarded by the ownership of the workers row.
ClaimNext(p) ==
    /\ pc[p] = "claiming"
    /\ row[WorkerOf[p]] = p
    /\ \E j \in Candidates : /\ job' = [job EXCEPT ![j] = ClaimedRow(j)]
                             /\ running' = [running EXCEPT ![p] = j]
    /\ Goto(p, "working")
    /\ UNCHANGED <<clock, reqVars, row, stopped, lost>>

ClaimNothing(p) ==
    /\ pc[p] = "claiming"
    /\ row[WorkerOf[p]] # p \/ Candidates = {}
    /\ Goto(p, "top")
    /\ UNCHANGED <<job, clock, reqVars, row, running, stopped, lost>>

\* cancellation_requested answered TRUE and the pipeline raised PipelineCancelled.
NoticeCancel(p) ==
    /\ pc[p] = "working"
    /\ stopped[p] \/ job[running[p]].state = "cancel_requested"
    /\ Goto(p, "cancelling")
    /\ UNCHANGED <<job, clock, reqVars, row, running, stopped, lost>>

\* The pipeline returns an output asset, or anything on the way raises.
PipelineEnds(p) ==
    /\ pc[p] = "working"
    /\ Goto(p, "completing") \/ Goto(p, "failing")
    /\ UNCHANGED <<job, clock, reqVars, row, running, stopped, lost>>

\* process_next returns to the loop.
Release(p) == /\ Goto(p, "top")
              /\ running' = [running EXCEPT ![p] = NoJob]

\* A finaliser that finds no row raises out of the except block: the process ends.
Die(p) == /\ Goto(p, "exited")
          /\ running' = [running EXCEPT ![p] = NoJob]

SucceededRow(j) == [job[j] EXCEPT !.state = "succeeded", !.completed = TRUE, !.outputs = TRUE]
FailedRow(j)    == [job[j] EXCEPT !.state = "failed", !.completed = TRUE, !.error = TRUE]

\* Faulty variant: completion overwrites a requested cancellation.
MarkSucceeded_OverCancel(p) ==
    /\ pc[p] = "completing"
    /\ LET j == running[p] IN
       \/ /\ job[j].state \in Active
          /\ job' = [job EXCEPT ![j] = SucceededRow(j)]
          /\ Release(p)
       \/ /\ job[j].state \notin Active
          /\ Goto(p, "failing")
          /\ UNCHANGED <<job, running>>
    /\ UNCHANGED <<clock, reqVars, row, stopped, lost>>

\* mark_succeeded and what _process_claimed_job makes of its answer: a row that
\* another executor of the job completed counts as this one's success.
MarkSucceeded(p) ==
    /\ pc[p] = "completing"
    /\ LET j == running[p] IN
       \/ /\ job[j].state = "running"
          /\ job' = [job EXCEPT ![j] = SucceededRow(j)]
          /\ Release(p)
       \/ /\ job[j].state = "succeeded"
          /\ Release(p)
          /\ UNCHANGED job
       \/ /\ job[j].state \notin {"running", "succeeded"}
          /\ Goto(p, IF job[j].state = "cancel_requested" THEN "cancelling" ELSE "failing")
          /\ UNCHANGED <<job, running>>
    /\ UNCHANGED <<clock, reqVars, row, stopped, lost>>

\* mark_cancelled: another terminal state wins, a missing row raises.
MarkCancelled(p) ==
    /\ pc[p] = "cancelling"
    /\ LET j == running[p] IN
       \/ /\ job[j].state \in Active
          /\ job' = [job EXCEPT ![j] = CancelledRow(j)]
          /\ Release(p)
       \/ /\ job[j].state \notin Active
          /\ IF job[j].state = "deleted" THEN Die(p) ELSE Release(p)
          /\ UNCHANGED job
    /\ UNCHANGED <<clock, reqVars, row, stopped, lost>>

\* Faulty variant: a failure after a cancellation request leaves the row as it is.
MarkFailed_DropsCancel(p) ==
    /\ pc[p] = "failing"
    /\ LET j == running[p] IN
       \/ /\ job[j].state = "running"
          /\ job' = [job EXCEPT ![j] = FailedRow(j)]
          /\ Release(p)
       \/ /\ job[j].state # "running"
          /\ Release(p)
          /\ UNCHANGED job
    /\ UNCHANGED <<clock, reqVars, row, stopped, lost>>

\* mark_failed; a cancellation that came first is finalised by mark_cancelled.
MarkFailed(p) ==
    /\ pc[p] = "failing"
    /\ LET j == running[p] IN
       \/ /\ job[j].state = "running"
          /\ job' = [job EXCEPT ![j] = FailedRow(j)]
          /\ Release(p)
       \/ /\ job[j].state = "cancel_requested"
          /\ Goto(p, "cancelling")
          /\ UNCHANGED <<job, running>>
       \/ /\ job[j].state \notin Active
          /\ IF job[j].state = "deleted" THEN Die(p) ELSE Release(p)
          /\ UNCHANGED job
    /\ UNCHANGED <<clock, reqVars, row, stopped, lost>>

\* SIGKILL, power loss, out of memory: the process is gone, its rows stay.
Crash(p) ==
    /\ pc[p] \in Live
    /\ Goto(p, "crashed")
    /\ UNCHANGED <<job, clock, reqVars, row, running, stopped, lost>>

\* The steps a process takes by itself.
Advance(p) == \/ InsertRow(p) \/ VerifyRow(p) \/ LoopTop(p)
              \/ ClaimNext(p) \/ ClaimNothing(p)
              \/ NoticeCancel(p) \/ PipelineEnds(p)
              \/ MarkSucceeded(p) \/ MarkCancelled(p) \/ MarkFailed(p)

Process(p) == Boot(p) \/ LoseGeneration(p) \/ Signal(p) \/ Crash(p) \/ Advance(p)

Next == Request \/ \E p \in Procs : Process(p)

Spec == Init /\ [][Next]_vars

\* A running process keeps executing, its heartbeat thread keeps beating and its
\* pipeline returns or raises; nothing makes a user act or a process start.
Fairness == \A p \in Procs : WF_vars(Advance(p)) /\ WF_vars(LoseGeneration(p))

FairSpec == Spec /\ Fairness

\* The same with an operator who keeps trying to cancel and to retry every job.
OperatorSpec ==
    /\ FairSpec
    /\ \A j \in Jobs : WF_vars(RequestCancellation(j))
    /\ \A c \in Clients : WF_vars(RetryCommit(c)) /\ WF_vars(\E j \in Jobs : RetryLoad(c, j))

-----------------------------------------------------------------------------
(* Properties *)

TypeOK ==
    /\ job \in [Jobs -> JobRecord]
    /\ clock \in Nat
    /\ retrying \in [Clients -> Jobs \cup {NoJob}]
    /\ copy \in [Clients -> JobRecord]
    /\ overwritten \in [Jobs -> BOOLEAN]
    /\ row \in [Workers -> Procs \cup {NoProc}]
    /\ pc \in [Procs -> PCs]
    /\ running \in [Procs -> Jobs \cup {NoJob}]
    /\ stopped \in [Procs -> BOOLEAN]
    /\ lost \in [Procs -> BOOLEAN]

\* No job is executed by two live processes at the same time (the claim's
\* conditional UPDATE and the refusal to retry an active job together), unless a
\* retry wrote over a row that had moved on since it was loaded.
ExclusiveExecution ==
    \A p, q \in Procs : /\ p # q
                        /\ pc[p] \in Executing
                        /\ pc[q] \in Executing
                        /\ running[p] = running[q]
                        => overwritten[running[p]]

\* A job shown as running or cancel_requested has a process that claimed it and
\* has not let go: alive, or crashed.  No path through the finalisers drops an
\* active job, so only a crash can leave one behind.
ActiveJobHeld ==
    \A j \in Jobs : job[j].state \in Active =>
        \E p \in Procs : running[p] = j /\ pc[p] \in Executing \cup {"crashed"}

Waiting == {"absent", "queued"}

\* The retry bound: each of the requests that retry a job at once can pass the
\* check on the counter before the others count, so a job is attempted at most
\* MaxRetries + Cardinality(Clients) times, and a waiting job can still be
\* claimed within that; without an outdated retry, at most MaxRetries + 1 times.
AttemptsBounded ==
    \A j \in Jobs :
        /\ job[j].attempt <= MaxRetries + Cardinality(Clients)
        /\ job[j].state \in Waiting => job[j].attempt < MaxRetries + Cardinality(Clients)
        /\ ~overwritten[j] => /\ job[j].attempt <= MaxRetries + 1
                              /\ job[j].state \in Waiting => job[j].attempt <= MaxRetries

\* What an outdated retry cannot break, and what it can.
RowShowsOutcome(r) ==
    r.state # "deleted" => /\ r.completed <=> r.state \in Terminal
                           /\ r.state = "succeeded" => r.outputs
                           /\ r.state = "failed" => r.error

RowOfOneAttempt(r) ==
    r.state # "deleted" => /\ r.outputs => r.state = "succeeded"
                           /\ r.error => r.state = "failed"

\* What a client reads of a job: completed_at exactly in the terminal states,
\* outputs after success and error_info after failure, although retries and
\* claims reset the columns piecemeal; and nothing is left of an earlier
\* attempt, unless a retry decided on a copy of an earlier attempt.
RecordMatchesState ==
    \A j \in Jobs : /\ RowShowsOutcome(job[j])
                    /\ ~overwritten[j] => RowOfOneAttempt(job[j])

\* A job that succeeded stays succeeded until its project is deleted
\* (docs/current-status.md:89: a stale API session cannot overwrite it).
SuccessIsFinal ==
    [][\A j \in Jobs : job[j].state = "succeeded" => job'[j].state \in {"succeeded", "deleted"}]_vars

\* The inductive strengthening of the invariants above.

\* A process remembers a job exactly while it executes it; a crash freezes that.
HolderExecutes ==
    \A p \in Procs : /\ pc[p] \in Executing => running[p] \in Jobs
                     /\ running[p] \in Jobs => pc[p] \in Executing \cup {"crashed"}

\* Whoever claimed a job that no outdated retry touched, alive or crashed, is
\* the only one, and keeps it active.
HolderUnique ==
    \A p, q \in Procs : /\ p # q
                        /\ running[p] \in Jobs
                        /\ running[p] = running[q]
                        => overwritten[running[p]]

HeldIsActive ==
    \A p \in Procs : running[p] \in Jobs /\ ~overwritten[running[p]] =>
        job[running[p]].state \in Active \cup {"deleted"}

\* A pending retry holds the copy of a settled attempt below the bound.
CopyAccepted ==
    \A c \in Clients : retrying[c] \in Jobs => /\ job[retrying[c]].state # "absent"
                                               /\ copy[c].state \in Retryable
                                               /\ copy[c].attempt <= MaxRetries
                                               /\ copy[c].completed

\* The attempts of a job that are counted, about to be, or permitted by a copy.
Pending(j) == {c \in Clients : retrying[c] = j}

Reserved(j) == job[j].attempt + (IF job[j].state \in Waiting THEN 1 ELSE 0)
                 + Cardinality(Pending(j))

AttemptsReserved == \A j \in Jobs : Reserved(j) <= MaxRetries + Cardinality(Clients)

Consistent == /\ HolderExecutes /\ HolderUnique /\ HeldIsActive /\ ActiveJobHeld
              /\ CopyAccepted /\ AttemptsReserved /\ AttemptsBounded /\ RecordMatchesState

\* The job rows behave as the abstract life cycle.
Lifecycle == INSTANCE JobLifecycle WITH
                 state <- [j \in Jobs |-> job[j].state],
                 attempt <- [j \in Jobs |-> job[j].attempt]

ImplementsLifecycle == Lifecycle!Spec

Orphaned(j) == /\ job[j].state \in Active
               /\ \E p \in Procs : running[p] = j /\ pc[p] = "crashed"

\* Every attempt comes to an end, unless its process crashed: whatever mixture of
\* cancellation, shutdown, pipeline failure and deletion it meets.
AttemptsSettle ==
    \A j \in Jobs : job[j].state \in Active ~> (job[j].state \notin Active \/ Orphaned(j))

\* A queued job is eventually taken off the queue unless no worker is left.
QueueServed ==
    \A j \in Jobs : job[j].state = "queued"
        ~> (job[j].state # "queued" \/ \A p \in Procs : pc[p] \notin Live)

\* A job whose worker crashed can be cancelled and retried by the operator
\* (docs/troubleshooting.md:22).
OrphanRecoverable ==
    \A j \in Jobs : Orphaned(j) ~> job[j].state \notin Active
=============================================================================
