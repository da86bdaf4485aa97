-------------------------- MODULE WorkerExecution --------------------------
(***************************************************************************)
(* What a worker process does with the device it serves: process_next      *)
(* takes the lock of the device, probes its memory, claims a job, executes *)
(* its provider operation along the captured fallback chain and assembles  *)
(* the result.  Two processes serve one device when a worker is started    *)
(* while its predecessor still runs.  Provider operation and assembly are  *)
(* media calls (MediaCalls); a process may also be a tool that makes one   *)
(* call of its own, as the finalization utilities are used.                *)
(*                                                                         *)
(* The handlers of the repository queue every job for "cpu" and its        *)
(* pipelines run the mock providers; the lock, the admission and the       *)
(* fallback are written for the queue of a GPU and for a provider that     *)
(* recovers from a lack of memory, as those of providers/cli do, and are   *)
(* modelled with them.                                                     *)
(*                                                                         *)
(* Of the queue the life of the job records is kept (JobLifecycle), of the *)
(* registration nothing (WorkerHeartbeat); the rest of a render is in      *)
(* RenderPipeline.  cancel_requested is true once the job is asked to      *)
(* cancel or the process to stop.                                          *)
(***************************************************************************)
EXTENDS MediaCalls, RenderProfiles

CONSTANTS Procs,           \* the callers of MediaCalls
          Jobs,            \* rows of the device's queue
          Configurations,  \* contents the render profile file may have when it is read
          NumProfiles,     \* no configuration has more profiles
          Requested,       \* resolution_profile of the project
          Device,          \* the physical GPU this worker serves
          Probes,          \* what nvidia-smi may report: free memory of some devices
          MinimumFree,     \* Settings.min_free_vram_mb
          Providers,       \* Providers[p]: "provider" (CLI) or "video" (mock), as p is configured
          Assignments,     \* which processes are workers, which are tools
          Uses,            \* Uses[p]: the calls p may make as a tool
          MaxRetries,      \* Settings.max_job_retries
          NoProc, NoJob, NoSnapshot

\* The probe failed.
NoProbe == <<>>

ASSUME WorkerAssumption ==
    /\ Procs = Callers
    /\ NoProc \notin Procs
    /\ NoJob \notin Jobs
    /\ NoProbe \in Probes
    /\ Providers \in [Procs -> {"provider", "video"}]
    /\ Uses \in [Procs -> SUBSET Kinds]
    /\ MaxRetries \in Nat
    /\ NumProfiles \in Nat
    /\ \A profiles \in Configurations : Configuration(profiles, NumProfiles)

VARIABLES role,           \* role[p]: "worker" or "tool"
          pc,             \* pc[p]: where the process stands
          lock,           \* who holds the flock of the device
          stopped,        \* stopped[p]: a signal asked the process to stop
          job, attempt,   \* the jobs rows: state and attempt_number
          payload,        \* payload[j]: the execution snapshot in the jobs row
          holding,        \* holding[p]: the job it claimed
          probed,         \* probed[p]: the last probe under the present lock
          current         \* current[p]: the execution in the memory of the process

rowVars    == <<job, attempt, payload>>
memoryVars == <<holding, probed, current>>
vars       == <<role, pc, lock, stopped, rowVars, memoryVars, callVars>>

\* No two requests retry a job at once here.
Life == INSTANCE JobLifecycle WITH state <- job, overwritten <- [j \in Jobs |-> FALSE]

Init ==
    /\ CallsInit
    /\ Life!Init
    /\ role \in Assignments
    /\ pc = [p \in Procs |-> IF role[p] = "worker" THEN "booting" ELSE "tool"]
    /\ lock = NoProc
    /\ stopped = [p \in Procs |-> FALSE]
    /\ payload = [j \in Jobs |-> NoSnapshot]
    /\ holding = [p \in Procs |-> NoJob]
    /\ probed = [p \in Procs |-> NoProbe]
    /\ current = [p \in Procs |-> NoSnapshot]

Loadable == {profiles \in Configurations : ValidGraph(profiles, NumProfiles)}

\* The snapshots that may be taken: the file is edited at will.
NewSnapshots == {Resolve(profiles, Requested, NumProfiles) :
                    profiles \in {f \in Loadable : Requested \in DOMAIN f}}

Gone(p)        == pc[p] = "exited"
Move(p, label) == pc' = [pc EXCEPT ![p] = label]
KeepCall       == UNCHANGED callVars

\* The process is gone, and its flag with it.
Exit(p) == Move(p, "exited") /\ stopped' = [stopped EXCEPT ![p] = FALSE]

\* What the process knew is gone and the lock released.
Forget(p) ==
    /\ lock' = NoProc
    /\ holding' = [holding EXCEPT ![p] = NoJob]
    /\ probed' = [probed EXCEPT ![p] = NoProbe]
    /\ current' = [current EXCEPT ![p] = NoSnapshot]
    /\ Dismiss(p)

-----------------------------------------------------------------------------
(* HTTP requests and signals *)

\* The snapshot is taken when the job is queued; a job that was inserted without
\* one gets it from the worker.  Jobs are queued where workers serve them.
Submit(j) ==
    /\ \E p \in Procs : role[p] = "worker"
    /\ \E snapshot \in NewSnapshots \cup {NoSnapshot} : payload' = [payload EXCEPT ![j] = snapshot]
    /\ Life!Submit(j)
    /\ UNCHANGED <<role, pc, lock, stopped, memoryVars>> /\ KeepCall

Holder(j) == {p \in Procs : holding[p] = j /\ ~Gone(p)}

RequestCancellation(j) ==
    /\ Life!CancelQueued(j) \/ Life!RequestCancel(j)
    /\ IF Holder(j) = {} THEN UNCHANGED asked ELSE \E p \in Holder(j) : Ask(p)
    /\ UNCHANGED <<role, pc, lock, stopped, payload, memoryVars,
                   kind, command, step, child, files, outcome, output, raced>>

\* retry leaves the payload alone.
RetryJob(j) ==
    /\ Life!Retry(j)
    /\ UNCHANGED <<role, pc, lock, stopped, payload, memoryVars>> /\ KeepCall

\* SIGTERM sets a flag.
Stop(p) ==
    /\ role[p] = "worker"
    /\ pc[p] # "booting"
    /\ ~Gone(p)
    /\ ~stopped[p]
    /\ stopped' = [stopped EXCEPT ![p] = TRUE]
    /\ IF holding[p] # NoJob THEN Ask(p) ELSE UNCHANGED asked
    /\ UNCHANGED <<role, pc, lock, rowVars, memoryVars,
                   kind, command, step, child, files, outcome, output, raced>>

\* The operating system releases the lock; what becomes of the child is not followed.
Crash(p) ==
    /\ role[p] = "worker"
    /\ holding[p] # NoJob
    /\ ~Gone(p)
    /\ Exit(p)
    /\ Forget(p)
    /\ child' = [child EXCEPT ![p] = "none"]
    /\ captions' = [captions EXCEPT ![p] = FALSE]
    /\ UNCHANGED <<role, rowVars>>

-----------------------------------------------------------------------------
(* process_next *)

\* The profiles are read once; an invalid file ends the process.
Load(p) ==
    /\ pc[p] = "booting"
    /\ \E profiles \in Configurations : Move(p, IF profiles \in Loadable THEN "top" ELSE "exited")
    /\ UNCHANGED <<role, lock, stopped, rowVars, memoryVars>> /\ KeepCall

\* The head of the loop.
Poll(p) ==
    /\ pc[p] = "top"
    /\ IF stopped[p] THEN Exit(p) ELSE Move(p, "locking") /\ UNCHANGED stopped
    /\ UNCHANGED <<role, lock, rowVars, memoryVars>> /\ KeepCall

\* Faulty variant: a lock that does not wait.
AcquireLock_Anyway(p) ==
    /\ pc[p] = "locking"
    /\ lock' = p
    /\ Move(p, "admitting")
    /\ UNCHANGED <<role, stopped, rowVars, memoryVars>> /\ KeepCall

\* flock blocks, whether or not the process was asked to stop meanwhile.
AcquireLock(p) ==
    /\ pc[p] = "locking"
    /\ lock = NoProc
    /\ lock' = p
    /\ Move(p, "admitting")
    /\ UNCHANGED <<role, stopped, rowVars, memoryVars>> /\ KeepCall

\* process_next returns.
Return(p) ==
    /\ Forget(p)
    /\ Move(p, "top")
    /\ UNCHANGED <<child, captions>>

Queued == {j \in Jobs : job[j] = "queued"}

\* evaluate_vram_admission
Admits(probe) == Device \in DOMAIN probe /\ probe[Device] >= MinimumFree

\* has_queued, probe_gpus and the decision.
Admit(p) ==
    /\ pc[p] = "admitting"
    /\ \/ /\ Queued = {}
          /\ Return(p)
       \/ /\ Queued # {}
          /\ \E probe \in Probes :
                IF Admits(probe)
                THEN /\ probed' = [probed EXCEPT ![p] = probe]
                     /\ Move(p, "claiming")
                     /\ UNCHANGED <<lock, holding, current>> /\ KeepCall
                ELSE Return(p)
    /\ UNCHANGED <<role, stopped, rowVars>>

\* claim_next, which may find that the job was cancelled meanwhile.
Claim(p) ==
    /\ pc[p] = "claiming"
    /\ \/ /\ Queued = {}
          /\ Return(p)
          /\ UNCHANGED <<job, attempt>>
       \/ \E j \in Jobs :
             /\ Life!Start(j)
             /\ holding' = [holding EXCEPT ![p] = j]
             /\ asked' = [asked EXCEPT ![p] = IF stopped[p] THEN "early" ELSE "no"]
             /\ Move(p, "resolving")
             /\ UNCHANGED <<lock, probed, current,
                            kind, command, step, child, files, outcome, output, raced>>
    /\ UNCHANGED <<role, stopped, payload>>

\* Faulty variant: every attempt resolves the profile again.
Snapshots_Again(j) == NewSnapshots

\* The snapshot of the job, or one taken from the configuration the process
\* loaded at its start.
Snapshots(j) == IF payload[j] # NoSnapshot THEN {payload[j]} ELSE NewSnapshots

\* _resolve_render_profile_execution, which commits a new snapshot.
ResolveProfile(p) ==
    /\ pc[p] = "resolving"
    /\ \E snapshot \in Snapshots(holding[p]) :
          /\ current' = [current EXCEPT ![p] = snapshot]
          /\ payload' = [payload EXCEPT ![holding[p]] = snapshot]
    /\ Move(p, "operation")
    /\ UNCHANGED <<role, lock, stopped, job, attempt, holding, probed>>
    /\ KeepCall

-----------------------------------------------------------------------------
(* execute_with_oom_fallback *)

\* check_cancelled, before the step the process stands at.
Checked(p) == ~Cancelled(p)

\* The operation is called with the current profile.
Operate(p) ==
    /\ pc[p] = "operation"
    /\ Checked(p)
    /\ Begin(p, Providers[p])
    /\ Move(p, "operating")
    /\ UNCHANGED <<role, lock, stopped, rowVars, memoryVars>>

\* How the operation ended decides what comes next.
AfterOperation == [ok |-> "assembly", oom |-> "oom", cancelled |-> "cancelling",
                   failed |-> "failing"]

OperationEnds(p) ==
    /\ pc[p] = "operating"
    /\ At(p, "returned")
    /\ Move(p, AfterOperation[outcome[p]])
    /\ UNCHANGED <<role, lock, stopped, rowVars, memoryVars>> /\ KeepCall

\* cleanup_after_oom unlinks the partial file of the failed operation.
CleanUpMemory(p) ==
    /\ pc[p] = "oom"
    /\ Checked(p)
    /\ partial' = [partial EXCEPT ![p] = "absent"]
    /\ Move(p, "cleaned")
    /\ UNCHANGED <<role, lock, stopped, rowVars, memoryVars,
                   kind, command, step, child, captions, asked, outcome, output, raced>>

\* Faulty variant: the fallback is not persisted.
FallBack_Unsaved(p) ==
    /\ pc[p] = "cleaned"
    /\ Checked(p)
    /\ HasFallback(current[p])
    /\ current' = [current EXCEPT ![p] = Advance(@, attempt[holding[p]])]
    /\ Move(p, "operation")
    /\ UNCHANGED <<role, lock, stopped, rowVars, holding, probed>> /\ KeepCall

\* Faulty variant: the fallback is committed, and the operation retried as it was.
FallBack_SameProfile(p) ==
    /\ pc[p] = "cleaned"
    /\ Checked(p)
    /\ HasFallback(current[p])
    /\ payload' = [payload EXCEPT ![holding[p]] = Advance(current[p], attempt[holding[p]])]
    /\ Move(p, "operation")
    /\ UNCHANGED <<role, lock, stopped, job, attempt, memoryVars>> /\ KeepCall

\* The next profile of the chain, committed to the payload before the retry.
FallBack(p) ==
    /\ pc[p] = "cleaned"
    /\ Checked(p)
    /\ HasFallback(current[p])
    /\ LET advanced == Advance(current[p], attempt[holding[p]]) IN
       /\ current' = [current EXCEPT ![p] = advanced]
       /\ payload' = [payload EXCEPT ![holding[p]] = advanced]
    /\ Move(p, "operation")
    /\ UNCHANGED <<role, lock, stopped, job, attempt, holding, probed>> /\ KeepCall

\* A check of the worker finds the cancellation.
NoticeCancellation(p) ==
    /\ pc[p] \in {"operation", "oom", "cleaned", "assembly"}
    /\ Cancelled(p)
    /\ Move(p, "cancelling")
    /\ UNCHANGED <<role, lock, stopped, rowVars, memoryVars>> /\ KeepCall

\* The database, the cleanup or the end of the chain raises.
Fail(p) ==
    /\ pc[p] \in {"resolving", "operation", "oom", "cleaned", "assembly", "completing"}
    /\ Move(p, "failing")
    /\ UNCHANGED <<role, lock, stopped, rowVars, memoryVars>> /\ KeepCall

-----------------------------------------------------------------------------
(* The end of the job *)

Assemble(p) ==
    /\ pc[p] = "assembly"
    /\ Checked(p)
    /\ Begin(p, "assembly")
    /\ Move(p, "assembling")
    /\ UNCHANGED <<role, lock, stopped, rowVars, memoryVars>>

AfterAssembly == [ok |-> "completing", cancelled |-> "cancelling", failed |-> "failing"]

AssemblyEnds(p) ==
    /\ pc[p] = "assembling"
    /\ At(p, "returned")
    /\ Move(p, AfterAssembly[outcome[p]])
    /\ UNCHANGED <<role, lock, stopped, rowVars, memoryVars>> /\ KeepCall

\* mark_succeeded, mark_cancelled or mark_failed; a requested cancellation wins.
Finish(p) ==
    /\ LET j == holding[p] IN
       \/ pc[p] = "completing" /\ IF job[j] = "running" THEN Life!Succeed(j) ELSE Life!Cancel(j)
       \/ pc[p] = "cancelling" /\ Life!Cancel(j)
       \/ pc[p] = "failing" /\ IF job[j] = "running" THEN Life!Fail(j) ELSE Life!Cancel(j)
    /\ Return(p)
    /\ UNCHANGED <<role, stopped, payload>>

-----------------------------------------------------------------------------
(* A tool makes one call and may lose interest in it. *)

UseTool(p) ==
    /\ pc[p] = "tool"
    /\ At(p, "idle")
    /\ \E k \in Uses[p] : Begin(p, k)
    /\ UNCHANGED <<role, pc, lock, stopped, rowVars, memoryVars>>

CancelTool(p) ==
    /\ pc[p] = "tool"
    /\ ~At(p, "idle")
    /\ ~Cancelled(p)
    /\ Ask(p)
    /\ UNCHANGED <<role, pc, lock, stopped, rowVars, memoryVars,
                   kind, command, step, child, files, outcome, output, raced>>

Call(p) ==
    /\ CallStep(p)
    /\ UNCHANGED <<role, pc, lock, stopped, rowVars, memoryVars>>

-----------------------------------------------------------------------------

Request == \/ \E j \in Jobs : Submit(j) \/ RequestCancellation(j) \/ RetryJob(j)
           \/ \E p \in Procs : Stop(p) \/ CancelTool(p)

Work(p) == \/ Load(p) \/ Poll(p) \/ Admit(p) \/ Claim(p) \/ ResolveProfile(p)
           \/ Operate(p) \/ OperationEnds(p) \/ CleanUpMemory(p) \/ FallBack(p)
           \/ NoticeCancellation(p) \/ Fail(p) \/ Assemble(p) \/ AssemblyEnds(p) \/ Finish(p)

Next == \/ Request
        \/ \E p \in Procs : Work(p) \/ AcquireLock(p) \/ Crash(p) \/ UseTool(p) \/ Call(p)

Spec == Init /\ [][Next]_vars

\* What a live process does by itself, SIGKILL of its child included.  A child need
\* not end otherwise, or at SIGTERM.
Proceed(p) == \/ Work(p)
              \/ /\ Progress(p) \/ GiveUp(p) \/ Kill(p) \/ (At(p, "killing") /\ ChildFails(p))
                 /\ UNCHANGED <<role, pc, lock, stopped, rowVars, memoryVars>>

\* Processes are scheduled, timeouts elapse, and a blocked flock is granted in turn.
Fairness == \A p \in Procs : WF_vars(Proceed(p)) /\ SF_vars(AcquireLock(p))
FairSpec == Spec /\ Fairness

-----------------------------------------------------------------------------
(* Properties *)

PCs == {"tool", "booting", "top", "locking", "admitting", "claiming", "resolving", "operation",
        "operating", "oom", "cleaned", "assembly", "assembling", "completing", "cancelling",
        "failing", "exited"}
JobStates == Life!Settled \cup {"absent", "queued", "running", "cancel_requested"}

\* Types of the variables (columns, locals of process_next, files).
TypeOK ==
    /\ CallTypeOK
    /\ role \in Assignments
    /\ pc \in [Procs -> PCs]
    /\ lock \in Procs \cup {NoProc}
    /\ stopped \in [Procs -> BOOLEAN]
    /\ job \in [Jobs -> JobStates]
    /\ attempt \in [Jobs -> 0 .. MaxRetries + 1]
    /\ holding \in [Procs -> Jobs \cup {NoJob}]
    /\ probed \in [Procs -> Probes]

\* A live worker has a claimed job, or a child process, only while it holds the
\* lock of the device and after a probe under this lock found enough free
\* memory on this very device (docs/adr/0006; waiting jobs are not running).
DeviceOwned ==
    \A p \in Procs : role[p] = "worker" /\ ~Gone(p) /\ (holding[p] # NoJob \/ child[p] # "none") =>
        /\ lock = p
        /\ Device \in DOMAIN probed[p]
        /\ probed[p][Device] >= MinimumFree

\* The snapshot of a job can be loaded again by the next attempt, whatever was
\* interrupted, and its records tell the attempts in their order.
SnapshotsLoadable ==
    \A j \in Jobs : payload[j] # NoSnapshot =>
        /\ ValidSnapshot(payload[j])
        /\ \A i, k \in 1 .. Len(payload[j].history) :
              /\ payload[j].history[i].attempt <= attempt[j]
              /\ i <= k => payload[j].history[i].attempt <= payload[j].history[k].attempt

\* A process executes at the profile the database records for its job.
ExecutedAsRecorded ==
    \A p \in Procs : pc[p] \in {"operating", "oom", "cleaned", "assembling"} =>
        current[p] = payload[holding[p]]

\* The chain captured with a job never changes, and its effective profile never
\* becomes more demanding in any figure, across attempts, restarts and edits of
\* the configuration (docs/adr/0007).
NeverMoreDemanding ==
    [][\A j \in Jobs : payload[j] # NoSnapshot =>
          /\ payload'[j].chain = payload[j].chain
          /\ AtMostAsDemanding(Effective(payload'[j]).profile, Effective(payload[j]).profile)]_vars

\* Moves a process that executes a job may still make, counting eight for every
\* profile that is left to fall back to.
MovesLeft == [operation |-> 7, operating |-> 6, oom |-> 5, cleaned |-> 4, assembly |-> 3,
              assembling |-> 2, completing |-> 1, cancelling |-> 0, failing |-> 0]
WorkLeft(p) == 8 * (Len(current[p].chain) - current[p].effective) + MovesLeft[pc[p]]

\* An execution cannot go on for ever: every move brings the process nearer to the
\* end of its job, so it tries no profile twice, whatever it runs out of or is
\* told meanwhile (the loop of execute_with_oom_fallback has no other bound); and
\* where the process waits, every step brings its call nearer to its own end.
ExecutionEnds ==
    [][\A p \in Procs : pc[p] \in DOMAIN MovesLeft =>
           /\ pc'[p] # pc[p] /\ pc'[p] \in DOMAIN MovesLeft => WorkLeft(p)' < WorkLeft(p)
           /\ pc'[p] = pc[p] /\ Stage(p)' # Stage(p) => CallLeft(p)' < CallLeft(p)]_vars

\* A worker that was asked to stop ends, even if it waits for the lock, its
\* child hangs and ignores SIGTERM, or it is in the middle of a fallback; the
\* call of a tool ends as well.
ProcessesEnd ==
    \A p \in Procs : (stopped[p] \/ (pc[p] = "tool" /\ At(p, "starting")))
                     ~> (Gone(p) \/ (pc[p] = "tool" /\ At(p, "returned")))
=============================================================================
