------------------------ MODULE WorkerExecutionProofs ------------------------
(***************************************************************************)
(* Proofs about WorkerExecution, for any number of processes and jobs and  *)
(* any configurations and probes: where a process stands, what it holds    *)
(* there, and where its media call stands (ProcInv), on top of the         *)
(* invariant of the calls (CallsInv of MediaCallsProofs); what the         *)
(* payloads record of it (SnapshotInv, on top of RecursionProofs); and why *)
(* an execution ends (ExecutionEnds).                                      *)
(***************************************************************************)
EXTENDS WorkerExecution, MediaCallsProofs, RecursionProofs

\* Labels of a process that has claimed a job, and of one that has the lock.
Held   == {"resolving", "operation", "operating", "oom", "cleaned", "assembly", "assembling",
           "completing", "cancelling", "failing"}
Owning == {"admitting", "claiming"} \cup Held

\* Labels at which the process knows the profile the job is executed at.
Executing == {"operation", "operating", "oom", "cleaned", "assembly", "assembling", "completing"}

\* A process holds the lock, a job and an admission as its label says; its call
\* is under way only while it waits for it; the job it holds is running, and
\* recorded at the profile the process executes.
ProcInv(p) ==
    /\ role[p] = "worker" => pc[p] # "tool"
    /\ lock = p <=> pc[p] \in Owning
    /\ holding[p] # NoJob <=> pc[p] \in Held
    /\ pc[p] \in Held \cup {"claiming"} => Admits(probed[p])
    /\ pc[p] \in {"booting", "top", "locking", "admitting", "claiming", "resolving", "exited"}
           => step[p] = "idle" /\ outcome[p] = "none"
    /\ pc[p] \notin {"operating", "assembling", "tool"} => step[p] \in {"idle", "returned"}
    /\ pc[p] \in {"oom", "cleaned", "operating", "assembling"} => step[p] # "idle"
    /\ pc[p] = "assembling" => kind[p] = "assembly"
    /\ pc[p] \in Held => job[holding[p]] \in {"running", "cancel_requested"}
    /\ pc[p] \in Executing => current[p] = payload[holding[p]]

\* TypeOK without the part of the calls; the columns and locals it leaves open.
OwnTypeOK ==
    /\ role \in Assignments
    /\ pc \in [Procs -> PCs]
    /\ lock \in Procs \cup {NoProc}
    /\ stopped \in [Procs -> BOOLEAN]
    /\ job \in [Jobs -> JobStates]
    /\ attempt \in [Jobs -> 0 .. MaxRetries + 1]
    /\ holding \in [Procs -> Jobs \cup {NoJob}]
    /\ probed \in [Procs -> Probes]
    /\ DOMAIN payload = Jobs
    /\ DOMAIN current = Procs

IInv == CallTypeOK /\ OwnTypeOK /\ CallsInv /\ \A p \in Procs : ProcInv(p)

\* What a step must leave alone for ProcInv(q) to survive it.
Frame(q) ==
    /\ role'[q] = role[q] /\ pc'[q] = pc[q] /\ holding'[q] = holding[q]
    /\ probed'[q] = probed[q] /\ current'[q] = current[q]
    /\ lock' = q <=> lock = q
    /\ kind'[q] = kind[q] /\ step'[q] = step[q] /\ outcome'[q] = outcome[q]
    /\ pc[q] \in Held =>
          /\ job[holding[q]] \in {"running", "cancel_requested"}
                 => job'[holding[q]] \in {"running", "cancel_requested"}
          /\ payload'[holding[q]] = payload[holding[q]]

LEMMA FrameInv ==
    ASSUME NEW q \in Procs, ProcInv(q), Frame(q)
    PROVE  ProcInv(q)'
  BY DEF ProcInv, Frame, Admits, Held, Executing, Owning

\* The step of one process is looked at for this process and framed for the others.
LEMMA StepInv ==
    ASSUME IInv, NEW p \in Procs, CallTypeOK', CallsInv', OwnTypeOK', ProcInv(p)',
           \A q \in Procs \ {p} : Frame(q)
    PROVE  IInv'
  BY FrameInv DEF IInv

\* The lock has one holder.
LEMMA Alone ==
    ASSUME IInv, NEW p \in Procs, NEW q \in Procs, q # p, pc[p] \in Owning
    PROVE  pc[q] \notin Owning /\ pc[q] \notin Held /\ lock # q
  BY DEF IInv, ProcInv, Owning, Held

\* What IInv says of one process, with the types of what it reads.
LEMMA ProcFacts ==
    ASSUME WorkerAssumption, IInv, NEW p \in Procs
    PROVE  /\ ProcInv(p) /\ p \in Callers /\ CallInv(p) /\ CallTypeOK /\ CallsInv /\ OwnTypeOK
           /\ pc[p] \in PCs /\ holding[p] \in Jobs \cup {NoJob} /\ NoProc # p
           /\ pc[p] \in Held => holding[p] \in Jobs
  BY DEF IInv, OwnTypeOK, WorkerAssumption, CallsInv, ProcInv, Held

\* A step of p that leaves calls and rows alone and gives up or takes no job.
LEMMA MoveInv ==
    ASSUME WorkerAssumption, IInv, NEW p \in Procs, NEW label \in PCs, Move(p, label), KeepCall,
           UNCHANGED <<role, rowVars, memoryVars>>, stopped' \in [Procs -> BOOLEAN],
           lock' \in Procs \cup {NoProc}, \A q \in Procs \ {p} : lock' = q <=> lock = q,
           pc'[p] = label => ProcInv(p)'
    PROVE  IInv'
  <1> USE DEF Move, rowVars, memoryVars
  <1>1. CallTypeOK' /\ CallsInv' /\ \A q \in Procs : Same(q)
    BY KeepCallInv DEF IInv, KeepCall, WorkerAssumption
  <1>2. OwnTypeOK'
    BY DEF IInv, OwnTypeOK
  <1>3. pc'[p] = label
    BY DEF IInv, OwnTypeOK
  <1>4. ASSUME NEW q \in Procs \ {p} PROVE Frame(q)
    BY <1>1 DEF IInv, OwnTypeOK, Same, Frame
  <1> QED BY <1>1, <1>2, <1>3, <1>4, StepInv

-----------------------------------------------------------------------------

LEMMA InitInv ==
    ASSUME WorkerAssumption, CallerAssumption, Init
    PROVE  IInv
  <1>1. CallTypeOK /\ CallsInv
    BY CallsInitInv DEF Init
  <1>2. OwnTypeOK
    BY DEF Init, OwnTypeOK, PCs, JobStates, Life!Init, WorkerAssumption
  <1>3. ASSUME NEW p \in Procs PROVE ProcInv(p)
    <2>1. /\ role[p] = "worker" => pc[p] = "booting"
          /\ pc[p] \in {"booting", "tool"} /\ lock = NoProc /\ holding[p] = NoJob
          /\ step[p] = "idle" /\ outcome[p] = "none"
      BY DEF Init, CallsInit, WorkerAssumption
    <2> QED BY <2>1 DEF ProcInv, Owning, Held, Executing, WorkerAssumption
  <1> QED BY <1>1, <1>2, <1>3 DEF IInv

-----------------------------------------------------------------------------
(* Requests and signals *)

\* A request touches no process and no job that is held.
LEMMA RequestFrame ==
    ASSUME IInv, CallTypeOK', CallsInv', OwnTypeOK', \A q \in Procs : Frame(q)
    PROVE  IInv'
  BY FrameInv DEF IInv

LEMMA SubmitInv ==
    ASSUME WorkerAssumption, IInv, NEW j \in Jobs, Submit(j)
    PROVE  IInv'
  <1> USE DEF Submit, Life!Submit, Life!Move, memoryVars
  <1>1. CallTypeOK' /\ CallsInv' /\ \A q \in Procs : Same(q)
    BY KeepCallInv DEF IInv, KeepCall, WorkerAssumption
  <1>2. OwnTypeOK'
    BY DEF IInv, OwnTypeOK, JobStates
  <1>3. ASSUME NEW q \in Procs PROVE Frame(q)
    <2>1. pc[q] \in Held => holding[q] # j /\ holding[q] \in Jobs
      BY ProcFacts DEF ProcInv
    <2> QED BY <1>1, <2>1 DEF Same, Frame, IInv, OwnTypeOK
  <1> QED BY <1>1, <1>2, <1>3, RequestFrame

LEMMA RetryJobInv ==
    ASSUME WorkerAssumption, IInv, NEW j \in Jobs, RetryJob(j)
    PROVE  IInv'
  <1> USE DEF RetryJob, Life!Retry, Life!Move, memoryVars
  <1>1. CallTypeOK' /\ CallsInv' /\ \A q \in Procs : Same(q)
    BY KeepCallInv DEF IInv, KeepCall, WorkerAssumption
  <1>2. OwnTypeOK'
    BY DEF IInv, OwnTypeOK, JobStates
  <1>3. ASSUME NEW q \in Procs PROVE Frame(q)
    <2>1. pc[q] \in Held => holding[q] # j /\ holding[q] \in Jobs
      BY ProcFacts DEF ProcInv
    <2> QED BY <1>1, <2>1 DEF Same, Frame, IInv, OwnTypeOK
  <1> QED BY <1>1, <1>2, <1>3, RequestFrame

\* Asking changes asked and nothing else of the calls.
LEMMA AskKeeps ==
    ASSUME WorkerAssumption, IInv, UNCHANGED <<kind, command, step, child, files, outcome, output, raced>>,
           UNCHANGED asked \/ \E p \in Procs : Ask(p)
    PROVE  CallTypeOK' /\ CallsInv'
  <1>1. CASE UNCHANGED asked
    BY <1>1, KeepCallInv DEF IInv, callVars, files
  <1>2. CASE \E p \in Procs : Ask(p)
    BY <1>2, AskInv DEF IInv, WorkerAssumption
  <1> QED BY <1>1, <1>2

LEMMA RequestCancellationInv ==
    ASSUME WorkerAssumption, IInv, NEW j \in Jobs, RequestCancellation(j)
    PROVE  IInv'
  <1> USE DEF RequestCancellation, Life!CancelQueued, Life!RequestCancel, Life!Move, memoryVars
  <1>1. CallTypeOK' /\ CallsInv'
    BY AskKeeps DEF Holder
  <1>2. OwnTypeOK'
    BY DEF IInv, OwnTypeOK, JobStates, Life!Settled
  <1>3. ASSUME NEW q \in Procs PROVE Frame(q)
    BY ProcFacts DEF Frame, OwnTypeOK
  <1> QED BY <1>1, <1>2, <1>3, RequestFrame

LEMMA StopInv ==
    ASSUME WorkerAssumption, IInv, NEW p \in Procs, Stop(p) \/ CancelTool(p)
    PROVE  IInv'
  <1> USE DEF Stop, CancelTool, memoryVars, rowVars
  <1>1. CallTypeOK' /\ CallsInv'
    BY AskKeeps
  <1>2. OwnTypeOK'
    BY DEF IInv, OwnTypeOK
  <1>3. ASSUME NEW q \in Procs PROVE Frame(q)
    BY DEF Frame
  <1> QED BY <1>1, <1>2, <1>3, RequestFrame

-----------------------------------------------------------------------------
(* The steps of process_next *)

LEMMA LoadInv ==
    ASSUME WorkerAssumption, IInv, NEW p \in Procs, Load(p)
    PROVE  IInv'
  <1> PICK label \in {"top", "exited"} : Move(p, label)
    BY DEF Load
  <1>1. label \in PCs
    BY DEF PCs
  <1>2. ASSUME pc'[p] = label PROVE ProcInv(p)'
    BY <1>2, KeepCallInv, ProcFacts
       DEF Load, ProcInv, Owning, Held, Executing, memoryVars, Same, KeepCall
  <1>3. stopped' \in [Procs -> BOOLEAN] /\ lock' \in Procs \cup {NoProc}
    BY DEF Load, IInv, OwnTypeOK
  <1> QED BY <1>1, <1>2, <1>3, MoveInv DEF Load

LEMMA PollInv ==
    ASSUME WorkerAssumption, IInv, NEW p \in Procs, Poll(p)
    PROVE  IInv'
  <1> PICK label \in {"locking", "exited"} : Move(p, label)
    BY DEF Poll, Exit
  <1>1. label \in PCs
    BY DEF PCs
  <1>2. ASSUME pc'[p] = label PROVE ProcInv(p)'
    BY <1>2, KeepCallInv, ProcFacts
       DEF Poll, ProcInv, Owning, Held, Executing, memoryVars, Same, KeepCall
  <1>3. stopped' \in [Procs -> BOOLEAN] /\ lock' \in Procs \cup {NoProc}
    BY DEF Poll, Exit, IInv, OwnTypeOK
  <1> QED BY <1>1, <1>2, <1>3, MoveInv DEF Poll

LEMMA AcquireLockInv ==
    ASSUME WorkerAssumption, IInv, NEW p \in Procs, AcquireLock(p)
    PROVE  IInv'
  <1>1. "admitting" \in PCs /\ stopped' \in [Procs -> BOOLEAN] /\ lock' \in Procs \cup {NoProc}
    BY DEF PCs, AcquireLock, IInv, OwnTypeOK
  <1>2. ASSUME pc'[p] = "admitting" PROVE ProcInv(p)'
    BY <1>2, KeepCallInv, ProcFacts
       DEF AcquireLock, ProcInv, Owning, Held, Executing, memoryVars, Same, KeepCall
  <1>3. \A q \in Procs \ {p} : lock' = q <=> lock = q
    BY DEF AcquireLock, WorkerAssumption
  <1> QED BY <1>1, <1>2, <1>3, MoveInv DEF AcquireLock

\* process_next returns, or the process is killed: what it knew is gone.
LEMMA ForgetInv ==
    ASSUME WorkerAssumption, CallerAssumption, IInv, NEW p \in Procs, NEW label \in {"top", "exited"},
           Forget(p), Move(p, label), pc[p] \in Owning, UNCHANGED <<role, payload>>,
           child' = [child EXCEPT ![p] = "none"], captions' = [captions EXCEPT ![p] = FALSE],
           stopped' \in [Procs -> BOOLEAN], attempt' = attempt, job' \in [Jobs -> JobStates],
           \A j \in Jobs : j # holding[p] => job'[j] = job[j]
    PROVE  IInv'
  <1> USE DEF Move, Forget
  <1>1. CallTypeOK' /\ CallsInv' /\ Changes(p) /\ step'[p] = "idle" /\ outcome'[p] = "none"
    BY DismissInv DEF IInv, WorkerAssumption
  <1>2. OwnTypeOK'
    BY DEF IInv, OwnTypeOK, PCs, WorkerAssumption
  <1>3. ProcInv(p)'
    <2>1. pc'[p] = label /\ lock' = NoProc /\ holding'[p] = NoJob /\ role' = role
      BY DEF IInv, OwnTypeOK
    <2> QED BY <1>1, <2>1 DEF ProcInv, Owning, Held, Executing, WorkerAssumption
  <1>4. ASSUME NEW q \in Procs \ {p} PROVE Frame(q)
    <2>1. pc[q] \notin Held /\ lock # q /\ lock' # q
      BY Alone, ProcFacts
    <2>2. Same(q)
      BY <1>1, OthersSame DEF IInv, WorkerAssumption
    <2> QED BY <2>1, <2>2 DEF Same, Frame, IInv, OwnTypeOK
  <1> QED BY <1>1, <1>2, <1>3, <1>4, StepInv

\* At these labels the call of the process is over and its child reaped.
LEMMA ReturnInv ==
    ASSUME WorkerAssumption, CallerAssumption, IInv, NEW p \in Procs, Return(p),
           pc[p] \in Owning \ {"operating", "assembling"}, UNCHANGED <<role, stopped, payload, attempt>>,
           job' \in [Jobs -> JobStates], \A j \in Jobs : j # holding[p] => job'[j] = job[j]
    PROVE  IInv'
  <1>1. step[p] \in {"idle", "returned"} /\ CallInv(p)
    BY ProcFacts DEF ProcInv, Owning, Held
  <1>2. child' = [child EXCEPT ![p] = "none"] /\ captions' = [captions EXCEPT ![p] = FALSE]
    <2>1. child[p] = "none" /\ captions[p] = FALSE
      BY <1>1, ProcFacts DEF CallInv, CallTypeOK
    <2> QED BY <2>1, ProcFacts DEF Return, CallTypeOK
  <1>3. Forget(p) /\ Move(p, "top") /\ stopped' \in [Procs -> BOOLEAN]
    BY DEF Return, IInv, OwnTypeOK
  <1> QED BY <1>2, <1>3, ForgetInv

LEMMA AdmitInv ==
    ASSUME WorkerAssumption, CallerAssumption, IInv, NEW p \in Procs, Admit(p)
    PROVE  IInv'
  <1>1. pc[p] = "admitting" /\ UNCHANGED <<role, stopped, job, attempt, payload>>
    BY DEF Admit, rowVars
  <1>2. CASE Return(p)
    <2>1. job' \in [Jobs -> JobStates]
      BY <1>1 DEF IInv, OwnTypeOK
    <2> QED BY <1>1, <1>2, <2>1, ReturnInv DEF Owning, Held
  <1>3. ASSUME NEW probe \in Probes, Admits(probe), probed' = [probed EXCEPT ![p] = probe],
               Move(p, "claiming"), UNCHANGED <<lock, holding, current>>, KeepCall
        PROVE  IInv'
    <2>1. CallTypeOK' /\ CallsInv' /\ \A q \in Procs : Same(q)
      BY <1>3, KeepCallInv DEF IInv, KeepCall, WorkerAssumption
    <2>2. OwnTypeOK'
      BY <1>1, <1>3 DEF IInv, OwnTypeOK, PCs, Move
    <2>3. ProcInv(p)'
      <3>1. pc'[p] = "claiming" /\ probed'[p] = probe
        BY <1>3 DEF IInv, OwnTypeOK, Move
      <3>2. Admits(probed'[p])
        BY <1>3, <3>1
      <3> QED BY <1>1, <1>3, <2>1, <3>1, <3>2, ProcFacts
              DEF ProcInv, Owning, Held, Executing, Same, Admits
    <2>4. ASSUME NEW q \in Procs \ {p} PROVE Frame(q)
      BY <1>1, <1>3, <2>1 DEF IInv, OwnTypeOK, Same, Frame, Move
    <2> QED BY <2>1, <2>2, <2>3, <2>4, StepInv
  <1> QED BY <1>2, <1>3 DEF Admit

LEMMA ClaimInv ==
    ASSUME WorkerAssumption, CallerAssumption, IInv, NEW p \in Procs, Claim(p)
    PROVE  IInv'
  <1>1. pc[p] = "claiming" /\ UNCHANGED <<role, stopped, payload>>
    BY DEF Claim
  <1>2. CASE Return(p) /\ UNCHANGED <<job, attempt>>
    <2>1. job' \in [Jobs -> JobStates]
      BY <1>2 DEF IInv, OwnTypeOK
    <2> QED BY <1>1, <1>2, <2>1, ReturnInv DEF Owning, Held
  <1>3. ASSUME NEW j \in Jobs, Life!Start(j), holding' = [holding EXCEPT ![p] = j],
               asked' = [asked EXCEPT ![p] = IF stopped[p] THEN "early" ELSE "no"],
               Move(p, "resolving"), UNCHANGED <<lock, probed, current>>,
               UNCHANGED <<kind, command, step, child, files, outcome, output, raced>>
        PROVE  IInv'
    <2> USE DEF Life!Start, Life!Move, Move
    <2>1. CallTypeOK' /\ CallsInv'
      <3> DEFINE a == IF stopped[p] THEN "early" ELSE "no"
      <3>1. a \in {"no", "early", "late"} /\ asked' = [asked EXCEPT ![p] = a]
        BY <1>3
      <3>2. ~Decided(p)
        BY <1>1, ProcFacts DEF ProcInv, Decided, At
      <3> HIDE DEF a
      <3> QED BY <1>3, <3>1, <3>2, AskedInv, ProcFacts
    <2>2. OwnTypeOK'
      BY <1>1, <1>3 DEF IInv, OwnTypeOK, PCs, JobStates, WorkerAssumption
    <2>3. ProcInv(p)'
      <3>1. pc'[p] = "resolving" /\ holding'[p] = j /\ job'[j] = "running" /\ j # NoJob
        BY <1>3 DEF IInv, OwnTypeOK, WorkerAssumption
      <3> QED BY <1>1, <1>3, <3>1, ProcFacts DEF ProcInv, Owning, Held, Executing, Admits
    <2>4. ASSUME NEW q \in Procs \ {p} PROVE Frame(q)
      <3>1. pc[q] \notin Held
        BY <1>1, Alone DEF Owning
      <3> QED BY <1>1, <1>3, <3>1 DEF IInv, OwnTypeOK, Frame
    <2> QED BY <2>1, <2>2, <2>3, <2>4, StepInv
  <1> QED BY <1>2, <1>3 DEF Claim

\* A step of p that records in the payload what p executes.
LEMMA RecordInv ==
    ASSUME WorkerAssumption, IInv, NEW p \in Procs, pc[p] \in {"resolving", "cleaned"},
           NEW snapshot, current' = [current EXCEPT ![p] = snapshot],
           payload' = [payload EXCEPT ![holding[p]] = snapshot],
           Move(p, "operation"), KeepCall,
           UNCHANGED <<role, lock, stopped, job, attempt, holding, probed>>
    PROVE  IInv'
  <1> USE DEF Move
  <1>1. CallTypeOK' /\ CallsInv' /\ \A q \in Procs : Same(q)
    BY KeepCallInv DEF IInv, KeepCall, WorkerAssumption
  <1>2. OwnTypeOK'
    BY DEF IInv, OwnTypeOK, PCs
  <1>3. pc[p] \in Held /\ pc[p] \in Owning
    BY DEF Held, Owning
  <1>4. ProcInv(p)'
    <2>1. pc'[p] = "operation" /\ current'[p] = snapshot /\ holding' = holding /\ holding[p] \in Jobs
      BY <1>3, ProcFacts DEF OwnTypeOK
    <2>2. payload'[holding'[p]] = snapshot
      BY <2>1 DEF IInv, OwnTypeOK
    <2> QED BY <1>1, <1>3, <2>1, <2>2, ProcFacts
            DEF ProcInv, Owning, Held, Executing, Same, Admits
  <1>5. ASSUME NEW q \in Procs \ {p} PROVE Frame(q)
    <2>1. pc[q] \notin Held
      BY <1>3, Alone
    <2> QED BY <1>1, <2>1 DEF IInv, OwnTypeOK, Same, Frame
  <1> QED BY <1>1, <1>2, <1>4, <1>5, StepInv

LEMMA ResolveProfileInv ==
    ASSUME WorkerAssumption, IInv, NEW p \in Procs, ResolveProfile(p)
    PROVE  IInv'
  <1> PICK snapshot \in Snapshots(holding[p]) :
             /\ current' = [current EXCEPT ![p] = snapshot]
             /\ payload' = [payload EXCEPT ![holding[p]] = snapshot]
    BY DEF ResolveProfile
  <1> QED BY RecordInv DEF ResolveProfile

LEMMA FallBackInv ==
    ASSUME WorkerAssumption, IInv, NEW p \in Procs, FallBack(p)
    PROVE  IInv'
  <1> DEFINE advanced == Advance(current[p], attempt[holding[p]])
  <1>1. /\ pc[p] = "cleaned" /\ current' = [current EXCEPT ![p] = advanced]
        /\ payload' = [payload EXCEPT ![holding[p]] = advanced]
        /\ Move(p, "operation") /\ KeepCall
        /\ UNCHANGED <<role, lock, stopped, job, attempt, holding, probed>>
    BY DEF FallBack
  <1> HIDE DEF advanced
  <1> QED BY <1>1, RecordInv

\* A step of p between two labels under the lock.
LEMMA HeldMoveInv ==
    ASSUME WorkerAssumption, IInv, NEW p \in Procs, pc[p] \in Held,
           NEW label \in Held \ {"resolving", "operating", "assembling"}, Move(p, label), KeepCall,
           UNCHANGED <<role, lock, stopped, rowVars, memoryVars>>,
           pc[p] \in {"operating", "assembling"} => step[p] = "returned",
           label \in {"oom", "cleaned"} => pc[p] \in {"operating", "oom"},
           label \in Executing => pc[p] \in Executing
    PROVE  IInv'
  <1>1. label \in PCs
    BY DEF Held, PCs
  <1>2. ASSUME pc'[p] = label PROVE ProcInv(p)'
    <2>1. step[p] \in {"idle", "returned"} /\ (label \in {"oom", "cleaned"} => step[p] # "idle")
      BY ProcFacts DEF ProcInv, Held
    <2>2. Same(p)
      BY KeepCallInv, ProcFacts DEF KeepCall
    <2> QED BY <1>2, <2>1, <2>2, ProcFacts
            DEF ProcInv, Owning, Held, Executing, memoryVars, rowVars, Same, Admits
  <1>3. stopped' \in [Procs -> BOOLEAN] /\ lock' \in Procs \cup {NoProc}
    BY DEF IInv, OwnTypeOK
  <1> QED BY <1>1, <1>2, <1>3, MoveInv

LEMMA OperationEndsInv ==
    ASSUME WorkerAssumption, IInv, NEW p \in Procs, OperationEnds(p)
    PROVE  IInv'
  <1>1. pc[p] = "operating" /\ step[p] = "returned"
    BY DEF OperationEnds, At
  <1>2. outcome[p] \in {"ok", "cancelled", "oom", "failed"}
    BY <1>1, ProcFacts DEF CallInv, CallTypeOK
  <1>3. AfterOperation[outcome[p]] \in {"assembly", "oom", "cancelling", "failing"}
    BY <1>2 DEF AfterOperation
  <1> QED BY <1>1, <1>3, HeldMoveInv DEF OperationEnds, Held, Executing

\* An assembly does not run out of GPU memory.
LEMMA AssemblyEndsInv ==
    ASSUME WorkerAssumption, IInv, NEW p \in Procs, AssemblyEnds(p)
    PROVE  IInv'
  <1>1. pc[p] = "assembling" /\ step[p] = "returned"
    BY DEF AssemblyEnds, At
  <1>2. kind[p] = "assembly"
    BY <1>1, ProcFacts DEF ProcInv
  <1>3. outcome[p] \in {"ok", "cancelled", "failed"}
    BY <1>1, <1>2, ProcFacts DEF CallInv, CallTypeOK
  <1>4. AfterAssembly[outcome[p]] \in {"completing", "cancelling", "failing"}
    BY <1>3 DEF AfterAssembly
  <1> QED BY <1>1, <1>4, HeldMoveInv DEF AssemblyEnds, Held, Executing

LEMMA NoticeOrFailInv ==
    ASSUME WorkerAssumption, IInv, NEW p \in Procs, NoticeCancellation(p) \/ Fail(p)
    PROVE  IInv'
  <1> PICK label \in {"cancelling", "failing"} : Move(p, label)
    BY DEF NoticeCancellation, Fail
  <1> QED BY HeldMoveInv DEF NoticeCancellation, Fail, Held, Executing

LEMMA CleanUpMemoryInv ==
    ASSUME WorkerAssumption, IInv, NEW p \in Procs, CleanUpMemory(p)
    PROVE  IInv'
  <1> USE DEF CleanUpMemory, Move, rowVars, memoryVars
  <1>1. pc[p] = "oom" /\ step[p] = "returned"
    BY ProcFacts DEF ProcInv
  <1>2. Changes(p) /\ UNCHANGED <<output, raced>>
    BY ProcFacts DEF Changes, CallTypeOK
  <1>3. CallerTypeOK(p)' /\ OutputTypeOK'
    BY ProcFacts, CallerTypes DEF CallerTypeOK, OutputTypeOK, CallTypeOK
  <1>4. CallInv(p)'
    BY <1>1, ProcFacts DEF CallInv, CallTypeOK, Watched, Decided, At
  <1>5. /\ step'[p] # "replacing" \/ (step[p] = "replacing" /\ kind'[p] = kind[p])
        /\ outcome'[p] # "ok" \/ (step[p] = "returned" /\ outcome[p] = "ok" /\ kind'[p] = kind[p])
    BY <1>1
  <1>6. CallTypeOK' /\ CallsInv'
    BY <1>2, <1>3, <1>4, <1>5, ChangesTyped, ChangesInv, ProcFacts
  <1>7. OwnTypeOK'
    BY DEF IInv, OwnTypeOK, PCs
  <1>8. ProcInv(p)'
    <2>1. pc'[p] = "cleaned"
      BY DEF IInv, OwnTypeOK
    <2> QED BY <1>1, <2>1, ProcFacts DEF ProcInv, Owning, Held, Executing, Admits
  <1>9. ASSUME NEW q \in Procs \ {p} PROVE Frame(q)
    BY DEF IInv, OwnTypeOK, Frame
  <1> QED BY <1>6, <1>7, <1>8, <1>9, StepInv

LEMMA CallBeginsInv ==
    ASSUME WorkerAssumption, IInv, NEW p \in Procs, Operate(p) \/ Assemble(p)
    PROVE  IInv'
  <1> USE DEF Operate, Assemble, Move, rowVars, memoryVars
  <1>1. PICK k \in Kinds, label \in {"operating", "assembling"} :
             Begin(p, k) /\ Move(p, label) /\ (label = "assembling" => k = "assembly")
    BY KindNames DEF WorkerAssumption
  <1>2. CallTypeOK' /\ CallsInv' /\ Changes(p)
    BY <1>1, BeginInv, ProcFacts
  <1>3. kind'[p] = k /\ step'[p] \in {"starting", "raising"}
    BY <1>1, ProcFacts DEF Begin, Goto, Raise, CallTypeOK
  <1>4. pc[p] \in {"operation", "assembly"} /\ pc'[p] = label
    BY <1>1 DEF IInv, OwnTypeOK
  <1>5. OwnTypeOK'
    BY <1>1 DEF IInv, OwnTypeOK, PCs
  <1>6. ProcInv(p)'
    BY <1>1, <1>3, <1>4, ProcFacts DEF ProcInv, Owning, Held, Executing, Admits
  <1>7. ASSUME NEW q \in Procs \ {p} PROVE Frame(q)
    <2>1. Same(q)
      BY <1>2, OthersSame, ProcFacts
    <2> QED BY <1>1, <2>1 DEF IInv, OwnTypeOK, Same, Frame
  <1> QED BY <1>2, <1>5, <1>6, <1>7, StepInv

LEMMA FinishInv ==
    ASSUME WorkerAssumption, CallerAssumption, IInv, NEW p \in Procs, Finish(p)
    PROVE  IInv'
  <1>1. pc[p] \in Held /\ pc[p] \in Owning \ {"operating", "assembling"}
    BY DEF Finish, Held, Owning
  <1>2. holding[p] \in Jobs
    BY <1>1, ProcFacts
  <1>3. PICK st \in Life!Settled : job' = [job EXCEPT ![holding[p]] = st] /\ UNCHANGED attempt
    BY DEF Finish, Life!Succeed, Life!Fail, Life!Cancel, Life!Move, Life!Settled
  <1>4. job' \in [Jobs -> JobStates] /\ \A j \in Jobs : j # holding[p] => job'[j] = job[j]
    BY <1>2, <1>3 DEF IInv, OwnTypeOK, JobStates
  <1> QED BY <1>1, <1>3, <1>4, ReturnInv DEF Finish

LEMMA CrashInv ==
    ASSUME WorkerAssumption, CallerAssumption, IInv, NEW p \in Procs, Crash(p)
    PROVE  IInv'
  <1>1. pc[p] \in Owning
    BY ProcFacts DEF Crash, ProcInv, Owning
  <1>2. /\ stopped' \in [Procs -> BOOLEAN] /\ job' \in [Jobs -> JobStates]
        /\ \A j \in Jobs : j # holding[p] => job'[j] = job[j]
    BY DEF Crash, Exit, rowVars, IInv, OwnTypeOK
  <1> QED BY <1>1, <1>2, ForgetInv DEF Crash, Exit, rowVars

-----------------------------------------------------------------------------
(* The call of a process *)

\* Whatever the call of p does while p waits for it.
LEMMA CallMovesInv ==
    ASSUME WorkerAssumption, IInv, NEW p \in Procs, CallTypeOK', CallsInv', Changes(p),
           pc[p] \in {"operating", "assembling", "tool"},
           pc[p] # "tool" => step'[p] # "idle" /\ kind'[p] = kind[p],
           UNCHANGED <<role, pc, lock, stopped, rowVars, memoryVars>>
    PROVE  IInv'
  <1> USE DEF rowVars, memoryVars
  <1>1. OwnTypeOK'
    BY DEF IInv, OwnTypeOK
  <1>2. ProcInv(p)'
    BY ProcFacts DEF ProcInv, Owning, Held, Executing, Admits
  <1>3. ASSUME NEW q \in Procs \ {p} PROVE Frame(q)
    <2>1. Same(q)
      BY OthersSame, ProcFacts
    <2> QED BY <2>1 DEF Same, Frame
  <1> QED BY <1>1, <1>2, <1>3, StepInv

LEMMA UseToolInv ==
    ASSUME WorkerAssumption, IInv, NEW p \in Procs, UseTool(p)
    PROVE  IInv'
  <1> PICK k \in Uses[p] : Begin(p, k)
    BY DEF UseTool
  <1>1. k \in Kinds
    BY DEF WorkerAssumption
  <1> QED BY <1>1, BeginInv, ProcFacts, CallMovesInv DEF UseTool

LEMMA CallInvKept ==
    ASSUME WorkerAssumption, CallerAssumption, IInv, NEW p \in Procs, Call(p)
    PROVE  IInv'
  <1>1. CallTypeOK' /\ CallsInv' /\ Changes(p)
    BY CallStepInv, ProcFacts DEF Call
  <1>2. step[p] \notin {"idle", "returned"} /\ step'[p] # "idle" /\ kind'[p] = kind[p]
    BY CallStepBusy, ProcFacts DEF Call
  <1>3. pc[p] \in {"operating", "assembling", "tool"}
    BY <1>2, ProcFacts DEF ProcInv
  <1> QED BY <1>1, <1>2, <1>3, CallMovesInv DEF Call

-----------------------------------------------------------------------------

LEMMA NextInv ==
    ASSUME WorkerAssumption, CallerAssumption, IInv, Next
    PROVE  IInv'
  <1>1. CASE Request
    BY <1>1, SubmitInv, RequestCancellationInv, RetryJobInv, StopInv DEF Request
  <1>2. ASSUME NEW p \in Procs, Work(p) PROVE IInv'
    <2>1. CASE Load(p) \/ Poll(p) \/ Admit(p) \/ Claim(p) \/ ResolveProfile(p)
      BY <2>1, LoadInv, PollInv, AdmitInv, ClaimInv, ResolveProfileInv
    <2>2. CASE Operate(p) \/ OperationEnds(p) \/ CleanUpMemory(p) \/ FallBack(p)
      BY <2>2, CallBeginsInv, OperationEndsInv, CleanUpMemoryInv, FallBackInv
    <2>3. CASE NoticeCancellation(p) \/ Fail(p) \/ Assemble(p) \/ AssemblyEnds(p) \/ Finish(p)
      BY <2>3, NoticeOrFailInv, CallBeginsInv, AssemblyEndsInv, FinishInv
    <2> QED BY <1>2, <2>1, <2>2, <2>3 DEF Work
  <1>3. ASSUME NEW p \in Procs, AcquireLock(p) \/ Crash(p) \/ UseTool(p) \/ Call(p) PROVE IInv'
    BY <1>3, AcquireLockInv, CrashInv, UseToolInv, CallInvKept
  <1> QED BY <1>1, <1>2, <1>3 DEF Next

LEMMA StutterInv ==
    ASSUME WorkerAssumption, IInv, UNCHANGED vars
    PROVE  IInv'
  <1> USE DEF vars, rowVars, memoryVars
  <1>1. CallTypeOK' /\ CallsInv' /\ \A q \in Procs : Same(q)
    BY KeepCallInv DEF IInv, WorkerAssumption
  <1>2. OwnTypeOK'
    BY DEF IInv, OwnTypeOK
  <1>3. ASSUME NEW q \in Procs PROVE Frame(q)
    BY <1>1 DEF Same, Frame
  <1> QED BY <1>1, <1>2, <1>3, RequestFrame

THEOREM Invariance == ASSUME WorkerAssumption, CallerAssumption PROVE Spec => []IInv
  <1>1. Init => IInv
    BY InitInv
  <1>2. IInv /\ [Next]_vars => IInv'
    BY NextInv, StutterInv
  <1> QED BY <1>1, <1>2, PTL DEF Spec

-----------------------------------------------------------------------------
(* The snapshots in the payloads *)

\* Fallback records between the profiles of a chain.
NamesOf(chain)   == {chain[k].name : k \in 1 .. Len(chain)}
RecordsOf(chain) == [from : NamesOf(chain), to : NamesOf(chain), attempt : Nat]

\* A snapshot as the attempts of a job leave it in the payload, last being the number
\* of the last one: its chain is captured, its history leads to its effective profile.
Recorded(snapshot, last) ==
    /\ snapshot = [chain     |-> snapshot.chain,
                   effective |-> snapshot.effective,
                   history   |-> snapshot.history]
    /\ Captured(snapshot.chain)
    /\ snapshot.history \in Seq(RecordsOf(snapshot.chain))
    /\ ValidSnapshot(snapshot)
    /\ \A i, k \in 1 .. Len(snapshot.history) :
          /\ snapshot.history[i].attempt <= last
          /\ i <= k => snapshot.history[i].attempt <= snapshot.history[k].attempt

\* Every snapshot is recorded; what a process still executes is one, and a job that
\* was never queued has none.
SnapshotInv ==
    /\ \A j \in Jobs : payload[j] # NoSnapshot => Recorded(payload[j], attempt[j])
    /\ \A p \in Procs : pc[p] \in Executing => Recorded(payload[holding[p]], attempt[holding[p]])
    /\ \A j \in Jobs : job[j] = "absent" => payload[j] = NoSnapshot

LEMMA RecordedLater ==
    ASSUME NEW snapshot, NEW last \in Nat, Recorded(snapshot, last), NEW later \in Nat, last <= later
    PROVE  Recorded(snapshot, later)
  <1> DEFINE chain == snapshot.chain
             history == snapshot.history
  <1>1. history \in Seq(RecordsOf(chain))
    BY DEF Recorded
  <1> HIDE DEF history, chain
  <1>2. ASSUME NEW i \in 1 .. Len(history) PROVE history[i].attempt \in Nat
    <2>1. history[i] \in RecordsOf(chain)
      BY <1>1
    <2> QED BY <2>1 DEF RecordsOf
  <1> QED BY <1>2 DEF Recorded, history

LEMMA ResolvedRecorded ==
    ASSUME WorkerAssumption, NEW snapshot \in NewSnapshots, NEW last \in Nat
    PROVE  Recorded(snapshot, last)
  <1>1. PICK profiles \in Configurations :
             /\ ValidGraph(profiles, NumProfiles) /\ Requested \in DOMAIN profiles
             /\ snapshot = Resolve(profiles, Requested, NumProfiles)
    BY DEF NewSnapshots, Loadable
  <1>2. Configuration(profiles, NumProfiles) /\ NumProfiles \in Nat
    BY DEF WorkerAssumption
  <1> DEFINE chain == FallbackChain(profiles, Requested, NumProfiles)
  <1>3. Captured(chain) /\ ValidSnapshot(snapshot)
    BY <1>1, <1>2, ChainCaptured, ResolvedSnapshotLoads
  <1> HIDE DEF chain
  <1>4. snapshot = [chain |-> chain, effective |-> 1, history |-> <<>>]
    BY <1>1 DEF Resolve, chain
  <1> QED BY <1>3, <1>4 DEF Recorded

\* A fallback moves on by one profile and records the attempt it is made in.
LEMMA AdvancedRecorded ==
    ASSUME NEW snapshot, NEW last \in Nat, Recorded(snapshot, last), HasFallback(snapshot)
    PROVE  LET advanced == Advance(snapshot, last) IN
           /\ Recorded(advanced, last)
           /\ advanced.chain = snapshot.chain
           /\ AtMostAsDemanding(Effective(advanced).profile, Effective(snapshot).profile)
  <1> DEFINE advanced == Advance(snapshot, last)
             chain    == snapshot.chain
             history  == snapshot.history
             target   == snapshot.effective + 1
             Records  == RecordsOf(chain)
             record   == [from |-> chain[target - 1].name, to |-> chain[target].name,
                          attempt |-> last]
  <1>1. /\ Captured(chain) /\ history \in Seq(Records) /\ ValidSnapshot(snapshot)
        /\ snapshot = [chain |-> chain, effective |-> target - 1, history |-> history]
        /\ target \in 2 .. Len(chain) /\ Len(history) = target - 2
    <2>1. /\ Len(chain) \in Nat /\ snapshot.effective \in 1 .. Len(chain)
          /\ snapshot.effective < Len(chain) /\ Len(history) = snapshot.effective - 1
      BY DEF Recorded, HasFallback, ValidSnapshot, Captured
    <2>2. target - 1 = snapshot.effective /\ target \in 2 .. Len(chain) /\ Len(history) = target - 2
      BY <2>1
    <2> QED BY <2>2 DEF Recorded
  <1>2. advanced = [chain |-> chain, effective |-> target, history |-> Append(history, record)]
    <2>1. advanced = [snapshot EXCEPT !.effective = target, !.history = Append(@, record)]
      <3>1. Effective(snapshot).name = chain[target - 1].name
        BY <1>1 DEF Effective
      <3> QED BY <3>1 DEF Advance
    <2> HIDE DEF advanced, target, record, chain, history
    <2> QED BY <1>1, <2>1
  <1>3. record \in Records
    <2>1. chain[target - 1].name \in NamesOf(chain) /\ chain[target].name \in NamesOf(chain)
      <3>1. \A k \in 1 .. Len(chain) : chain[k].name \in NamesOf(chain)
        BY DEF NamesOf
      <3>2. target \in 1 .. Len(chain) /\ target - 1 \in 1 .. Len(chain)
        BY <1>1 DEF Captured
      <3> HIDE DEF chain, target
      <3> QED BY <3>1, <3>2
    <2> HIDE DEF chain, target
    <2> QED BY <2>1 DEF RecordsOf
  <1>4. /\ advanced.chain = chain /\ advanced.effective = target
        /\ advanced.history = Append(history, record)
        /\ record.from = chain[target - 1].name /\ record.to = chain[target].name
        /\ record.attempt = last
    BY <1>2
  <1>5. /\ ValidSnapshot(snapshot) <=>
              /\ target - 1 \in 1 .. Len(chain)
              /\ \A i, k \in 1 .. Len(chain) : chain[i].name = chain[k].name => i = k
              /\ Len(history) = target - 2
              /\ \A k \in 1 .. Len(chain) :
                    chain[k].profile.fallback = IF k < Len(chain) THEN chain[k + 1].name ELSE NoProfile
              /\ \A k \in 1 .. Len(history) :
                    history[k].from = chain[k].name /\ history[k].to = chain[k + 1].name
        /\ \A i, k \in 1 .. Len(history) :
              history[i].attempt <= last /\ (i <= k => history[i].attempt <= history[k].attempt)
    BY <1>1 DEF ValidSnapshot, Recorded
  <1> HIDE DEF advanced, chain, history, target, Records, record
  <1>6. /\ advanced.history \in Seq(Records) /\ Len(advanced.history) = target - 1
        /\ \A k \in 1 .. target - 2 : advanced.history[k] = history[k]
        /\ advanced.history[target - 1] = record
    BY <1>1, <1>3, <1>4
  <1>7. ASSUME NEW k \in 1 .. target - 1
        PROVE  advanced.history[k].from = chain[k].name /\ advanced.history[k].to = chain[k + 1].name
    <2>1. CASE k = target - 1
      BY <1>1, <1>4, <1>6, <2>1
    <2>2. CASE k \in 1 .. target - 2
      BY <1>1, <1>5, <1>6, <2>2
    <2> QED BY <1>1, <2>1, <2>2
  <1>8. ValidSnapshot(advanced)
    BY <1>1, <1>4, <1>5, <1>6, <1>7 DEF ValidSnapshot
  <1>9. ASSUME NEW i \in 1 .. target - 1, NEW k \in 1 .. target - 1
        PROVE  /\ advanced.history[i].attempt <= last
               /\ i <= k => advanced.history[i].attempt <= advanced.history[k].attempt
    <2>1. \A l \in 1 .. target - 2 : advanced.history[l].attempt <= last
      BY <1>1, <1>5, <1>6
    <2>2. advanced.history[target - 1].attempt = last /\ last <= last
      BY <1>4, <1>6
    <2>3. \A l \in 1 .. target - 1 : l # target - 1 => l \in 1 .. target - 2
      BY <1>1
    <2>4. CASE k = target - 1
      BY <2>1, <2>2, <2>3, <2>4
    <2>5. CASE k # target - 1 /\ i # target - 1
      BY <1>1, <1>5, <1>6, <2>3, <2>5
    <2>6. CASE k # target - 1 /\ i = target - 1
      BY <1>1, <2>2, <2>6
    <2> QED BY <2>4, <2>5, <2>6
  <1>10. advanced = [chain |-> chain, effective |-> target, history |-> advanced.history]
    BY <1>2, <1>4
  <1>11. Recorded(advanced, last)
    BY <1>1, <1>4, <1>6, <1>8, <1>9, <1>10 DEF Recorded, Records
  <1>12. AtMostAsDemanding(Effective(advanced).profile, Effective(snapshot).profile)
    <2>1. /\ Effective(advanced) = chain[target] /\ Effective(snapshot) = chain[target - 1]
          /\ target - 1 \in 1 .. Len(chain) /\ target - 1 < Len(chain) /\ target - 1 + 1 = target
      BY <1>1, <1>4 DEF Effective
    <2>2. AtMostAsDemanding(chain[target - 1 + 1].profile, chain[target - 1].profile)
      BY <1>1, <2>1 DEF Captured
    <2> QED BY <2>1, <2>2
  <1> QED BY <1>4, <1>11, <1>12 DEF advanced, chain

\* What every step does but those that write a snapshot.
Keeps ==
    /\ payload' = payload
    /\ \A j \in Jobs : attempt[j] <= attempt'[j] /\ (job'[j] = "absent" => job[j] = "absent")
    /\ \A p \in Procs : pc'[p] \in Executing => pc[p] \in Executing /\ holding'[p] = holding[p]

LEMMA SnapshotsKept ==
    ASSUME IInv, IInv', SnapshotInv, Keeps
    PROVE  SnapshotInv'
  <1> USE DEF Keeps
  <1>1. \A j \in Jobs : attempt[j] \in Nat /\ attempt'[j] \in Nat
    BY DEF IInv, OwnTypeOK
  <1>2. ASSUME NEW j \in Jobs, payload'[j] # NoSnapshot PROVE Recorded(payload'[j], attempt'[j])
    BY <1>1, <1>2, RecordedLater DEF SnapshotInv
  <1>3. ASSUME NEW p \in Procs, pc'[p] \in Executing
        PROVE  Recorded(payload'[holding'[p]], attempt'[holding'[p]])
    <2>1. holding[p] \in Jobs /\ holding'[p] = holding[p]
      BY <1>3 DEF IInv, OwnTypeOK, ProcInv, Executing, Held
    <2>2. Recorded(payload[holding[p]], attempt[holding[p]])
      BY <1>3 DEF SnapshotInv
    <2> QED BY <1>1, <2>1, <2>2, RecordedLater
  <1> QED BY <1>2, <1>3 DEF SnapshotInv

\* A step that writes a snapshot for the job p holds, and executes it.
LEMMA SnapshotWritten ==
    ASSUME WorkerAssumption, IInv, SnapshotInv, NEW p \in Procs,
           pc[p] \in {"resolving", "cleaned"}, Move(p, "operation"),
           NEW snapshot, Recorded(snapshot, attempt[holding[p]]),
           payload' = [payload EXCEPT ![holding[p]] = snapshot],
           UNCHANGED <<job, attempt, holding>>
    PROVE  SnapshotInv'
  <1>1. /\ pc[p] \in Held /\ pc[p] \in Owning /\ holding[p] \in Jobs
        /\ job[holding[p]] \in {"running", "cancel_requested"}
    BY ProcFacts DEF ProcInv, Held, Owning
  <1>2. /\ payload'[holding[p]] = snapshot
        /\ \A j \in Jobs : j # holding[p] => payload'[j] = payload[j]
        /\ \A q \in Procs : q # p => pc'[q] = pc[q]
    BY <1>1 DEF IInv, OwnTypeOK, Move
  <1>3. ASSUME NEW q \in Procs, pc'[q] \in Executing PROVE q = p
    BY <1>1, <1>2, <1>3, Alone DEF Executing, Held
  <1> QED BY <1>1, <1>2, <1>3 DEF SnapshotInv

LEMMA SubmitSnapshot ==
    ASSUME WorkerAssumption, IInv, SnapshotInv, NEW j \in Jobs, Submit(j)
    PROVE  SnapshotInv'
  <1>1. /\ job[j] = "absent" /\ job' = [job EXCEPT ![j] = "queued"]
        /\ UNCHANGED <<pc, attempt, holding>>
    BY DEF Submit, Life!Submit, Life!Move, memoryVars
  <1>2. PICK snapshot \in NewSnapshots \cup {NoSnapshot} :
             payload' = [payload EXCEPT ![j] = snapshot]
    BY DEF Submit
  <1>3. /\ payload'[j] = snapshot /\ job'[j] = "queued" /\ attempt[j] \in Nat
        /\ \A i \in Jobs : i # j => payload'[i] = payload[i] /\ job'[i] = job[i]
    BY <1>1, <1>2 DEF IInv, OwnTypeOK
  <1>4. snapshot # NoSnapshot => Recorded(snapshot, attempt[j])
    BY <1>3, ResolvedRecorded
  <1>5. ASSUME NEW p \in Procs, pc[p] \in Executing PROVE holding[p] \in Jobs /\ holding[p] # j
    BY <1>1, <1>5, ProcFacts DEF ProcInv, Executing, Held
  <1> QED BY <1>1, <1>3, <1>4, <1>5 DEF SnapshotInv

LEMMA ResolveProfileSnapshot ==
    ASSUME WorkerAssumption, IInv, SnapshotInv, NEW p \in Procs, ResolveProfile(p)
    PROVE  SnapshotInv'
  <1> PICK snapshot \in Snapshots(holding[p]) : payload' = [payload EXCEPT ![holding[p]] = snapshot]
    BY DEF ResolveProfile
  <1>1. holding[p] \in Jobs /\ attempt[holding[p]] \in Nat
    BY ProcFacts DEF ResolveProfile, Held, OwnTypeOK
  <1>2. Recorded(snapshot, attempt[holding[p]])
    BY <1>1, ResolvedRecorded DEF Snapshots, SnapshotInv
  <1> QED BY <1>2, SnapshotWritten DEF ResolveProfile

\* What FallBack makes of the snapshot of the job it holds.
LEMMA FallBackAdvances ==
    ASSUME WorkerAssumption, IInv, SnapshotInv, NEW p \in Procs, FallBack(p)
    PROVE  LET j == holding[p]
               advanced == Advance(payload[j], attempt[j]) IN
           /\ j \in Jobs
           /\ payload' = [payload EXCEPT ![j] = advanced]
           /\ Recorded(advanced, attempt[j])
           /\ advanced.chain = payload[j].chain
           /\ AtMostAsDemanding(Effective(advanced).profile, Effective(payload[j]).profile)
  <1>1. holding[p] \in Jobs /\ attempt[holding[p]] \in Nat
    BY ProcFacts DEF FallBack, Held, OwnTypeOK
  <1>2. pc[p] \in Executing /\ current[p] = payload[holding[p]]
    BY ProcFacts DEF FallBack, ProcInv, Executing
  <1>3. Recorded(payload[holding[p]], attempt[holding[p]])
    BY <1>2 DEF SnapshotInv
  <1>4. /\ HasFallback(payload[holding[p]])
        /\ payload' = [payload EXCEPT ![holding[p]] =
                          Advance(payload[holding[p]], attempt[holding[p]])]
    BY <1>2 DEF FallBack
  <1> QED BY <1>1, <1>3, <1>4, AdvancedRecorded

LEMMA FallBackSnapshot ==
    ASSUME WorkerAssumption, IInv, SnapshotInv, NEW p \in Procs, FallBack(p)
    PROVE  SnapshotInv'
  <1> DEFINE advanced == Advance(payload[holding[p]], attempt[holding[p]])
  <1>1. Recorded(advanced, attempt[holding[p]]) /\ payload' = [payload EXCEPT ![holding[p]] = advanced]
    BY FallBackAdvances
  <1>2. /\ pc[p] = "cleaned" /\ Move(p, "operation") /\ UNCHANGED <<job, attempt, holding>>
    BY DEF FallBack
  <1> HIDE DEF advanced
  <1> QED BY <1>1, <1>2, SnapshotWritten

\* A step of p between labels that leaves rows and memory alone.
LEMMA MoveKeeps ==
    ASSUME IInv, NEW p \in Procs, NEW label, Move(p, label), UNCHANGED <<rowVars, memoryVars>>,
           label \in Executing => pc[p] \in Executing
    PROVE  Keeps
  <1>1. \A j \in Jobs : attempt[j] \in Nat
    BY DEF IInv, OwnTypeOK
  <1> QED BY <1>1 DEF Move, rowVars, memoryVars, Keeps, IInv, OwnTypeOK

\* A step that ends what p does for its job.
LEMMA ForgetKeeps ==
    ASSUME IInv, NEW p \in Procs, Forget(p), NEW label \in {"top", "exited"}, Move(p, label),
           UNCHANGED <<payload, attempt>>, NEW j, NEW to \in JobStates \ {"absent"},
           job' \in {job, [job EXCEPT ![j] = to]}
    PROVE  Keeps
  <1>1. \A i \in Jobs : attempt[i] \in Nat /\ (job'[i] = "absent" => job[i] = "absent")
    BY DEF IInv, OwnTypeOK
  <1>2. ASSUME NEW q \in Procs, pc'[q] \in Executing
        PROVE  pc[q] \in Executing /\ holding'[q] = holding[q]
    BY <1>2 DEF Move, Forget, IInv, OwnTypeOK, Executing
  <1> QED BY <1>1, <1>2 DEF Keeps

LEMMA RequestKeeps ==
    ASSUME IInv, \/ \E j \in Jobs : RequestCancellation(j) \/ RetryJob(j)
                 \/ \E p \in Procs : Stop(p) \/ CancelTool(p)
    PROVE  Keeps
  <1>1. UNCHANGED <<pc, payload, attempt, holding>>
    BY DEF RequestCancellation, RetryJob, Stop, CancelTool, rowVars, memoryVars,
           Life!CancelQueued, Life!RequestCancel, Life!Retry
  <1>2. \A i \in Jobs : job'[i] = "absent" => job[i] = "absent"
    BY DEF RequestCancellation, RetryJob, Stop, CancelTool, rowVars, Life!CancelQueued,
           Life!RequestCancel, Life!Retry, Life!Move, IInv, OwnTypeOK
  <1>3. \A i \in Jobs : attempt[i] \in Nat
    BY DEF IInv, OwnTypeOK
  <1> QED BY <1>1, <1>2, <1>3 DEF Keeps

LEMMA LoopKeeps ==
    ASSUME IInv, NEW p \in Procs, Load(p) \/ Poll(p) \/ AcquireLock(p) \/ Admit(p)
    PROVE  Keeps
  <1>1. CASE Load(p) \/ Poll(p) \/ AcquireLock(p)
    <2> PICK label \in {"top", "exited", "locking", "admitting"} : Move(p, label)
      BY <1>1 DEF Load, Poll, AcquireLock, Exit
    <2> QED BY <1>1, MoveKeeps DEF Load, Poll, AcquireLock, Executing
  <1>2. CASE Admit(p)
    <2>1. UNCHANGED <<job, attempt, payload>>
      BY <1>2 DEF Admit, rowVars
    <2>2. CASE Return(p)
      BY <2>1, <2>2, ForgetKeeps DEF Return, JobStates
    <2>3. CASE Move(p, "claiming") /\ holding' = holding
      <3>1. \A q \in Procs : pc'[q] \in Executing => pc[q] \in Executing
        BY <2>3 DEF Move, Executing, IInv, OwnTypeOK
      <3>2. \A i \in Jobs : attempt[i] \in Nat
        BY DEF IInv, OwnTypeOK
      <3> QED BY <2>1, <2>3, <3>1, <3>2 DEF Keeps
    <2> QED BY <1>2, <2>2, <2>3 DEF Admit
  <1> QED BY <1>1, <1>2

LEMMA ClaimKeeps ==
    ASSUME IInv, NEW p \in Procs, Claim(p)
    PROVE  Keeps
  <1>1. CASE Return(p) /\ UNCHANGED <<job, attempt>>
    BY <1>1, ForgetKeeps DEF Claim, Return, JobStates
  <1>2. ASSUME NEW j \in Jobs, Life!Start(j), holding' = [holding EXCEPT ![p] = j],
               Move(p, "resolving")
        PROVE  Keeps
    <2>1. \A i \in Jobs : attempt[i] <= attempt'[i] /\ (job'[i] = "absent" => job[i] = "absent")
      BY <1>2 DEF Life!Start, Life!Move, IInv, OwnTypeOK
    <2>2. ASSUME NEW q \in Procs, pc'[q] \in Executing
          PROVE  pc[q] \in Executing /\ holding'[q] = holding[q]
      BY <1>2, <2>2 DEF Move, Executing, IInv, OwnTypeOK
    <2> QED BY <2>1, <2>2 DEF Keeps, Claim
  <1> QED BY <1>1, <1>2 DEF Claim

LEMMA ExecutionKeeps ==
    ASSUME WorkerAssumption, IInv, NEW p \in Procs,
           \/ Operate(p) \/ OperationEnds(p) \/ CleanUpMemory(p) \/ NoticeCancellation(p)
           \/ Fail(p) \/ Assemble(p) \/ AssemblyEnds(p)
    PROVE  Keeps
  <1>1. CASE OperationEnds(p) \/ AssemblyEnds(p)
    <2>1. pc[p] \in Executing
      BY <1>1 DEF OperationEnds, AssemblyEnds, Executing
    <2> QED BY <1>1, <2>1, MoveKeeps DEF OperationEnds, AssemblyEnds
  <1>2. CASE Operate(p) \/ CleanUpMemory(p) \/ NoticeCancellation(p) \/ Fail(p) \/ Assemble(p)
    <2> PICK label : /\ Move(p, label)
                     /\ label \in Executing => pc[p] \in Executing
      BY <1>2 DEF Operate, CleanUpMemory, NoticeCancellation, Fail, Assemble, Executing
    <2> QED BY <1>2, MoveKeeps DEF Operate, CleanUpMemory, NoticeCancellation, Fail, Assemble
  <1> QED BY <1>1, <1>2

LEMMA EndKeeps ==
    ASSUME WorkerAssumption, IInv, NEW p \in Procs, Finish(p) \/ Crash(p)
    PROVE  Keeps
  <1>1. CASE Finish(p)
    <2>1. PICK st \in Life!Settled : job' = [job EXCEPT ![holding[p]] = st] /\ UNCHANGED attempt
      BY <1>1 DEF Finish, Life!Succeed, Life!Fail, Life!Cancel, Life!Move, Life!Settled
    <2>2. st \in JobStates \ {"absent"}
      BY DEF JobStates, Life!Settled
    <2> QED BY <1>1, <2>1, <2>2, ForgetKeeps DEF Finish, Return
  <1>2. CASE Crash(p)
    BY <1>2, ForgetKeeps DEF Crash, Exit, rowVars, JobStates
  <1> QED BY <1>1, <1>2

LEMMA CallKeeps ==
    ASSUME IInv, UNCHANGED <<pc, rowVars, memoryVars>>
    PROVE  Keeps
  <1>1. \A i \in Jobs : attempt[i] \in Nat
    BY DEF IInv, OwnTypeOK
  <1> QED BY <1>1 DEF Keeps, rowVars, memoryVars

\* Which steps write a snapshot.
LEMMA NextWrites ==
    ASSUME WorkerAssumption, IInv, [Next]_vars
    PROVE  \/ Keeps
           \/ \E j \in Jobs : Submit(j)
           \/ \E p \in Procs : ResolveProfile(p) \/ FallBack(p)
  <1>1. CASE Request
    <2>1. ASSUME NEW j \in Jobs, RequestCancellation(j) \/ RetryJob(j) PROVE Keeps
      BY <2>1, RequestKeeps
    <2>2. ASSUME NEW p \in Procs, Stop(p) \/ CancelTool(p) PROVE Keeps
      BY <2>2, RequestKeeps
    <2> QED BY <1>1, <2>1, <2>2 DEF Request
  <1>2. ASSUME NEW p \in Procs, Work(p) PROVE Keeps \/ ResolveProfile(p) \/ FallBack(p)
    BY <1>2, LoopKeeps, ClaimKeeps, ExecutionKeeps, EndKeeps DEF Work
  <1>3. ASSUME NEW p \in Procs, AcquireLock(p) \/ Crash(p) \/ UseTool(p) \/ Call(p) PROVE Keeps
    <2>1. CASE AcquireLock(p) \/ Crash(p)
      BY <2>1, LoopKeeps, EndKeeps
    <2>2. CASE UseTool(p) \/ Call(p)
      BY <2>2, CallKeeps DEF UseTool, Call
    <2> QED BY <1>3, <2>1, <2>2
  <1>4. CASE UNCHANGED vars
    BY <1>4, CallKeeps DEF vars
  <1> QED BY <1>1, <1>2, <1>3, <1>4 DEF Next

LEMMA SnapshotStep ==
    ASSUME WorkerAssumption, IInv, IInv', SnapshotInv, [Next]_vars
    PROVE  SnapshotInv'
  BY NextWrites, SnapshotsKept, SubmitSnapshot, ResolveProfileSnapshot, FallBackSnapshot

THEOREM SnapshotInvariance ==
    ASSUME WorkerAssumption, CallerAssumption PROVE Spec => []SnapshotInv
  <1>1. Init => SnapshotInv
    <2> SUFFICES ASSUME Init PROVE SnapshotInv
      OBVIOUS
    <2>1. ASSUME NEW p \in Procs PROVE pc[p] \notin Executing
      BY DEF Init, Executing
    <2> QED BY <2>1 DEF Init, SnapshotInv
  <1>2. IInv /\ IInv' /\ SnapshotInv /\ [Next]_vars => SnapshotInv'
    BY SnapshotStep
  <1> QED BY <1>1, <1>2, Invariance, PTL DEF Spec

\* The snapshot of a job can be loaded again by the next attempt, whatever was
\* interrupted, and its records tell the attempts in their order.
THEOREM SnapshotsLoad ==
    ASSUME WorkerAssumption, CallerAssumption PROVE Spec => []SnapshotsLoadable
  <1>1. SnapshotInv => SnapshotsLoadable
    BY DEF SnapshotInv, SnapshotsLoadable, Recorded
  <1> QED BY <1>1, SnapshotInvariance, PTL

\* The chain captured with a job never changes and its effective profile never
\* becomes more demanding: only FallBack moves along the chain, and by one profile.
THEOREM NeverDemandsMore ==
    ASSUME WorkerAssumption, CallerAssumption PROVE Spec => NeverMoreDemanding
  <1>1. ASSUME IInv, SnapshotInv, [Next]_vars, NEW j \in Jobs, payload[j] # NoSnapshot
        PROVE  /\ payload'[j].chain = payload[j].chain
               /\ AtMostAsDemanding(Effective(payload'[j]).profile, Effective(payload[j]).profile)
    <2>1. Recorded(payload[j], attempt[j])
      BY <1>1 DEF SnapshotInv
    <2>2. AtMostAsDemanding(Effective(payload[j]).profile, Effective(payload[j]).profile)
      <3>1. Figures(Effective(payload[j]).profile) \subseteq Nat
        BY <2>1 DEF Recorded, Captured, ValidSnapshot, Effective
      <3> QED BY <3>1, DemandingOrder
    <2>3. CASE payload'[j] = payload[j]
      BY <2>2, <2>3
    <2>4. ASSUME NEW i \in Jobs, Submit(i) PROVE payload'[j] = payload[j]
      <3>1. j # i
        BY <1>1, <2>4 DEF SnapshotInv, Submit, Life!Submit, Life!Move
      <3> QED BY <1>1, <2>4, <3>1 DEF Submit, IInv, OwnTypeOK
    <2>5. ASSUME NEW p \in Procs, ResolveProfile(p) PROVE payload'[j] = payload[j]
      BY <1>1, <2>5 DEF ResolveProfile, Snapshots, IInv, OwnTypeOK
    <2>6. ASSUME NEW p \in Procs, FallBack(p), payload'[j] # payload[j]
          PROVE  /\ payload'[j].chain = payload[j].chain
                 /\ AtMostAsDemanding(Effective(payload'[j]).profile, Effective(payload[j]).profile)
      <3> DEFINE advanced == Advance(payload[j], attempt[j])
      <3>1. j = holding[p]
        BY <1>1, <2>6, FallBackAdvances DEF IInv, OwnTypeOK
      <3>2. /\ payload' = [payload EXCEPT ![j] = advanced]
            /\ advanced.chain = payload[j].chain
            /\ AtMostAsDemanding(Effective(advanced).profile, Effective(payload[j]).profile)
        BY <1>1, <2>6, <3>1, FallBackAdvances
      <3> HIDE DEF advanced
      <3>3. payload'[j] = advanced
        BY <1>1, <3>2 DEF IInv, OwnTypeOK
      <3> QED BY <3>2, <3>3
    <2> QED BY <1>1, <2>3, <2>4, <2>5, <2>6, NextWrites DEF Keeps
  <1>2. IInv /\ SnapshotInv /\ [Next]_vars =>
            [\A j \in Jobs : payload[j] # NoSnapshot =>
                /\ payload'[j].chain = payload[j].chain
                /\ AtMostAsDemanding(Effective(payload'[j]).profile,
                                     Effective(payload[j]).profile)]_vars
    BY <1>1
  <1> QED BY <1>2, Invariance, SnapshotInvariance, PTL DEF Spec, NeverMoreDemanding

-----------------------------------------------------------------------------
(* The end of an execution *)

\* Where a process can go from a label at which it executes a job, but by FallBack.
Onward == [operation |-> {"operating", "cancelling", "failing"},
           operating |-> {"oom", "assembly", "cancelling", "failing"},
           oom |-> {"cleaned", "cancelling", "failing"},
           cleaned |-> {"cancelling", "failing"},
           assembly |-> {"assembling", "cancelling", "failing"},
           assembling |-> {"completing", "cancelling", "failing"},
           completing |-> {"failing"}]

LEMMA OnwardDescends ==
    ASSUME NEW label \in Executing, NEW to \in Onward[label]
    PROVE  MovesLeft[label] \in 0 .. 7 /\ MovesLeft[to] \in 0 .. 7 /\ MovesLeft[to] < MovesLeft[label]
  BY DEF Executing, Onward, MovesLeft

\* The labels of a process change in steps of its own only.
LEMMA OwnMoves ==
    ASSUME WorkerAssumption, IInv, [Next]_vars, NEW p \in Procs, pc'[p] # pc[p]
    PROVE  Work(p) \/ AcquireLock(p) \/ Crash(p)
  <1>1. UNCHANGED pc \/ \E q \in Procs : Work(q) \/ AcquireLock(q) \/ Crash(q)
    BY DEF Next, Request, Submit, RequestCancellation, RetryJob, Stop, CancelTool, UseTool, Call, vars
  <1>2. ASSUME NEW q \in Procs, Work(q) \/ AcquireLock(q) \/ Crash(q)
        PROVE  \E label : Move(q, label)
    BY <1>2 DEF Work, Load, Poll, Exit, Admit, Return, Claim, ResolveProfile, Operate, OperationEnds,
                CleanUpMemory, FallBack, NoticeCancellation, Fail, Assemble, AssemblyEnds, Finish,
                AcquireLock, Crash
  <1>3. ASSUME NEW q \in Procs, q # p, NEW label, Move(q, label) PROVE pc'[p] = pc[p]
    BY <1>3 DEF Move, IInv, OwnTypeOK
  <1> QED BY <1>1, <1>2, <1>3

\* Where the steps of a process lead that leave what it executes alone.
LEMMA MovesOnward ==
    ASSUME WorkerAssumption, IInv, NEW p \in Procs,
           Work(p) \/ AcquireLock(p) \/ Crash(p), ~ FallBack(p),
           pc[p] \in Executing, pc'[p] \in DOMAIN MovesLeft
    PROVE  pc'[p] \in Onward[pc[p]] /\ current' = current
  <1> USE DEF Move, Executing, Onward
  <1>1. \A label : Move(p, label) => pc'[p] = label
    BY DEF IInv, OwnTypeOK
  <1>2. CASE Load(p) \/ Poll(p) \/ AcquireLock(p) \/ Admit(p) \/ Claim(p) \/ ResolveProfile(p)
    BY <1>2 DEF Load, Poll, AcquireLock, Admit, Claim, ResolveProfile
  <1>3. CASE Operate(p) \/ CleanUpMemory(p) \/ NoticeCancellation(p) \/ Fail(p) \/ Assemble(p)
    BY <1>1, <1>3 DEF Operate, CleanUpMemory, NoticeCancellation, Fail, Assemble, memoryVars
  <1>4. CASE OperationEnds(p)
    <2>1. pc[p] = "operating" /\ step[p] = "returned"
      BY <1>4 DEF OperationEnds, At
    <2>2. outcome[p] \in {"ok", "cancelled", "oom", "failed"}
      BY <2>1, ProcFacts DEF CallInv, CallTypeOK
    <2>3. AfterOperation[outcome[p]] \in {"assembly", "oom", "cancelling", "failing"}
      BY <2>2 DEF AfterOperation
    <2>4. pc'[p] = AfterOperation[outcome[p]] /\ current' = current
      BY <1>1, <1>4 DEF OperationEnds, memoryVars
    <2>5. Onward[pc[p]] = {"oom", "assembly", "cancelling", "failing"}
      BY <2>1
    <2> QED BY <2>3, <2>4, <2>5
  <1>5. CASE AssemblyEnds(p)
    <2>1. pc[p] = "assembling" /\ step[p] = "returned"
      BY <1>5 DEF AssemblyEnds, At
    <2>2. kind[p] = "assembly"
      BY <2>1, ProcFacts DEF ProcInv
    <2>3. outcome[p] \in {"ok", "cancelled", "failed"}
      BY <2>1, <2>2, ProcFacts DEF CallInv, CallTypeOK
    <2>4. AfterAssembly[outcome[p]] \in {"completing", "cancelling", "failing"}
      BY <2>3 DEF AfterAssembly
    <2>5. pc'[p] = AfterAssembly[outcome[p]] /\ current' = current
      BY <1>1, <1>5 DEF AssemblyEnds, memoryVars
    <2>6. Onward[pc[p]] = {"completing", "cancelling", "failing"}
      BY <2>1
    <2> QED BY <2>4, <2>5, <2>6
  <1>6. CASE Finish(p) \/ Crash(p)
    <2>1. pc'[p] \in {"top", "exited"}
      BY <1>1, <1>6 DEF Finish, Return, Crash, Exit
    <2> QED BY <2>1 DEF MovesLeft
  <1> QED BY <1>2, <1>3, <1>4, <1>5, <1>6 DEF Work

\* From the last two labels of an execution there is no way but out of it.
LEMMA LastMoves ==
    ASSUME WorkerAssumption, IInv, NEW p \in Procs,
           Work(p) \/ AcquireLock(p) \/ Crash(p), pc[p] \in {"cancelling", "failing"}
    PROVE  pc'[p] \in {"top", "exited"}
  BY DEF Work, Load, Poll, Admit, Claim, ResolveProfile, Operate, OperationEnds, CleanUpMemory,
         FallBack, NoticeCancellation, Fail, Assemble, AssemblyEnds, Finish, AcquireLock, Crash,
         Return, Exit, Move, IInv, OwnTypeOK

\* A process that executes a job leaves its label with every step of its own code.
LEMMA MovesAway ==
    ASSUME WorkerAssumption, IInv, NEW p \in Procs,
           Work(p) \/ AcquireLock(p) \/ Crash(p), pc[p] \in DOMAIN MovesLeft
    PROVE  pc'[p] # pc[p]
  <1>1. CASE pc[p] \in {"cancelling", "failing"}
    BY <1>1, LastMoves
  <1>2. CASE FallBack(p)
    BY <1>2 DEF FallBack, Move, IInv, OwnTypeOK
  <1>3. CASE pc[p] \in Executing /\ ~ FallBack(p)
    <2>1. SUFFICES ASSUME pc'[p] = pc[p] PROVE FALSE
      OBVIOUS
    <2>2. pc'[p] \in Onward[pc[p]]
      BY <1>3, <2>1, MovesOnward
    <2> QED BY <1>3, <2>1, <2>2, OnwardDescends
  <1>4. pc[p] \in Executing \cup {"cancelling", "failing"}
    BY DEF MovesLeft, Executing
  <1> QED BY <1>1, <1>2, <1>3, <1>4

\* The stage of the call of q is changed by q only.
LEMMA OwnCall ==
    ASSUME WorkerAssumption, CallerAssumption, IInv, [Next]_vars, NEW q \in Procs, Stage(q)' # Stage(q)
    PROVE  Work(q) \/ AcquireLock(q) \/ Crash(q) \/ UseTool(q) \/ CallStep(q)
  <1> USE DEF Stage
  <1>1. \/ UNCHANGED <<command, step, child>>
        \/ \E p \in Procs : Work(p) \/ AcquireLock(p) \/ Crash(p) \/ UseTool(p) \/ Call(p)
    BY DEF Next, Request, Submit, RequestCancellation, RetryJob, Stop, CancelTool, KeepCall, vars, callVars
  <1>2. PICK p \in Procs : Work(p) \/ AcquireLock(p) \/ Crash(p) \/ UseTool(p) \/ Call(p)
    BY <1>1
  <1>3. CASE p = q
    BY <1>2, <1>3 DEF Call
  <1>4. CASE p # q
    <2>1. DOMAIN command = Procs /\ DOMAIN step = Procs /\ DOMAIN child = Procs
      BY ProcFacts DEF CallTypeOK, WorkerAssumption
    <2>2. CASE Call(p)
      <3>1. Same(q)
        BY <1>4, <2>2, CallStepInv, OthersSame, ProcFacts DEF Call
      <3> QED BY <3>1 DEF Same
    <2>3. CASE \E k : Begin(p, k)
      BY <1>4, <2>1, <2>3 DEF Begin, Raise, Goto
    <2>4. CASE Dismiss(p) /\ (UNCHANGED child \/ child' = [child EXCEPT ![p] = "none"])
      BY <1>4, <2>1, <2>4 DEF Dismiss, Goto
    <2>5. CASE UNCHANGED <<command, step, child>>
      BY <2>5
    <2>6. CASE Work(p)
      <3>1. CASE Load(p) \/ Poll(p) \/ ResolveProfile(p) \/ OperationEnds(p) \/ CleanUpMemory(p)
                 \/ FallBack(p) \/ NoticeCancellation(p) \/ Fail(p) \/ AssemblyEnds(p)
        BY <2>5, <3>1 DEF Load, Poll, ResolveProfile, OperationEnds, CleanUpMemory, FallBack,
           NoticeCancellation, Fail, AssemblyEnds, KeepCall, callVars
      <3>2. CASE Admit(p) \/ Claim(p) \/ Finish(p)
        BY <2>4, <2>5, <3>2 DEF Admit, Claim, Finish, Return, Forget, KeepCall, callVars
      <3>3. CASE Operate(p) \/ Assemble(p)
        BY <2>3, <3>3 DEF Operate, Assemble
      <3> QED BY <2>6, <3>1, <3>2, <3>3 DEF Work
    <2>7. CASE AcquireLock(p) \/ Crash(p) \/ UseTool(p)
      BY <2>3, <2>4, <2>5, <2>7 DEF AcquireLock, Crash, UseTool, Forget, KeepCall, callVars
    <2> QED BY <1>2, <2>2, <2>6, <2>7
  <1> QED BY <1>3, <1>4

\* An execution tries no profile twice and ends.
THEOREM EveryExecutionEnds ==
    ASSUME WorkerAssumption, CallerAssumption PROVE Spec => ExecutionEnds
  <1>1. ASSUME IInv, SnapshotInv, [Next]_vars, NEW p \in Procs,
               pc[p] \in DOMAIN MovesLeft, pc'[p] \in DOMAIN MovesLeft, pc'[p] # pc[p]
        PROVE  WorkLeft(p)' < WorkLeft(p)
    <2>1. Work(p) \/ AcquireLock(p) \/ Crash(p)
      BY <1>1, OwnMoves
    <2>2. pc[p] \in Executing
      <3>1. pc[p] \in {"cancelling", "failing"} => pc'[p] \in {"top", "exited"}
        BY <1>1, <2>1, LastMoves
      <3>2. pc[p] \in Executing \cup {"cancelling", "failing"}
        BY <1>1 DEF MovesLeft, Executing
      <3> QED BY <1>1, <3>1, <3>2 DEF MovesLeft
    <2>3. /\ current[p] = payload[holding[p]]
          /\ Recorded(payload[holding[p]], attempt[holding[p]])
      BY <1>1, <2>2, ProcFacts DEF ProcInv, SnapshotInv
    <2> DEFINE left == Len(current[p].chain) - current[p].effective
    <2>4. left \in Int
      <3>1. Len(current[p].chain) \in Nat /\ current[p].effective \in 1 .. Len(current[p].chain)
        BY <2>3 DEF Recorded, Captured, ValidSnapshot
      <3> QED BY <3>1
    <2>5. CASE FallBack(p)
      <3> DEFINE advanced == Advance(current[p], attempt[holding[p]])
      <3>1. pc[p] = "cleaned" /\ pc'[p] = "operation" /\ current'[p] = advanced
        BY <1>1, <2>5 DEF FallBack, Move, IInv, OwnTypeOK
      <3>2. advanced.chain = current[p].chain /\ advanced.effective = current[p].effective + 1
        BY <2>3 DEF Advance, Recorded
      <3> HIDE DEF advanced
      <3>3. WorkLeft(p) = 8 * left + 4
        BY <3>1 DEF WorkLeft, MovesLeft
      <3>4. WorkLeft(p)' = 8 * (Len(advanced.chain) - advanced.effective) + 7
        BY <3>1 DEF WorkLeft, MovesLeft
      <3>5. Len(advanced.chain) - advanced.effective = left - 1
        <4>1. Len(current[p].chain) \in Nat /\ current[p].effective \in 1 .. Len(current[p].chain)
          BY <2>3 DEF Recorded, Captured, ValidSnapshot
        <4> QED BY <3>2, <4>1
      <3> HIDE DEF left
      <3> QED BY <2>4, <3>3, <3>4, <3>5
    <2>6. CASE ~ FallBack(p)
      <3>1. pc'[p] \in Onward[pc[p]] /\ current' = current
        BY <1>1, <2>1, <2>2, <2>6, MovesOnward
      <3>2. WorkLeft(p)' = 8 * left + MovesLeft[pc'[p]] /\ WorkLeft(p) = 8 * left + MovesLeft[pc[p]]
        BY <3>1 DEF WorkLeft
      <3> HIDE DEF left
      <3> QED BY <2>2, <2>4, <3>1, <3>2, OnwardDescends
    <2> QED BY <2>5, <2>6
  <1>2. ASSUME IInv, [Next]_vars, NEW p \in Procs,
               pc[p] \in DOMAIN MovesLeft, pc'[p] = pc[p], Stage(p)' # Stage(p)
        PROVE  CallLeft(p)' < CallLeft(p)
    <2>1. ~ (Work(p) \/ AcquireLock(p) \/ Crash(p))
      BY <1>2, MovesAway
    <2>2. ~ UseTool(p)
      BY <1>2 DEF UseTool, MovesLeft
    <2>3. CallStep(p)
      BY <1>2, <2>1, <2>2, OwnCall
    <2> QED BY <1>2, <2>3, ProcFacts, CallStepDescends
  <1>3. IInv /\ SnapshotInv /\ [Next]_vars =>
            [\A p \in Procs : pc[p] \in DOMAIN MovesLeft =>
                 /\ pc'[p] # pc[p] /\ pc'[p] \in DOMAIN MovesLeft => WorkLeft(p)' < WorkLeft(p)
                 /\ pc'[p] = pc[p] /\ Stage(p)' # Stage(p) => CallLeft(p)' < CallLeft(p)]_vars
    BY <1>1, <1>2
  <1> QED BY <1>3, Invariance, SnapshotInvariance, PTL DEF Spec, ExecutionEnds

\* Types of the variables (columns, locals of process_next, files).
THEOREM TypeCorrect == ASSUME WorkerAssumption, CallerAssumption PROVE Spec => []TypeOK
  <1>1. IInv => TypeOK
    BY DEF IInv, OwnTypeOK, TypeOK
  <1> QED BY <1>1, Invariance, PTL

\* A claimed job and a child process belong to the worker that holds the lock of
\* the device, after a probe of this very device under this lock.
THEOREM DeviceIsOwned == ASSUME WorkerAssumption, CallerAssumption PROVE Spec => []DeviceOwned
  <1>1. ASSUME IInv, NEW p \in Procs, role[p] = "worker", ~Gone(p),
               holding[p] # NoJob \/ child[p] # "none"
        PROVE  lock = p /\ Device \in DOMAIN probed[p] /\ probed[p][Device] >= MinimumFree
    <2>1. ProcInv(p) /\ pc[p] \in PCs
      BY <1>1 DEF IInv, OwnTypeOK
    <2>2. child[p] # "none" => step[p] \notin {"idle", "returned"}
      BY <1>1 DEF IInv, CallsInv, CallInv, WorkerAssumption
    <2>3. pc[p] \in Held
      BY <1>1, <2>1, <2>2 DEF ProcInv, Held
    <2> QED BY <2>1, <2>3 DEF ProcInv, Admits, Owning
  <1>2. IInv => DeviceOwned
    BY <1>1 DEF DeviceOwned
  <1> QED BY <1>2, Invariance, PTL

\* A process executes at the profile the database records for its job.
THEOREM ExecutionsRecorded ==
    ASSUME WorkerAssumption, CallerAssumption PROVE Spec => []ExecutedAsRecorded
  <1>1. IInv => ExecutedAsRecorded
    BY DEF IInv, ProcInv, ExecutedAsRecorded, Executing
  <1> QED BY <1>1, Invariance, PTL

\* A call that is over has reaped its child, and a finalization has removed its
\* partial file and its copy of the subtitles.
THEOREM NothingIsLeft == ASSUME WorkerAssumption, CallerAssumption PROVE Spec => []NothingLeft
  <1>1. IInv => NothingLeft
    BY CallsProperties DEF IInv
  <1> QED BY <1>1, Invariance, PTL

\* What is published is complete.
THEOREM OutputIsWhole == ASSUME WorkerAssumption, CallerAssumption PROVE Spec => []OutputWhole
  <1>1. IInv => OutputWhole
    BY CallsProperties DEF IInv
  <1> QED BY <1>1, Invariance, PTL

\* A finalization keeps what it published unless two publications raced.
THEOREM OutputIsKept == ASSUME WorkerAssumption, CallerAssumption PROVE Spec => []OutputKept
  <1>1. IInv => OutputKept
    BY CallsProperties DEF IInv
  <1> QED BY <1>1, Invariance, PTL

\* A call that was asked to cancel before its last check publishes nothing.
THEOREM CancelledStaysUnpublished ==
    ASSUME WorkerAssumption, CallerAssumption PROVE Spec => []CancelledUnpublished
  <1>1. IInv => CancelledUnpublished
    BY CallsProperties DEF IInv
  <1> QED BY <1>1, Invariance, PTL
=============================================================================
