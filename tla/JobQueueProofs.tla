--------------------------- MODULE JobQueueProofs ---------------------------
(***************************************************************************)
(* Proofs about JobQueue for every set of jobs, processes and clients.     *)
(***************************************************************************)
EXTENDS JobQueue, FiniteSetTheorems, TLAPS

LEMMA InitTyped == Init => TypeOK
  BY JobQueueAssumption
  DEF Init, TypeOK, NewJob, JobRecord, JobStates, Active, Terminal, PCs, Live, Booting, Looping,
      Executing

\* Every UPDATE of a jobs row writes a well-typed row.
LEMMA RowsTyped ==
    ASSUME TypeOK, NEW j \in Jobs
    PROVE  /\ SubmittedRow(j) \in JobRecord
           /\ CancelRequestedRow(j) \in JobRecord
           /\ CancelledRow(j) \in JobRecord
           /\ \A r \in JobRecord : RetriedRow(j, r) \in JobRecord
           /\ ClaimedRow(j) \in JobRecord
           /\ SucceededRow(j) \in JobRecord
           /\ FailedRow(j) \in JobRecord
<1> USE DEF JobRecord, JobStates, Active, Terminal
<1>1. job[j] \in JobRecord /\ clock \in Nat
  BY DEF TypeOK
<1>2. SubmittedRow(j) \in JobRecord
  BY <1>1 DEF SubmittedRow
<1>3. CancelRequestedRow(j) \in JobRecord /\ CancelledRow(j) \in JobRecord
  BY <1>1 DEF CancelRequestedRow, CancelledRow
<1>4. ASSUME NEW r \in JobRecord PROVE RetriedRow(j, r) \in JobRecord
  <2>1. CASE job[j].state = "deleted"
    BY <1>1, <2>1 DEF RetriedRow
  <2>2. CASE job[j].state # "deleted"
    <3>1. /\ (IF r.completed THEN FALSE ELSE job[j].completed) \in BOOLEAN
          /\ (IF r.error THEN FALSE ELSE job[j].error) \in BOOLEAN
      BY <1>1
    <3>2. QED
      BY <1>1, <2>2, <3>1 DEF RetriedRow
  <2>3. QED
    BY <2>1, <2>2
<1>5. ClaimedRow(j) \in JobRecord
  <2>1. job[j].attempt + 1 \in Nat
    BY <1>1
  <2>2. QED
    BY <1>1, <2>1 DEF ClaimedRow
<1>6. SucceededRow(j) \in JobRecord /\ FailedRow(j) \in JobRecord
  BY <1>1 DEF SucceededRow, FailedRow
<1>7. QED
  BY <1>2, <1>3, <1>4, <1>5, <1>6

\* Every request and every process step preserves the types.
LEMMA NextTyped == TypeOK /\ [Next]_vars => TypeOK'
<1> SUFFICES ASSUME TypeOK, [Next]_vars PROVE TypeOK'
  OBVIOUS
<1> USE JobQueueAssumption DEF JobQueueAssumption, TypeOK, PCs, Live, Booting, Looping,
        Executing, reqVars, procVars, Goto, Release, Die
<1>1. ASSUME NEW j \in Jobs, Submit(j) PROVE TypeOK'
  BY <1>1, RowsTyped DEF Submit
<1>2. ASSUME NEW j \in Jobs, RequestCancellation(j) PROVE TypeOK'
  BY <1>2, RowsTyped DEF RequestCancellation
<1>3. ASSUME NEW c \in Clients, NEW j \in Jobs, RetryLoad(c, j) PROVE TypeOK'
  BY <1>3 DEF RetryLoad
<1>4. ASSUME NEW c \in Clients, RetryCommit(c) PROVE TypeOK'
  <2>1. retrying[c] \in Jobs
    BY <1>4 DEF RetryCommit
  <2>2. RetriedRow(retrying[c], copy[c]) \in JobRecord
    BY <2>1, RowsTyped
  <2>3. NewJob \in JobRecord
    BY DEF NewJob, JobRecord, JobStates
  <2>4. job' \in [Jobs -> JobRecord] /\ overwritten' \in [Jobs -> BOOLEAN]
    BY <1>4, <2>1, <2>2 DEF RetryCommit
  <2>5. QED
    BY <1>4, <2>3, <2>4 DEF RetryCommit
<1>5. ASSUME NEW q \in Projects, DeleteProject(q) PROVE TypeOK'
  <2>1. \A j \in Jobs : [job[j] EXCEPT !.state = "deleted"] \in JobRecord
    BY DEF JobRecord, JobStates
  <2>2. job' \in [Jobs -> JobRecord]
    BY <1>5, <2>1 DEF DeleteProject
  <2>3. QED
    BY <1>5, <2>2 DEF DeleteProject
<1>6. ASSUME NEW p \in Procs, Boot(p) PROVE TypeOK'
  BY <1>6 DEF Boot
<1>7. ASSUME NEW p \in Procs, LoseGeneration(p) \/ Signal(p) \/ Crash(p) PROVE TypeOK'
  BY <1>7 DEF LoseGeneration, Signal, Crash
<1>8. ASSUME NEW p \in Procs, InsertRow(p) PROVE TypeOK'
  BY <1>8 DEF InsertRow
<1>9. ASSUME NEW p \in Procs, VerifyRow(p) \/ LoopTop(p) PROVE TypeOK'
  BY <1>9 DEF VerifyRow, LoopTop
<1>10. ASSUME NEW p \in Procs, ClaimNext(p) PROVE TypeOK'
  BY <1>10, RowsTyped DEF ClaimNext, Candidates
<1>11. ASSUME NEW p \in Procs, ClaimNothing(p) \/ NoticeCancel(p) \/ PipelineEnds(p)
       PROVE  TypeOK'
  BY <1>11 DEF ClaimNothing, NoticeCancel, PipelineEnds
<1>12. ASSUME NEW p \in Procs, MarkSucceeded(p) PROVE TypeOK'
  BY <1>12, RowsTyped DEF MarkSucceeded
<1>13. ASSUME NEW p \in Procs, MarkCancelled(p) PROVE TypeOK'
  BY <1>13, RowsTyped DEF MarkCancelled
<1>14. ASSUME NEW p \in Procs, MarkFailed(p) PROVE TypeOK'
  <2>1. job' \in [Jobs -> JobRecord]
    BY <1>14, RowsTyped DEF MarkFailed
  <2>2. /\ running' \in [Procs -> Jobs \cup {NoJob}]
        /\ pc' \in [Procs -> PCs]
    BY <1>14 DEF MarkFailed
  <2>3. QED
    BY <1>14, <2>1, <2>2 DEF MarkFailed
<1>15. CASE UNCHANGED vars
  BY <1>15 DEF vars
<1>16. QED
  BY <1>1, <1>2, <1>3, <1>4, <1>5, <1>6, <1>7, <1>8, <1>9, <1>10, <1>11, <1>12, <1>13, <1>14,
     <1>15
  DEF Next, Request, Process, Advance

\* Every behaviour keeps every variable of the queue within its type.
THEOREM TypeCorrect == Spec => []TypeOK
<1>1. QED
  BY InitTyped, NextTyped, PTL DEF Spec

-----------------------------------------------------------------------------
(***************************************************************************)
(* The safety of the queue.  The process steps fall into two kinds besides *)
(* the claim: those that touch no job and keep every process on its side   *)
(* of Executing, and those by which a process lets go of its job.  A retry *)
(* that finds its copy in the row, or no row, keeps every promise; one     *)
(* that changes another row marks the job in overwritten, where only the   *)
(* unconditional promises have to hold: an active job is held, the         *)
(* attempts stay within what the copies in the hands of the clients permit *)
(* and the record shows the outcome.                                       *)
(***************************************************************************)
Held == Executing \cup {"crashed"}

QuietStep ==
    /\ UNCHANGED <<job, reqVars, running>>
    /\ \A p \in Procs : /\ pc'[p] \in Executing => pc[p] \in Executing
                        /\ pc[p] \in Held => pc'[p] \in Held

LetGo(p) ==
    /\ UNCHANGED reqVars
    /\ pc[p] \in Executing
    /\ pc' = [pc EXCEPT ![p] = "top"] \/ pc' = [pc EXCEPT ![p] = "exited"]
    /\ running' = [running EXCEPT ![p] = NoJob]
    /\ LET j == running[p] IN
       \/ job[j].state \notin Active /\ job' = job
       \/ job[j].state = "running" /\ job' = [job EXCEPT ![j] = SucceededRow(j)]
       \/ job[j].state = "running" /\ job' = [job EXCEPT ![j] = FailedRow(j)]
       \/ job[j].state \in Active /\ job' = [job EXCEPT ![j] = CancelledRow(j)]

\* Every step is a request, a claim, a process letting go of its job, or quiet.
LEMMA StepKinds ==
    ASSUME TypeOK, [Next]_vars
    PROVE  \/ \E j \in Jobs : Submit(j) \/ RequestCancellation(j)
           \/ \E c \in Clients : RetryCommit(c) \/ \E j \in Jobs : RetryLoad(c, j)
           \/ \E q \in Projects : DeleteProject(q)
           \/ \E p \in Procs : ClaimNext(p) \/ LetGo(p)
           \/ QuietStep
<1> USE DEF PCs, Live, Looping, Booting, Executing, Held, Goto, reqVars, procVars
<1>t. pc \in [Procs -> PCs]
  BY DEF TypeOK
<1>1. ASSUME NEW p \in Procs, Boot(p) PROVE QuietStep
  BY <1>1, <1>t DEF Boot, QuietStep
<1>2. ASSUME NEW p \in Procs, LoseGeneration(p) \/ Signal(p) PROVE QuietStep
  BY <1>2, <1>t DEF LoseGeneration, Signal, QuietStep
<1>3. ASSUME NEW p \in Procs, Crash(p) PROVE QuietStep
  BY <1>3, <1>t DEF Crash, QuietStep
<1>4. ASSUME NEW p \in Procs, InsertRow(p) PROVE QuietStep
  BY <1>4, <1>t DEF InsertRow, QuietStep
<1>5. ASSUME NEW p \in Procs, VerifyRow(p) \/ LoopTop(p) PROVE QuietStep
  BY <1>5, <1>t DEF VerifyRow, LoopTop, QuietStep
<1>6. ASSUME NEW p \in Procs, ClaimNothing(p) \/ NoticeCancel(p) \/ PipelineEnds(p)
      PROVE QuietStep
  BY <1>6, <1>t DEF ClaimNothing, NoticeCancel, PipelineEnds, QuietStep
<1>7. ASSUME NEW p \in Procs, MarkSucceeded(p) PROVE LetGo(p) \/ QuietStep
  <2> DEFINE j == running[p]
  <2>1. CASE job[j].state \in {"running", "succeeded"}
    <3>1. LetGo(p)
      BY <1>7, <2>1, <1>t DEF MarkSucceeded, Release, LetGo, Active
    <3>2. QED
      BY <3>1
  <2>2. CASE job[j].state \notin {"running", "succeeded"}
    <3>1. QuietStep
      BY <1>7, <2>2, <1>t DEF MarkSucceeded, QuietStep
    <3>2. QED
      BY <3>1
  <2>3. QED
    BY <2>1, <2>2
<1>8. ASSUME NEW p \in Procs, MarkCancelled(p) PROVE LetGo(p)
  BY <1>8, <1>t DEF MarkCancelled, Release, Die, LetGo
<1>9. ASSUME NEW p \in Procs, MarkFailed(p) PROVE LetGo(p) \/ QuietStep
  BY <1>9, <1>t DEF MarkFailed, Release, Die, QuietStep, LetGo
<1>10. CASE UNCHANGED vars
  BY <1>10 DEF vars, QuietStep
<1>11. QED
  BY <1>1, <1>2, <1>3, <1>4, <1>5, <1>6, <1>7, <1>8, <1>9, <1>10
  DEF Next, Request, Process, Advance

\* What the UPDATEs write into the state column.
LEMMA RowStates ==
    ASSUME TypeOK, NEW j \in Jobs
    PROVE  /\ SubmittedRow(j).state = "queued"
           /\ CancelRequestedRow(j).state = "cancel_requested"
           /\ CancelledRow(j).state = "cancelled"
           /\ ClaimedRow(j).state = "running"
           /\ SucceededRow(j).state = "succeeded"
           /\ FailedRow(j).state = "failed"
<1>1. job[j] \in JobRecord
  BY DEF TypeOK
<1>2. QED
  BY <1>1 DEF JobRecord, SubmittedRow, CancelRequestedRow, CancelledRow, ClaimedRow, SucceededRow,
     FailedRow

LEMMA InitConsistent == Init => Consistent
<1> SUFFICES ASSUME Init PROVE Consistent
  OBVIOUS
<1>1. HolderExecutes /\ HolderUnique /\ HeldIsActive
  BY JobQueueAssumption
  DEF JobQueueAssumption, Init, HolderExecutes, HolderUnique, HeldIsActive, Executing
<1>2. CopyAccepted
  BY JobQueueAssumption DEF JobQueueAssumption, Init, CopyAccepted
<1>3. ActiveJobHeld /\ RecordMatchesState
  BY DEF Init, NewJob, ActiveJobHeld, RecordMatchesState, RowShowsOutcome, RowOfOneAttempt, Active,
     Terminal
<1>4. AttemptsReserved /\ AttemptsBounded
  <2>1. \A j \in Jobs : job[j].attempt = 0 /\ job[j].state = "absent"
    BY DEF Init, NewJob
  <2>2. MaxRetries \in Nat /\ Cardinality(Clients) \in Nat /\ Cardinality(Clients) > 0
    BY JobQueueAssumption, FS_CardinalityType, FS_EmptySet DEF JobQueueAssumption
  <2>3. \A j \in Jobs : Pending(j) = {}
    BY JobQueueAssumption DEF JobQueueAssumption, Init, Pending
  <2>4. Cardinality({}) = 0
    BY FS_EmptySet
  <2>5. AttemptsReserved
    <3>1. \A j \in Jobs : Reserved(j) = 1
      BY <2>1, <2>3, <2>4 DEF Reserved, Waiting
    <3>2. QED
      BY <2>2, <3>1 DEF AttemptsReserved
  <2>6. AttemptsBounded
    BY <2>1, <2>2 DEF AttemptsBounded
  <2>7. QED
    BY <2>5, <2>6
<1>5. QED
  BY <1>1, <1>2, <1>3, <1>4 DEF Consistent

\* Requests do not touch the process side.
LEMMA RequestKeepsProcs ==
    ASSUME TypeOK, Consistent,
           \/ \E j \in Jobs : Submit(j) \/ RequestCancellation(j)
           \/ \E c \in Clients : RetryCommit(c) \/ \E j \in Jobs : RetryLoad(c, j)
           \/ \E q \in Projects : DeleteProject(q)
    PROVE  UNCHANGED <<pc, running>>
  BY DEF Submit, RequestCancellation, RetryCommit, RetryLoad, DeleteProject, procVars

\* Only a retry marks a job, and the marks stay.
LEMMA MarksStay ==
    ASSUME TypeOK, [Next]_vars
    PROVE  /\ \A j \in Jobs : overwritten[j] => overwritten'[j]
           /\ (\A c \in Clients : ~RetryCommit(c)) => overwritten' = overwritten
<1>t. overwritten \in [Jobs -> BOOLEAN] /\ retrying \in [Clients -> Jobs \cup {NoJob}]
  BY DEF TypeOK
<1>1. ASSUME NEW c \in Clients, RetryCommit(c)
      PROVE  \A j \in Jobs : overwritten[j] => overwritten'[j]
  <2>1. PICK b : overwritten' = [overwritten EXCEPT ![retrying[c]] = @ \/ b]
    BY <1>1 DEF RetryCommit
  <2>2. QED
    BY <2>1, <1>t
<1>2. ASSUME \A c \in Clients : ~RetryCommit(c) PROVE overwritten' = overwritten
  BY <1>2, StepKinds
  DEF Submit, RequestCancellation, RetryLoad, DeleteProject, ClaimNext, LetGo, QuietStep, reqVars
<1>3. QED
  BY <1>1, <1>2

\* What a retry does to its job: nothing to a row that is gone or already as it
\* would write it, a legitimate step to the row it read, or it marks the job.
LEMMA RetryKinds ==
    ASSUME TypeOK, Consistent, NEW c \in Clients, RetryCommit(c)
    PROVE  /\ retrying[c] \in Jobs
           /\ copy[c] \in JobRecord
           /\ copy[c].state \in Retryable
           /\ copy[c].attempt <= MaxRetries
           /\ copy[c].completed
           /\ job' = [job EXCEPT ![retrying[c]] = RetriedRow(retrying[c], copy[c])]
           /\ retrying' = [retrying EXCEPT ![c] = NoJob]
           /\ \A i \in Jobs : i # retrying[c] => overwritten'[i] = overwritten[i]
           /\ \/ job' = job
              \/ job[retrying[c]] = copy[c]
              \/ overwritten'[retrying[c]] /\ job[retrying[c]].state # "deleted"
<1>t. /\ retrying \in [Clients -> Jobs \cup {NoJob}]
      /\ copy \in [Clients -> JobRecord]
      /\ job \in [Jobs -> JobRecord]
      /\ overwritten \in [Jobs -> BOOLEAN]
      /\ CopyAccepted
  BY DEF TypeOK, Consistent
<1> DEFINE j == retrying[c]
           r == RetriedRow(j, copy[c])
<1>1. /\ j \in Jobs
      /\ job' = [job EXCEPT ![j] = r]
      /\ overwritten' = [overwritten EXCEPT ![j] = @ \/ job[j] \notin {copy[c], r}]
      /\ retrying' = [retrying EXCEPT ![c] = NoJob]
  BY <1>t DEF RetryCommit
<1>2. copy[c].state \in Retryable /\ copy[c].attempt <= MaxRetries /\ copy[c].completed
  BY <1>1, <1>t DEF CopyAccepted
<1>3. CASE job[j] = r
  <2>1. job' = job
    BY <1>1, <1>3, <1>t
  <2>2. QED
    BY <1>1, <1>2, <1>t, <2>1
<1>4. CASE job[j] = copy[c]
  BY <1>1, <1>2, <1>t, <1>4
<1>5. CASE job[j] \notin {copy[c], r}
  <2>1. overwritten'[j]
    BY <1>1, <1>5, <1>t
  <2>2. job[j].state # "deleted"
    BY <1>5 DEF RetriedRow
  <2>3. QED
    BY <1>1, <1>2, <1>t, <2>1, <2>2
<1>6. QED
  BY <1>3, <1>4, <1>5

\* What a retry writes over a row that is still there.
LEMMA RetriedColumns ==
    ASSUME TypeOK, NEW j \in Jobs, NEW seen \in JobRecord, job[j].state # "deleted"
    PROVE  /\ RetriedRow(j, seen).state = "queued"
           /\ RetriedRow(j, seen).attempt = job[j].attempt
           /\ RetriedRow(j, seen).outputs = job[j].outputs
           /\ RetriedRow(j, seen).completed = IF seen.completed THEN FALSE ELSE job[j].completed
           /\ RetriedRow(j, seen).error = IF seen.error THEN FALSE ELSE job[j].error
<1>1. job[j] \in JobRecord
  BY DEF TypeOK
<1>2. QED
  BY <1>1 DEF JobRecord, RetriedRow

LEMMA QuietFacts ==
    ASSUME QuietStep, NEW p \in Procs
    PROVE  /\ pc'[p] \in Executing => pc[p] \in Executing
           /\ pc[p] \in Held => pc'[p] \in Held
  BY DEF QuietStep

LEMMA HoldersPreserved ==
    ASSUME TypeOK, Consistent, [Next]_vars
    PROVE  HolderExecutes'
<1> USE DEF HolderExecutes, Executing
<1>t. /\ pc \in [Procs -> PCs]
      /\ running \in [Procs -> Jobs \cup {NoJob}]
      /\ NoJob \notin Jobs
      /\ HolderExecutes
  BY JobQueueAssumption DEF JobQueueAssumption, TypeOK, Consistent
<1>1. CASE UNCHANGED <<pc, running>>
  BY <1>1, <1>t
<1>2. ASSUME NEW p \in Procs, ClaimNext(p) PROVE HolderExecutes'
  BY <1>2, <1>t DEF ClaimNext, Candidates, Goto
<1>3. ASSUME NEW p \in Procs, LetGo(p) PROVE HolderExecutes'
  BY <1>3, <1>t DEF LetGo
<1>4. CASE QuietStep
  <2>1. ASSUME NEW p \in Procs
        PROVE  /\ pc'[p] \in Executing => running'[p] \in Jobs
               /\ running'[p] \in Jobs => pc'[p] \in Executing \cup {"crashed"}
    <3>1. running'[p] = running[p]
      BY <1>4 DEF QuietStep
    <3>2. /\ pc'[p] \in Executing => pc[p] \in Executing
          /\ pc[p] \in Executing \cup {"crashed"} => pc'[p] \in Executing \cup {"crashed"}
      BY <1>4, QuietFacts DEF Held
    <3>3. QED
      BY <1>t, <3>1, <3>2
  <2>2. QED
    BY <2>1
<1>5. QED
  BY <1>1, <1>2, <1>3, <1>4, StepKinds, RequestKeepsProcs

LEMMA UniquePreserved ==
    ASSUME TypeOK, Consistent, [Next]_vars
    PROVE  HolderUnique'
<1> USE DEF HolderUnique
<1>t. /\ running \in [Procs -> Jobs \cup {NoJob}]
      /\ NoJob \notin Jobs
      /\ HolderUnique
      /\ HeldIsActive
      /\ \A j \in Jobs : overwritten[j] => overwritten'[j]
  BY JobQueueAssumption, MarksStay DEF JobQueueAssumption, TypeOK, Consistent
<1>1. CASE UNCHANGED running
  BY <1>1, <1>t
<1>2. ASSUME NEW p \in Procs, ClaimNext(p) PROVE HolderUnique'
  <2>1. PICK j \in Jobs : job[j].state = "queued" /\ running' = [running EXCEPT ![p] = j]
    BY <1>2 DEF ClaimNext, Candidates
  <2>2. \A q \in Procs : running[q] = j => overwritten[j]
    BY <2>1, <1>t DEF HeldIsActive, Active
  <2>3. QED
    BY <2>1, <2>2, <1>t
<1>3. ASSUME NEW p \in Procs, LetGo(p) PROVE HolderUnique'
  BY <1>3, <1>t DEF LetGo
<1>5. QED
  BY <1>1, <1>2, <1>3, StepKinds, RequestKeepsProcs DEF QuietStep

\* Held jobs stay active: a retry that finds its settled copy in the row finds no
\* holder, and any other retry that changes the row marks the job.
LEMMA HeldPreserved ==
    ASSUME TypeOK, Consistent, [Next]_vars
    PROVE  HeldIsActive'
<1> USE DEF HeldIsActive, Active
<1>t. /\ running \in [Procs -> Jobs \cup {NoJob}]
      /\ job \in [Jobs -> JobRecord]
      /\ NoJob \notin Jobs
      /\ HolderUnique
      /\ HeldIsActive
      /\ \A j \in Jobs : overwritten[j] => overwritten'[j]
  BY JobQueueAssumption, MarksStay DEF JobQueueAssumption, TypeOK, Consistent
<1>1. ASSUME NEW j \in Jobs, Submit(j) PROVE HeldIsActive'
  BY <1>1, <1>t DEF Submit, SubmittedRow, procVars
<1>2. ASSUME NEW j \in Jobs, RequestCancellation(j) PROVE HeldIsActive'
  BY <1>2, <1>t
  DEF RequestCancellation, CancelledRow, CancelRequestedRow, JobRecord, procVars
<1>3. ASSUME NEW c \in Clients, NEW j \in Jobs, RetryLoad(c, j) PROVE HeldIsActive'
  BY <1>3, <1>t DEF RetryLoad, procVars
<1>4. ASSUME NEW c \in Clients, RetryCommit(c) PROVE HeldIsActive'
  <2> DEFINE j == retrying[c]
  <2>1. UNCHANGED running
    BY <1>4 DEF RetryCommit, procVars
  <2>2. /\ j \in Jobs
        /\ copy[c].state \in Retryable
        /\ job' = [job EXCEPT ![j] = RetriedRow(j, copy[c])]
        /\ \/ job' = job
           \/ job[j] = copy[c]
           \/ overwritten'[j]
    BY <1>4, RetryKinds
  <2>3. CASE job' = job
    BY <2>1, <2>3, <1>t
  <2>4. CASE job[j] = copy[c]
    <3>1. \A p \in Procs : running[p] = j => overwritten[j]
      BY <2>2, <2>4, <1>t DEF Retryable
    <3>2. QED
      BY <2>1, <2>2, <3>1, <1>t
  <2>5. CASE overwritten'[j]
    BY <2>1, <2>2, <2>5, <1>t
  <2>6. QED
    BY <2>2, <2>3, <2>4, <2>5
<1>5. ASSUME NEW q \in Projects, DeleteProject(q) PROVE HeldIsActive'
  BY <1>5, <1>t DEF DeleteProject, JobRecord, procVars
<1>6. ASSUME NEW p \in Procs, ClaimNext(p) PROVE HeldIsActive'
  <2>1. PICK j \in Jobs : /\ running' = [running EXCEPT ![p] = j]
                         /\ job' = [job EXCEPT ![j] = ClaimedRow(j)]
    BY <1>6 DEF ClaimNext, Candidates
  <2>2. job'[j].state = "running"
    BY <2>1, <1>t DEF ClaimedRow, JobRecord
  <2>3. QED
    BY <2>1, <2>2, <1>t
<1>7. ASSUME NEW p \in Procs, LetGo(p) PROVE HeldIsActive'
  <2>1. \A q \in Procs : running'[q] \in Jobs /\ ~overwritten'[running'[q]] =>
            q # p /\ running'[q] # running[p] /\ running'[q] = running[q]
    BY <1>7, <1>t DEF LetGo, HolderUnique
  <2>2. \A i \in Jobs : i # running[p] => job'[i] = job[i]
    BY <1>7, <1>t DEF LetGo
  <2>3. QED
    BY <2>1, <2>2, <1>t
<1>8. CASE QuietStep
  BY <1>8, <1>t DEF QuietStep
<1>9. QED
  BY <1>1, <1>2, <1>3, <1>4, <1>5, <1>6, <1>7, <1>8, StepKinds

\* A step leaves a job active only if it left it with a holder: the claim
\* installs one, letting go settles the job first.
LEMMA ActivePreserved ==
    ASSUME TypeOK, Consistent, [Next]_vars
    PROVE  ActiveJobHeld'
<1>t. /\ running \in [Procs -> Jobs \cup {NoJob}]
      /\ job \in [Jobs -> JobRecord]
      /\ pc \in [Procs -> PCs]
      /\ NoJob \notin Jobs
      /\ HolderExecutes
      /\ ActiveJobHeld
  BY JobQueueAssumption DEF JobQueueAssumption, TypeOK, Consistent
<1>h. ASSUME UNCHANGED <<pc, running>>,
             \A j \in Jobs : job'[j].state \in Active => job[j].state \in Active
      PROVE  ActiveJobHeld'
  BY <1>h, <1>t DEF ActiveJobHeld
<1>1. ASSUME NEW j \in Jobs, Submit(j) PROVE ActiveJobHeld'
  BY <1>1, <1>h, <1>t DEF Submit, SubmittedRow, Active, JobRecord, procVars
<1>2. ASSUME NEW j \in Jobs, RequestCancellation(j) PROVE ActiveJobHeld'
  <2>1. UNCHANGED <<pc, running>>
    BY <1>2 DEF RequestCancellation, procVars
  <2>2. CASE job[j].state = "queued" /\ job' = [job EXCEPT ![j] = CancelledRow(j)]
    BY <2>1, <2>2, <1>h, <1>t DEF CancelledRow, Active, JobRecord
  <2>3. CASE job[j].state = "running" /\ job' = [job EXCEPT ![j] = CancelRequestedRow(j)]
    BY <2>1, <2>3, <1>h, <1>t DEF CancelRequestedRow, Active, JobRecord
  <2>4. QED
    BY <1>2, <2>2, <2>3 DEF RequestCancellation
<1>3. ASSUME NEW c \in Clients, NEW j \in Jobs, RetryLoad(c, j) PROVE ActiveJobHeld'
  BY <1>3, <1>h, <1>t DEF RetryLoad, procVars
<1>4. ASSUME NEW c \in Clients, RetryCommit(c) PROVE ActiveJobHeld'
  <2>1. UNCHANGED <<pc, running>>
    BY <1>4 DEF RetryCommit, procVars
  <2>2. /\ retrying[c] \in Jobs
        /\ job' = [job EXCEPT ![retrying[c]] = RetriedRow(retrying[c], copy[c])]
    BY <1>4, RetryKinds
  <2>3. RetriedRow(retrying[c], copy[c]).state \notin Active
    BY <2>2, <1>t DEF RetriedRow, Active, JobRecord
  <2>4. QED
    BY <2>1, <2>2, <2>3, <1>h, <1>t
<1>5. ASSUME NEW q \in Projects, DeleteProject(q) PROVE ActiveJobHeld'
  BY <1>5, <1>h, <1>t DEF DeleteProject, Active, JobRecord, procVars
<1>6. ASSUME NEW p \in Procs, ClaimNext(p) PROVE ActiveJobHeld'
  <2>1. PICK j \in Jobs : /\ running' = [running EXCEPT ![p] = j]
                          /\ job' = [job EXCEPT ![j] = ClaimedRow(j)]
    BY <1>6 DEF ClaimNext, Candidates
  <2>2. pc[p] = "claiming" /\ pc' = [pc EXCEPT ![p] = "working"] /\ running[p] \notin Jobs
    BY <1>6, <1>t DEF ClaimNext, Goto, HolderExecutes, Executing
  <2>3. ASSUME NEW i \in Jobs, job'[i].state \in Active
        PROVE  \E q \in Procs : running'[q] = i /\ pc'[q] \in Held
    <3>1. CASE i = j
      BY <2>1, <2>2, <3>1, <1>t DEF Executing, Held
    <3>2. CASE i # j
      <4>1. job[i].state \in Active
        BY <2>1, <2>3, <3>2, <1>t
      <4>2. PICK q \in Procs : running[q] = i /\ pc[q] \in Executing \cup {"crashed"}
        BY <4>1, <1>t DEF ActiveJobHeld
      <4>3. q # p
        BY <4>2, <2>2
      <4>4. QED
        BY <2>1, <2>2, <4>2, <4>3, <1>t DEF Held
    <3>3. QED
      BY <3>1, <3>2
  <2>4. QED
    BY <2>3 DEF ActiveJobHeld, Held
<1>7. ASSUME NEW p \in Procs, LetGo(p) PROVE ActiveJobHeld'
  <2>1. running[p] \in Jobs
    BY <1>7, <1>t DEF LetGo, HolderExecutes
  <2>2. job'[running[p]].state \notin Active
    BY <1>7, <2>1, <1>t, RowStates DEF LetGo, Active
  <2>3. \A i \in Jobs : i # running[p] => job'[i] = job[i]
    BY <1>7, <2>1, <1>t DEF LetGo
  <2>4. \A q \in Procs : q # p => running'[q] = running[q] /\ pc'[q] = pc[q]
    BY <1>7, <1>t DEF LetGo
  <2>5. QED
    BY <2>1, <2>2, <2>3, <2>4, <1>t DEF ActiveJobHeld
<1>8. CASE QuietStep
  <2>1. ASSUME NEW j \in Jobs, job'[j].state \in Active
        PROVE  \E q \in Procs : running'[q] = j /\ pc'[q] \in Held
    <3>1. PICK q \in Procs : running[q] = j /\ pc[q] \in Held
      BY <1>8, <2>1, <1>t DEF QuietStep, ActiveJobHeld, Held
    <3>2. running'[q] = j /\ pc'[q] \in Held
      BY <1>8, <3>1 DEF QuietStep
    <3>3. QED
      BY <3>2
  <2>2. QED
    BY <2>1 DEF ActiveJobHeld, Held
<1>9. QED
  BY <1>1, <1>2, <1>3, <1>4, <1>5, <1>6, <1>7, <1>8, StepKinds

\* No step makes a job one that was never submitted.
LEMMA SubmittedForGood ==
    ASSUME TypeOK, Consistent, [Next]_vars, NEW k \in Jobs, job[k].state # "absent"
    PROVE  job'[k].state # "absent"
<1>t. job \in [Jobs -> JobRecord] /\ running \in [Procs -> Jobs \cup {NoJob}]
  BY DEF TypeOK
<1>1. ASSUME NEW j \in Jobs, Submit(j) \/ RequestCancellation(j) PROVE job'[k].state # "absent"
  BY <1>1, <1>t, RowStates DEF Submit, RequestCancellation
<1>2. ASSUME NEW c \in Clients, RetryCommit(c) PROVE job'[k].state # "absent"
  <2>1. /\ retrying[c] \in Jobs
        /\ copy[c] \in JobRecord
        /\ job' = [job EXCEPT ![retrying[c]] = RetriedRow(retrying[c], copy[c])]
    BY <1>2, RetryKinds
  <2>2. RetriedRow(retrying[c], copy[c]).state \in {"queued", "deleted"}
    BY <2>1, RetriedColumns DEF RetriedRow
  <2>3. QED
    BY <2>1, <2>2, <1>t
<1>3. ASSUME NEW q \in Projects, DeleteProject(q) PROVE job'[k].state # "absent"
  BY <1>3, <1>t DEF DeleteProject, JobRecord
<1>4. ASSUME NEW p \in Procs, ClaimNext(p) \/ LetGo(p) PROVE job'[k].state # "absent"
  <2>1. CASE ClaimNext(p)
    BY <2>1, <1>t, RowStates DEF ClaimNext, Candidates
  <2>2. CASE LetGo(p)
    BY <2>2, <1>t, RowStates DEF LetGo, Consistent, HolderExecutes
  <2>3. QED
    BY <1>4, <2>1, <2>2
<1>5. QED
  BY <1>1, <1>2, <1>3, <1>4, StepKinds DEF RetryLoad, QuietStep

\* A retry accepts only what the row it loads shows at that moment, and the copy
\* does not change until the request ends.
LEMMA CopyPreserved ==
    ASSUME TypeOK, Consistent, [Next]_vars
    PROVE  CopyAccepted'
<1> USE DEF CopyAccepted
<1>t. /\ retrying \in [Clients -> Jobs \cup {NoJob}]
      /\ copy \in [Clients -> JobRecord]
      /\ job \in [Jobs -> JobRecord]
      /\ MaxRetries \in Nat
      /\ NoJob \notin Jobs
      /\ CopyAccepted
      /\ \A j \in Jobs : job[j].state # "absent" => job'[j].state # "absent"
  BY JobQueueAssumption, SubmittedForGood DEF JobQueueAssumption, TypeOK, Consistent
<1>k. CASE UNCHANGED <<retrying, copy>>
  BY <1>k, <1>t
<1>3. ASSUME NEW c \in Clients, NEW j \in Jobs, RetryLoad(c, j) PROVE CopyAccepted'
  <2>1. /\ job[j].state \in Retryable
        /\ job[j].state # "absent"
        /\ job[j].attempt <= MaxRetries
    BY <1>3, <1>t DEF RetryLoad, RetryAccepts, JobRecord, Retryable
  <2>2. job[j].completed
    BY <2>1
    DEF Consistent, RecordMatchesState, RowShowsOutcome, Retryable, Terminal
  <2>3. QED
    BY <1>3, <2>1, <2>2, <1>t DEF RetryLoad
<1>4. ASSUME NEW c \in Clients, RetryCommit(c) PROVE CopyAccepted'
  BY <1>4, <1>t DEF RetryCommit
<1>5. QED
  BY <1>k, <1>3, <1>4, StepKinds
  DEF Submit, RequestCancellation, DeleteProject, ClaimNext, LetGo, QuietStep, reqVars

\* What the UPDATEs write into the attempt counter.
LEMMA RowAttempts ==
    ASSUME TypeOK, NEW j \in Jobs
    PROVE  /\ SubmittedRow(j).attempt = job[j].attempt
           /\ CancelRequestedRow(j).attempt = job[j].attempt
           /\ CancelledRow(j).attempt = job[j].attempt
           /\ ClaimedRow(j).attempt = job[j].attempt + 1
           /\ SucceededRow(j).attempt = job[j].attempt
           /\ FailedRow(j).attempt = job[j].attempt
           /\ \A r \in JobRecord : RetriedRow(j, r).attempt = job[j].attempt
<1>1. job[j] \in JobRecord
  BY DEF TypeOK
<1>2. QED
  BY <1>1 DEF JobRecord, SubmittedRow, CancelRequestedRow, CancelledRow, ClaimedRow, SucceededRow,
     FailedRow, RetriedRow

\* The requests that hold a copy of a job: one more after a load, one less after
\* the write, and never more than there are clients.
LEMMA PendingCount ==
    ASSUME TypeOK, NEW j \in Jobs
    PROVE  /\ Cardinality(Pending(j)) \in Nat
           /\ Cardinality(Clients) \in Nat \ {0}
           /\ Cardinality(Pending(j)) <= Cardinality(Clients)
           /\ \A c \in Clients : c \in Pending(j) =>
                  Cardinality(Pending(j) \ {c}) = Cardinality(Pending(j)) - 1
<1>1. /\ IsFiniteSet(Clients)
      /\ Clients # {}
      /\ Pending(j) \subseteq Clients
  BY JobQueueAssumption DEF JobQueueAssumption, Pending
<1>2. /\ IsFiniteSet(Pending(j))
      /\ Cardinality(Pending(j)) <= Cardinality(Clients)
  BY <1>1, FS_Subset
<1>3. /\ Cardinality(Pending(j)) \in Nat
      /\ Cardinality(Clients) \in Nat
      /\ Cardinality(Clients) # 0
  BY <1>1, <1>2, FS_CardinalityType, FS_EmptySet
<1>4. ASSUME NEW c \in Clients, c \in Pending(j)
      PROVE  Cardinality(Pending(j) \ {c}) = Cardinality(Pending(j)) - 1
  BY <1>2, <1>4, FS_RemoveElement
<1>5. QED
  BY <1>2, <1>3, <1>4

\* Attempts are reserved before they are counted: the check of a retry reserves
\* one by its copy, the write turns the copy into a queued row, the claim counts.
LEMMA ReservedPreserved ==
    ASSUME TypeOK, Consistent, [Next]_vars
    PROVE  AttemptsReserved'
<1>t. /\ job \in [Jobs -> JobRecord]
      /\ retrying \in [Clients -> Jobs \cup {NoJob}]
      /\ MaxRetries \in Nat
      /\ \A i \in Jobs : job[i].attempt \in Nat
      /\ \A i \in Jobs : Reserved(i) <= MaxRetries + Cardinality(Clients)
      /\ NoJob \notin Jobs
  BY JobQueueAssumption DEF JobQueueAssumption, TypeOK, Consistent, JobRecord, AttemptsReserved
\* A step that loads or ends no retry, and counts no attempt of a row that was not waiting.
<1>h. ASSUME UNCHANGED retrying,
             \A i \in Jobs :
                 \/ /\ job'[i].attempt = job[i].attempt
                    /\ job'[i].state \in Waiting => job[i].state \in Waiting
                 \/ /\ job'[i].attempt = job[i].attempt + 1
                    /\ job[i].state \in Waiting
                    /\ job'[i].state \notin Waiting
      PROVE  AttemptsReserved'
  <2>1. ASSUME NEW i \in Jobs PROVE Reserved(i)' <= MaxRetries + Cardinality(Clients)
    <3>1. Pending(i)' = Pending(i)
      BY <1>h DEF Pending
    <3>2. Reserved(i)' = job'[i].attempt + (IF job'[i].state \in Waiting THEN 1 ELSE 0)
                           + Cardinality(Pending(i))
      BY <3>1 DEF Reserved
    <3>3. /\ Cardinality(Pending(i)) \in Nat
          /\ Cardinality(Clients) \in Nat
          /\ job[i].attempt \in Nat
          /\ MaxRetries \in Nat
          /\ job[i].attempt + (IF job[i].state \in Waiting THEN 1 ELSE 0)
               + Cardinality(Pending(i)) <= MaxRetries + Cardinality(Clients)
      BY <1>t, PendingCount DEF Reserved
    <3>4. CASE /\ job'[i].attempt = job[i].attempt
               /\ job'[i].state \in Waiting => job[i].state \in Waiting
      BY <3>2, <3>3, <3>4
    <3>5. CASE /\ job'[i].attempt = job[i].attempt + 1
               /\ job[i].state \in Waiting
               /\ job'[i].state \notin Waiting
      BY <3>2, <3>3, <3>5
    <3>6. QED
      BY <1>h, <3>4, <3>5
  <2>2. QED
    BY <2>1 DEF AttemptsReserved
<1>1. ASSUME NEW j \in Jobs, Submit(j) PROVE AttemptsReserved'
  <2>1. job'[j].attempt = job[j].attempt /\ job[j].state \in Waiting
    BY <1>1, <1>t, RowAttempts DEF Submit, Waiting
  <2>2. \A i \in Jobs : i # j => job'[i] = job[i]
    BY <1>1, <1>t DEF Submit
  <2>3. UNCHANGED retrying
    BY <1>1 DEF Submit, reqVars
  <2>4. QED
    BY <2>1, <2>2, <2>3, <1>h
<1>2. ASSUME NEW j \in Jobs, RequestCancellation(j) PROVE AttemptsReserved'
  <2>1. job'[j].attempt = job[j].attempt /\ job'[j].state \notin Waiting
    BY <1>2, <1>t, RowAttempts, RowStates DEF RequestCancellation, Waiting
  <2>2. \A i \in Jobs : i # j => job'[i] = job[i]
    BY <1>2, <1>t DEF RequestCancellation
  <2>3. UNCHANGED retrying
    BY <1>2 DEF RequestCancellation, reqVars
  <2>4. QED
    BY <2>1, <2>2, <2>3, <1>h
<1>3. ASSUME NEW c \in Clients, NEW j \in Jobs, RetryLoad(c, j) PROVE AttemptsReserved'
  <2>1. ASSUME NEW i \in Jobs PROVE Reserved(i)' <= MaxRetries + Cardinality(Clients)
    <3>1. job' = job /\ retrying' = [retrying EXCEPT ![c] = j] /\ retrying[c] = NoJob
      BY <1>3 DEF RetryLoad
    <3>2. CASE i = j
      <4>1. job[i].state \notin Waiting /\ job[i].attempt <= MaxRetries
        BY <1>3, <3>2, <1>t DEF RetryLoad, RetryAccepts, Retryable, Waiting
      <4>2. TypeOK'
        BY NextTyped
      <4>3. Cardinality(Pending(i)') \in Nat /\ Cardinality(Pending(i)') <= Cardinality(Clients)
        <5>1. IsFiniteSet(Clients) /\ Pending(i)' \subseteq Clients
          BY JobQueueAssumption DEF JobQueueAssumption, Pending
        <5>2. QED
          BY <5>1, FS_Subset, FS_CardinalityType
      <4>4. Cardinality(Clients) \in Nat
        BY PendingCount
      <4>5. Reserved(i)' = job[i].attempt + Cardinality(Pending(i)')
        BY <3>1, <4>1, <4>3, <1>t DEF Reserved
      <4>6. QED
        BY <4>1, <4>3, <4>4, <4>5, <1>t
    <3>3. CASE i # j
      <4>1. Pending(i)' = Pending(i)
        BY <3>1, <3>3, <1>t DEF Pending
      <4>2. Reserved(i)' = Reserved(i)
        BY <3>1, <4>1 DEF Reserved
      <4>3. QED
        BY <4>2, <1>t
    <3>4. QED
      BY <3>2, <3>3
  <2>2. QED
    BY <2>1 DEF AttemptsReserved
<1>4. ASSUME NEW c \in Clients, RetryCommit(c) PROVE AttemptsReserved'
  <2>1. /\ retrying[c] \in Jobs
        /\ copy[c] \in JobRecord
        /\ job' = [job EXCEPT ![retrying[c]] = RetriedRow(retrying[c], copy[c])]
        /\ retrying' = [retrying EXCEPT ![c] = NoJob]
    BY <1>4, RetryKinds
  <2>2. ASSUME NEW i \in Jobs PROVE Reserved(i)' <= MaxRetries + Cardinality(Clients)
    <3>1. job'[i].attempt = job[i].attempt
      BY <2>1, <1>t, RowAttempts
    <3>2. CASE i = retrying[c]
      <4>1. Pending(i)' = Pending(i) \ {c} /\ c \in Pending(i)
        BY <2>1, <3>2, <1>t DEF Pending
      <4>2. /\ Cardinality(Pending(i)') = Cardinality(Pending(i)) - 1
            /\ Cardinality(Pending(i)) \in Nat
            /\ Cardinality(Clients) \in Nat
        BY <4>1, PendingCount
      <4>3. QED
        BY <3>1, <4>2, <1>t DEF Reserved
    <3>3. CASE i # retrying[c]
      <4>1. job'[i] = job[i] /\ Pending(i)' = Pending(i)
        BY <2>1, <3>3, <1>t DEF Pending
      <4>2. Reserved(i)' = Reserved(i)
        BY <4>1 DEF Reserved
      <4>3. QED
        BY <4>2, <1>t
    <3>4. QED
      BY <3>2, <3>3
  <2>3. QED
    BY <2>2 DEF AttemptsReserved
<1>5. ASSUME NEW q \in Projects, DeleteProject(q) PROVE AttemptsReserved'
  <2>1. \A i \in Jobs : /\ job'[i].attempt = job[i].attempt
                        /\ job'[i].state # job[i].state => job'[i].state = "deleted"
    BY <1>5, <1>t DEF DeleteProject, JobRecord
  <2>2. UNCHANGED retrying
    BY <1>5 DEF DeleteProject, reqVars
  <2>3. QED
    BY <2>1, <2>2, <1>h DEF Waiting
<1>6. ASSUME NEW p \in Procs, ClaimNext(p) PROVE AttemptsReserved'
  <2>1. PICK j \in Jobs : job[j].state = "queued" /\ job' = [job EXCEPT ![j] = ClaimedRow(j)]
    BY <1>6 DEF ClaimNext, Candidates
  <2>2. job'[j].attempt = job[j].attempt + 1 /\ job'[j].state = "running"
    BY <2>1, <1>t, RowAttempts, RowStates
  <2>3. UNCHANGED retrying
    BY <1>6 DEF ClaimNext, reqVars
  <2>4. QED
    BY <2>1, <2>2, <2>3, <1>h, <1>t DEF Waiting
<1>7. ASSUME NEW p \in Procs, LetGo(p) PROVE AttemptsReserved'
  <2>1. UNCHANGED retrying
    BY <1>7 DEF LetGo, reqVars
  <2>2. CASE job' = job
    BY <2>1, <2>2, <1>h
  <2>3. CASE job' # job
    <3>1. running[p] \in Jobs
      BY <1>7 DEF LetGo, Consistent, HolderExecutes
    <3>2. /\ job'[running[p]].attempt = job[running[p]].attempt
          /\ job'[running[p]].state \notin Waiting
      BY <1>7, <2>3, <3>1, <1>t, RowAttempts, RowStates DEF LetGo, Waiting
    <3>3. \A i \in Jobs : i # running[p] => job'[i] = job[i]
      BY <1>7, <2>3, <1>t DEF LetGo
    <3>4. QED
      BY <2>1, <3>2, <3>3, <1>h
  <2>4. QED
    BY <2>2, <2>3
<1>8. CASE QuietStep
  BY <1>8, <1>h DEF QuietStep, reqVars
<1>9. QED
  BY <1>1, <1>2, <1>3, <1>4, <1>5, <1>6, <1>7, <1>8, StepKinds

\* The bound for a job no outdated retry touched: the counter moves only when a
\* queued job is claimed, and a retry of the row it read queues below the bound.
SerialBound(j) == /\ job[j].attempt <= MaxRetries + 1
                  /\ job[j].state \in Waiting => job[j].attempt <= MaxRetries

LEMMA SerialBoundPreserved ==
    ASSUME TypeOK, Consistent, [Next]_vars, NEW k \in Jobs, ~overwritten'[k]
    PROVE  SerialBound(k)'
<1>t. /\ job \in [Jobs -> JobRecord]
      /\ MaxRetries \in Nat
      /\ job[k].attempt \in Nat
      /\ job[k].attempt <= MaxRetries + 1
      /\ job[k].state \in Waiting => job[k].attempt <= MaxRetries
  <2>1. ~overwritten[k]
    BY MarksStay
  <2>2. QED
    BY <2>1, JobQueueAssumption
    DEF JobQueueAssumption, TypeOK, Consistent, JobRecord, AttemptsBounded
<1>h. ASSUME job'[k].attempt = job[k].attempt,
             job'[k].state \in Waiting => job[k].state \in Waiting \/ job[k].attempt <= MaxRetries
      PROVE  SerialBound(k)'
  BY <1>h, <1>t DEF SerialBound
<1>k. CASE job'[k] = job[k]
  BY <1>k, <1>h
<1>1. ASSUME NEW j \in Jobs, Submit(j) PROVE SerialBound(k)'
  BY <1>1, <1>h, <1>k, <1>t, RowAttempts DEF Submit, Waiting
<1>2. ASSUME NEW j \in Jobs, RequestCancellation(j) PROVE SerialBound(k)'
  <2>1. /\ job'[j].attempt = job[j].attempt
        /\ job'[j].state \notin Waiting
    BY <1>2, <1>t, RowAttempts, RowStates DEF RequestCancellation, Waiting
  <2>2. j # k => job'[k] = job[k]
    BY <1>2, <1>t DEF RequestCancellation
  <2>3. QED
    BY <2>1, <2>2, <1>h, <1>k
<1>4. ASSUME NEW c \in Clients, RetryCommit(c) PROVE SerialBound(k)'
  <2>1. /\ retrying[c] \in Jobs
        /\ copy[c] \in JobRecord
        /\ copy[c].attempt <= MaxRetries
        /\ job' = [job EXCEPT ![retrying[c]] = RetriedRow(retrying[c], copy[c])]
        /\ job' = job \/ job[retrying[c]] = copy[c] \/ overwritten'[retrying[c]]
    BY <1>4, RetryKinds
  <2>2. job'[k].attempt = job[k].attempt
    BY <2>1, <1>t, RowAttempts
  <2>3. CASE retrying[c] # k \/ job' = job
    BY <2>1, <2>3, <1>k, <1>t
  <2>4. CASE retrying[c] = k /\ job[k] = copy[c]
    BY <2>1, <2>2, <2>4, <1>h
  <2>5. QED
    BY <2>1, <2>3, <2>4
<1>5. ASSUME NEW q \in Projects, DeleteProject(q) PROVE SerialBound(k)'
  <2>1. /\ job'[k].attempt = job[k].attempt
        /\ job'[k].state # job[k].state => job'[k].state = "deleted"
    BY <1>5, <1>t DEF DeleteProject, JobRecord
  <2>2. QED
    BY <2>1, <1>h DEF Waiting
<1>6. ASSUME NEW p \in Procs, ClaimNext(p) PROVE SerialBound(k)'
  <2>1. PICK j \in Jobs : job[j].state = "queued" /\ job' = [job EXCEPT ![j] = ClaimedRow(j)]
    BY <1>6 DEF ClaimNext, Candidates
  <2>2. CASE j # k
    BY <2>1, <2>2, <1>k, <1>t
  <2>3. CASE j = k
    <3>1. job'[k].attempt = job[k].attempt + 1 /\ job'[k].state = "running"
      BY <2>1, <2>3, <1>t, RowAttempts, RowStates
    <3>2. job[k].attempt <= MaxRetries
      BY <2>1, <2>3, <1>t DEF Waiting
    <3>3. QED
      BY <3>1, <3>2, <1>t DEF SerialBound, Waiting
  <2>4. QED
    BY <2>2, <2>3
<1>7. ASSUME NEW p \in Procs, LetGo(p) PROVE SerialBound(k)'
  <2>1. CASE job' = job \/ running[p] # k
    BY <1>7, <2>1, <1>k, <1>t DEF LetGo
  <2>2. CASE job' # job /\ running[p] = k
    <3>1. /\ job'[k].attempt = job[k].attempt
          /\ job'[k].state \notin Waiting
      BY <1>7, <2>2, <1>t, RowAttempts, RowStates DEF LetGo, Waiting
    <3>2. QED
      BY <3>1, <1>h
  <2>3. QED
    BY <2>1, <2>2
<1>8. CASE QuietStep
  BY <1>8, <1>k DEF QuietStep
<1>9. QED
  BY <1>k, <1>1, <1>2, <1>4, <1>5, <1>6, <1>7, <1>8, StepKinds DEF RetryLoad

LEMMA AttemptsPreserved ==
    ASSUME TypeOK, Consistent, [Next]_vars
    PROVE  AttemptsBounded'
<1>1. ASSUME NEW j \in Jobs
      PROVE  /\ job'[j].attempt <= MaxRetries + Cardinality(Clients)
             /\ job'[j].state \in Waiting => job'[j].attempt < MaxRetries + Cardinality(Clients)
  <2>1. Reserved(j)' <= MaxRetries + Cardinality(Clients)
    BY ReservedPreserved DEF AttemptsReserved
  <2>2. job'[j].attempt \in Nat
    BY NextTyped DEF TypeOK, JobRecord
  <2>3. Cardinality(Pending(j)') \in Nat
    <3>1. IsFiniteSet(Clients) /\ Pending(j)' \subseteq Clients
      BY JobQueueAssumption DEF JobQueueAssumption, Pending
    <3>2. QED
      BY <3>1, FS_Subset, FS_CardinalityType
  <2>4. MaxRetries \in Nat /\ Cardinality(Clients) \in Nat
    BY JobQueueAssumption, PendingCount DEF JobQueueAssumption
  <2>5. QED
    BY <2>1, <2>2, <2>3, <2>4 DEF Reserved
<1>2. ASSUME NEW j \in Jobs, ~overwritten'[j] PROVE SerialBound(j)'
  BY <1>2, SerialBoundPreserved
<1>3. QED
  BY <1>1, <1>2 DEF AttemptsBounded, SerialBound

\* Each UPDATE keeps the columns of the row in agreement with its new state.
LEMMA RowsShowOutcome ==
    ASSUME TypeOK, NEW j \in Jobs, RowShowsOutcome(job[j])
    PROVE  /\ job[j].state = "absent" => RowShowsOutcome(SubmittedRow(j))
           /\ job[j].state = "running" => RowShowsOutcome(CancelRequestedRow(j))
           /\ RowShowsOutcome(CancelledRow(j))
           /\ RowShowsOutcome(ClaimedRow(j))
           /\ RowShowsOutcome(SucceededRow(j))
           /\ RowShowsOutcome(FailedRow(j))
           /\ \A seen \in JobRecord : seen.completed => RowShowsOutcome(RetriedRow(j, seen))
<1> USE DEF RowShowsOutcome, JobRecord, Terminal
<1>1. job[j] \in JobRecord
  BY DEF TypeOK
<1>2. job[j].state = "absent" => RowShowsOutcome(SubmittedRow(j))
  BY <1>1 DEF SubmittedRow
<1>3. job[j].state = "running" => RowShowsOutcome(CancelRequestedRow(j))
  BY <1>1 DEF CancelRequestedRow
<1>4. RowShowsOutcome(CancelledRow(j)) /\ RowShowsOutcome(ClaimedRow(j))
  BY <1>1 DEF CancelledRow, ClaimedRow
<1>5. RowShowsOutcome(SucceededRow(j)) /\ RowShowsOutcome(FailedRow(j))
  BY <1>1 DEF SucceededRow, FailedRow
<1>6. ASSUME NEW seen \in JobRecord, seen.completed PROVE RowShowsOutcome(RetriedRow(j, seen))
  <2>1. CASE job[j].state = "deleted"
    BY <2>1 DEF RetriedRow
  <2>2. CASE job[j].state # "deleted"
    BY <1>1, <1>6, <2>2 DEF RetriedRow
  <2>3. QED
    BY <2>1, <2>2
<1>7. QED
  BY <1>2, <1>3, <1>4, <1>5, <1>6

\* Each UPDATE that finds the state it expects clears what an earlier attempt left.
LEMMA RowsOfOneAttempt ==
    ASSUME TypeOK, NEW j \in Jobs, RowOfOneAttempt(job[j])
    PROVE  /\ job[j].state = "absent" => RowOfOneAttempt(SubmittedRow(j))
           /\ job[j].state = "running" => RowOfOneAttempt(CancelRequestedRow(j))
           /\ job[j].state \in Active \cup {"queued"} => RowOfOneAttempt(CancelledRow(j))
           /\ job[j].state = "queued" => RowOfOneAttempt(ClaimedRow(j))
           /\ job[j].state = "running" => RowOfOneAttempt(SucceededRow(j))
           /\ job[j].state = "running" => RowOfOneAttempt(FailedRow(j))
           /\ job[j].state \in Retryable => RowOfOneAttempt(RetriedRow(j, job[j]))
<1> USE DEF RowOfOneAttempt, JobRecord, Active, Retryable
<1>1. job[j] \in JobRecord
  BY DEF TypeOK
<1>2. job[j].state = "absent" => RowOfOneAttempt(SubmittedRow(j))
  BY <1>1 DEF SubmittedRow
<1>3. job[j].state = "running" => RowOfOneAttempt(CancelRequestedRow(j))
  BY <1>1 DEF CancelRequestedRow
<1>4. job[j].state \in Active \cup {"queued"} => RowOfOneAttempt(CancelledRow(j))
  BY <1>1 DEF CancelledRow
<1>5. job[j].state = "queued" => RowOfOneAttempt(ClaimedRow(j))
  BY <1>1 DEF ClaimedRow
<1>6. job[j].state = "running" => RowOfOneAttempt(SucceededRow(j))
  BY <1>1 DEF SucceededRow
<1>7. job[j].state = "running" => RowOfOneAttempt(FailedRow(j))
  BY <1>1 DEF FailedRow
<1>8. job[j].state \in Retryable => RowOfOneAttempt(RetriedRow(j, job[j]))
  BY <1>1 DEF RetriedRow
<1>9. QED
  BY <1>2, <1>3, <1>4, <1>5, <1>6, <1>7, <1>8

\* A retry resets completed_at because every copy it accepts shows it set, and
\* error_info, if it finds its copy in the row, because the copy shows it too.
LEMMA RecordPreserved ==
    ASSUME TypeOK, Consistent, [Next]_vars
    PROVE  RecordMatchesState'
<1>t. /\ job \in [Jobs -> JobRecord]
      /\ \A i \in Jobs : RowShowsOutcome(job[i])
      /\ \A i \in Jobs : ~overwritten[i] => RowOfOneAttempt(job[i])
      /\ \A i \in Jobs : overwritten[i] => overwritten'[i]
  BY MarksStay DEF TypeOK, Consistent, RecordMatchesState
<1>h. ASSUME NEW j \in Jobs, NEW r, job' = [job EXCEPT ![j] = r], RowShowsOutcome(r),
             ~overwritten'[j] => RowOfOneAttempt(r)
      PROVE  RecordMatchesState'
  <2>1. ASSUME NEW i \in Jobs
        PROVE  /\ RowShowsOutcome(job'[i])
               /\ ~overwritten'[i] => RowOfOneAttempt(job'[i])
    <3>1. CASE i = j
      <4>1. job'[i] = r
        BY <1>h, <3>1, <1>t
      <4>2. QED
        BY <1>h, <3>1, <4>1
    <3>2. CASE i # j
      <4>1. job'[i] = job[i]
        BY <1>h, <3>2, <1>t
      <4>2. QED
        BY <4>1, <1>t
    <3>3. QED
      BY <3>1, <3>2
  <2>2. QED
    BY <2>1 DEF RecordMatchesState, RowShowsOutcome, RowOfOneAttempt
<1>k. CASE job' = job
  BY <1>k, <1>t DEF RecordMatchesState, RowShowsOutcome, RowOfOneAttempt
<1>1. ASSUME NEW j \in Jobs, Submit(j) PROVE RecordMatchesState'
  BY <1>1, <1>h, <1>t, RowsShowOutcome, RowsOfOneAttempt DEF Submit
<1>2. ASSUME NEW j \in Jobs, RequestCancellation(j) PROVE RecordMatchesState'
  <2>1. PICK r : /\ job' = [job EXCEPT ![j] = r]
                 /\ RowShowsOutcome(r)
                 /\ ~overwritten[j] => RowOfOneAttempt(r)
    BY <1>2, <1>t, RowsShowOutcome, RowsOfOneAttempt DEF RequestCancellation
  <2>2. QED
    BY <2>1, <1>h, <1>t
<1>4. ASSUME NEW c \in Clients, RetryCommit(c) PROVE RecordMatchesState'
  <2> DEFINE j == retrying[c]
  <2>1. /\ j \in Jobs
        /\ copy[c] \in JobRecord
        /\ copy[c].state \in Retryable
        /\ copy[c].completed
        /\ job' = [job EXCEPT ![j] = RetriedRow(j, copy[c])]
        /\ job' = job \/ job[j] = copy[c] \/ overwritten'[j]
    BY <1>4, RetryKinds
  <2>2. RowShowsOutcome(RetriedRow(j, copy[c]))
    BY <2>1, <1>t, RowsShowOutcome
  <2>3. CASE job[j] = copy[c]
    <3>1. ~overwritten[j] => RowOfOneAttempt(RetriedRow(j, copy[c]))
      BY <2>1, <2>3, <1>t, RowsOfOneAttempt
    <3>2. QED
      BY <2>1, <2>2, <3>1, <1>h, <1>t
  <2>4. CASE overwritten'[j]
    BY <2>1, <2>2, <2>4, <1>h
  <2>5. QED
    BY <2>1, <2>3, <2>4, <1>k
<1>5. ASSUME NEW q \in Projects, DeleteProject(q) PROVE RecordMatchesState'
  <2>1. ASSUME NEW i \in Jobs PROVE job'[i] = job[i] \/ job'[i].state = "deleted"
    BY <1>5, <1>t DEF DeleteProject, JobRecord
  <2>2. QED
    BY <2>1, <1>t DEF RecordMatchesState, RowShowsOutcome, RowOfOneAttempt
<1>6. ASSUME NEW p \in Procs, ClaimNext(p) PROVE RecordMatchesState'
  <2>1. PICK j \in Jobs : job[j].state = "queued" /\ job' = [job EXCEPT ![j] = ClaimedRow(j)]
    BY <1>6 DEF ClaimNext, Candidates
  <2>2. RowShowsOutcome(ClaimedRow(j)) /\ (~overwritten[j] => RowOfOneAttempt(ClaimedRow(j)))
    BY <2>1, <1>t, RowsShowOutcome, RowsOfOneAttempt
  <2>3. QED
    BY <2>1, <2>2, <1>h, <1>t
<1>7. ASSUME NEW p \in Procs, LetGo(p), job' # job PROVE RecordMatchesState'
  <2>1. running[p] \in Jobs
    BY <1>7 DEF LetGo, Consistent, HolderExecutes
  <2>2. PICK r : /\ job' = [job EXCEPT ![running[p]] = r]
                 /\ RowShowsOutcome(r)
                 /\ ~overwritten[running[p]] => RowOfOneAttempt(r)
    BY <1>7, <2>1, <1>t, RowsShowOutcome, RowsOfOneAttempt DEF LetGo
  <2>3. QED
    BY <2>1, <2>2, <1>h, <1>t
<1>8. QED
  BY <1>k, <1>1, <1>2, <1>4, <1>5, <1>6, <1>7, StepKinds DEF RetryLoad, QuietStep

LEMMA NextConsistent ==
    ASSUME TypeOK, Consistent, [Next]_vars
    PROVE  Consistent'
<1>1. HolderExecutes' /\ HolderUnique' /\ HeldIsActive' /\ ActiveJobHeld'
  BY HoldersPreserved, UniquePreserved, HeldPreserved, ActivePreserved
<1>2. CopyAccepted' /\ AttemptsReserved' /\ AttemptsBounded' /\ RecordMatchesState'
  BY CopyPreserved, ReservedPreserved, AttemptsPreserved, RecordPreserved
<1>3. QED
  BY <1>1, <1>2 DEF Consistent

\* Every behaviour of the requests and the workers, outdated retries included,
\* keeps the strengthened invariant.
THEOREM ConsistentInvariant == Spec => []Consistent
<1>1. TypeOK /\ Consistent /\ [Next]_vars => Consistent'
  BY NextConsistent
<1>2. QED
  BY <1>1, InitConsistent, TypeCorrect, PTL DEF Spec

\* Two live processes execute the same job only after a retry wrote over a row it
\* had not read (claim_next, retry).
THEOREM ExclusiveExecutionHolds == Spec => []ExclusiveExecution
<1>1. Consistent => ExclusiveExecution
  BY DEF Consistent, HolderExecutes, HolderUnique, ExclusiveExecution
<1>2. QED
  BY <1>1, ConsistentInvariant, PTL

\* An active job always has a process that claimed it, alive or crashed
\* (process_next and the finalisers mark_succeeded, mark_cancelled, mark_failed).
THEOREM ActiveJobHeldHolds == Spec => []ActiveJobHeld
<1>1. Consistent => ActiveJobHeld
  BY DEF Consistent
<1>2. QED
  BY <1>1, ConsistentInvariant, PTL

\* No job is attempted more often than MaxRetries plus the number of requests that
\* retry at once, nor more than MaxRetries + 1 times without an outdated retry.
THEOREM AttemptsBoundedHolds == Spec => []AttemptsBounded
<1>1. Consistent => AttemptsBounded
  BY DEF Consistent
<1>2. QED
  BY <1>1, ConsistentInvariant, PTL

\* The columns of a job row always show its outcome, and describe one attempt
\* unless an outdated retry wrote over it (all UPDATEs of jobs.py).
THEOREM RecordMatchesStateHolds == Spec => []RecordMatchesState
<1>1. Consistent => RecordMatchesState
  BY DEF Consistent
<1>2. QED
  BY <1>1, ConsistentInvariant, PTL

-----------------------------------------------------------------------------
(***************************************************************************)
(* JobQueue implements JobLifecycle.                                       *)
(***************************************************************************)
LEMMA InitRefines == Init => Lifecycle!Init
  BY DEF Init, NewJob, Lifecycle!Init

\* A changed state column is a move of the life cycle.
LEMMA MoveStep ==
    ASSUME NEW j \in Jobs, NEW From, NEW to, job[j].state \in From,
           \A i \in Jobs : job'[i].state = IF i = j THEN to ELSE job[i].state
    PROVE  Lifecycle!Move(j, From, to)
  BY DEF Lifecycle!Move

\* An unchanged attempt column is an unchanged function.
LEMMA AttemptsKept ==
    ASSUME \A i \in Jobs : job'[i].attempt = job[i].attempt
    PROVE  [i \in Jobs |-> job'[i].attempt] = [i \in Jobs |-> job[i].attempt]
  OBVIOUS

\* Every step of the queue is a step of the life cycle or leaves it alone.
LEMMA NextRefines ==
    ASSUME TypeOK, Consistent, [Next]_vars
    PROVE  [Lifecycle!Next]_(Lifecycle!vars)
<1>t. /\ job \in [Jobs -> JobRecord]
      /\ overwritten \in [Jobs -> BOOLEAN]
      /\ MaxRetries \in Nat
      /\ AttemptsBounded
  BY JobQueueAssumption DEF JobQueueAssumption, TypeOK, Consistent
<1>k. CASE UNCHANGED <<job, overwritten>>
  BY <1>k DEF Lifecycle!vars
<1>o. ASSUME \A c \in Clients : ~RetryCommit(c) PROVE overwritten' = overwritten
  BY <1>o, MarksStay
<1>1. ASSUME NEW j \in Jobs, Submit(j) PROVE Lifecycle!Next
  <2>1. \A i \in Jobs : /\ job'[i].state = IF i = j THEN "queued" ELSE job[i].state
                        /\ job'[i].attempt = job[i].attempt
    <3>1. job'[j] = SubmittedRow(j) /\ \A i \in Jobs : i # j => job'[i] = job[i]
      BY <1>1, <1>t DEF Submit
    <3>2. QED
      BY <3>1, RowStates, RowAttempts
  <2>2. Lifecycle!Move(j, {"absent"}, "queued")
    BY <1>1, <2>1, MoveStep DEF Submit
  <2>3. QED
    BY <1>1, <2>1, <2>2, AttemptsKept DEF Lifecycle!Next, Lifecycle!Submit, Submit, reqVars
<1>2. ASSUME NEW j \in Jobs, RequestCancellation(j) PROVE Lifecycle!Next
  <2>1. PICK From, to :
            /\ \/ From = {"queued"} /\ to = "cancelled"
               \/ From = {"running"} /\ to = "cancel_requested"
            /\ job[j].state \in From
            /\ \A i \in Jobs : /\ job'[i].state = IF i = j THEN to ELSE job[i].state
                               /\ job'[i].attempt = job[i].attempt
    <3>1. /\ \A i \in Jobs : i # j => job'[i] = job[i]
          /\ \/ job[j].state = "queued" /\ job'[j] = CancelledRow(j)
             \/ job[j].state = "running" /\ job'[j] = CancelRequestedRow(j)
      BY <1>2, <1>t DEF RequestCancellation
    <3>2. CASE job[j].state = "queued"
      <4>1. job'[j].state = "cancelled" /\ job'[j].attempt = job[j].attempt
        BY <3>1, <3>2, RowStates, RowAttempts
      <4>2. job[j].state \in {"queued"}
        BY <3>2
      <4>3. QED
        BY <3>1, <4>1, <4>2
    <3>3. CASE job[j].state = "running"
      <4>1. job'[j].state = "cancel_requested" /\ job'[j].attempt = job[j].attempt
        BY <3>1, <3>3, RowStates, RowAttempts
      <4>2. job[j].state \in {"running"}
        BY <3>3
      <4>3. QED
        BY <3>1, <4>1, <4>2
    <3>4. QED
      BY <3>1, <3>2, <3>3
  <2>2. Lifecycle!Move(j, From, to)
    BY <2>1, MoveStep
  <2>3. QED
    BY <1>2, <2>1, <2>2, AttemptsKept
    DEF Lifecycle!Next, Lifecycle!CancelQueued, Lifecycle!RequestCancel, RequestCancellation,
        reqVars
<1>4. ASSUME NEW c \in Clients, RetryCommit(c) PROVE [Lifecycle!Next]_(Lifecycle!vars)
  <2>a. PICK j \in Jobs : j = retrying[c]
    BY <1>4, RetryKinds
  <2>b. PICK r : r = RetriedRow(j, copy[c])
    OBVIOUS
  <2>1. /\ copy[c] \in JobRecord
        /\ copy[c].state \in Retryable
        /\ copy[c].attempt <= MaxRetries
        /\ job' = [job EXCEPT ![j] = r]
        /\ overwritten' = [overwritten EXCEPT ![j] = @ \/ job[j] \notin {copy[c], r}]
    BY <1>4, <2>a, <2>b, RetryKinds DEF RetryCommit
  <2>2. CASE job[j] = r
    <3>1. job' = job /\ overwritten' = overwritten
      BY <2>1, <2>2, <1>t
    <3>2. QED
      BY <3>1, <1>k
  <2>3. CASE job[j] # r
    <3>1. job[j].state # "deleted"
      BY <2>b, <2>3 DEF RetriedRow
    <3>2. r.state = "queued" /\ r.attempt = job[j].attempt
      BY <2>1, <2>b, <3>1, RetriedColumns
    <3>3. \A i \in Jobs : /\ job'[i].state = IF i = j THEN "queued" ELSE job[i].state
                          /\ job'[i].attempt = job[i].attempt
      BY <2>1, <3>2, <1>t
    <3>4. CASE job[j] = copy[c]
      <4>1. job[j].state \in {"failed", "cancelled"} /\ job[j].attempt <= MaxRetries
        BY <2>1, <3>4 DEF Retryable
      <4>2. overwritten' = overwritten
        BY <2>1, <3>4, <1>t
      <4>3. Lifecycle!Move(j, {"failed", "cancelled"}, "queued")
        BY <2>1, <3>3, <4>1, MoveStep
      <4>4. Lifecycle!Retry(j)
        BY <2>1, <3>3, <4>1, <4>2, <4>3, AttemptsKept DEF Lifecycle!Retry
      <4>5. QED
        BY <2>1, <4>4 DEF Lifecycle!Next
    <3>5. CASE job[j] # copy[c]
      <4>1. overwritten' = [overwritten EXCEPT ![j] = TRUE]
        BY <2>1, <2>3, <3>5, <1>t
      <4>2. CASE job[j].state \in Waiting
        <5>1. job[j].state = "queued"
          BY <2>a, <4>2 DEF Consistent, CopyAccepted, Waiting
        <5>2. ~overwritten[j] => r = job[j]
          <6>1. ~job[j].completed /\ (~overwritten[j] => ~job[j].error)
            BY <2>1, <5>1
            DEF Consistent, RecordMatchesState, RowShowsOutcome, RowOfOneAttempt, Terminal
          <6>2. job[j] \in JobRecord
            BY <1>t
          <6>3. QED
            BY <2>b, <5>1, <6>1, <6>2 DEF RetriedRow, JobRecord
        <5>3. overwritten' = overwritten
          BY <2>1, <2>3, <4>1, <5>2, <1>t
        <5>4. /\ [i \in Jobs |-> job'[i].state] = [i \in Jobs |-> job[i].state]
              /\ [i \in Jobs |-> job'[i].attempt] = [i \in Jobs |-> job[i].attempt]
          BY <3>3, <5>1
        <5>5. QED
          BY <5>3, <5>4 DEF Lifecycle!vars
      <4>3. CASE job[j].state \notin Waiting
        <5>1. Lifecycle!Move(j, {"running", "cancel_requested"} \cup Lifecycle!Settled, "queued")
          BY <2>1, <3>1, <3>3, <4>3, <1>t, MoveStep
          DEF Lifecycle!Settled, JobRecord, JobStates, Active, Terminal, Waiting
        <5>2. Lifecycle!Overwrite(j)
          BY <3>3, <4>1, <5>1, AttemptsKept DEF Lifecycle!Overwrite
        <5>3. QED
          BY <2>1, <5>2 DEF Lifecycle!Next
      <4>4. QED
        BY <4>2, <4>3
    <3>6. QED
      BY <3>4, <3>5
  <2>4. QED
    BY <2>2, <2>3
<1>5. ASSUME NEW q \in Projects, DeleteProject(q) PROVE Lifecycle!Next
  <2>1. \A i \in Jobs : /\ job'[i].attempt = job[i].attempt
                        /\ job'[i].state = IF ProjectOf[i] = q THEN "deleted" ELSE job[i].state
    BY <1>5, <1>t DEF DeleteProject, JobRecord
  <2>2. Lifecycle!Delete({i \in Jobs : ProjectOf[i] = q})
    BY <1>5, <2>1 DEF Lifecycle!Delete, DeleteProject, reqVars
  <2>3. QED
    BY <2>2 DEF Lifecycle!Next
<1>6. ASSUME NEW p \in Procs, ClaimNext(p) PROVE Lifecycle!Next
  <2>1. PICK j \in Jobs : job[j].state = "queued" /\ job' = [job EXCEPT ![j] = ClaimedRow(j)]
    BY <1>6 DEF ClaimNext, Candidates
  <2>2. job[j].attempt <= MaxRetries \/ overwritten[j]
    BY <2>1, <1>t DEF AttemptsBounded, Waiting
  <2>3. \A i \in Jobs :
            /\ job'[i].state = IF i = j THEN "running" ELSE job[i].state
            /\ job'[i].attempt = IF i = j THEN job[j].attempt + 1 ELSE job[i].attempt
    <3>1. job'[j] = ClaimedRow(j) /\ \A i \in Jobs : i # j => job'[i] = job[i]
      BY <2>1, <1>t
    <3>2. QED
      BY <3>1, RowStates, RowAttempts
  <2>4. Lifecycle!Move(j, {"queued"}, "running")
    BY <2>1, <2>3, MoveStep
  <2>5. [i \in Jobs |-> job'[i].attempt]
          = [[i \in Jobs |-> job[i].attempt] EXCEPT ![j] = job[j].attempt + 1]
    BY <2>3
  <2>6. Lifecycle!Start(j)
    BY <1>6, <2>2, <2>4, <2>5 DEF Lifecycle!Start, ClaimNext, reqVars
  <2>7. QED
    BY <2>6 DEF Lifecycle!Next
<1>7. ASSUME NEW p \in Procs, LetGo(p), job' # job PROVE Lifecycle!Next
  <2>1. PICK j \in Jobs : j = running[p]
    BY <1>7 DEF LetGo, Consistent, HolderExecutes
  <2>2. /\ \A i \in Jobs : i # j => job'[i] = job[i]
        /\ \/ job[j].state = "running" /\ job'[j] = SucceededRow(j)
           \/ job[j].state = "running" /\ job'[j] = FailedRow(j)
           \/ job[j].state \in Active /\ job'[j] = CancelledRow(j)
    BY <1>7, <2>1, <1>t DEF LetGo
  <2>3. overwritten' = overwritten /\ \A i \in Jobs : job'[i].attempt = job[i].attempt
    BY <1>7, <2>2, RowAttempts DEF LetGo, reqVars
  <2>4. CASE job[j].state = "running" /\ job'[j] = SucceededRow(j)
    <3>1. \A i \in Jobs : job'[i].state = IF i = j THEN "succeeded" ELSE job[i].state
      BY <2>2, <2>4, RowStates
    <3>2. Lifecycle!Move(j, {"running"}, "succeeded")
      BY <2>4, <3>1, MoveStep
    <3>3. QED
      BY <2>3, <3>2, AttemptsKept DEF Lifecycle!Next, Lifecycle!Succeed
  <2>5. CASE job[j].state = "running" /\ job'[j] = FailedRow(j)
    <3>1. \A i \in Jobs : job'[i].state = IF i = j THEN "failed" ELSE job[i].state
      BY <2>2, <2>5, RowStates
    <3>2. Lifecycle!Move(j, {"running"}, "failed")
      BY <2>5, <3>1, MoveStep
    <3>3. QED
      BY <2>3, <3>2, AttemptsKept DEF Lifecycle!Next, Lifecycle!Fail
  <2>6. CASE job[j].state \in Active /\ job'[j] = CancelledRow(j)
    <3>1. \A i \in Jobs : job'[i].state = IF i = j THEN "cancelled" ELSE job[i].state
      BY <2>2, <2>6, RowStates
    <3>2. Lifecycle!Move(j, {"running", "cancel_requested"}, "cancelled")
      BY <2>6, <3>1, MoveStep DEF Active
    <3>3. QED
      BY <2>3, <3>2, AttemptsKept DEF Lifecycle!Next, Lifecycle!Cancel
  <2>7. QED
    BY <2>2, <2>4, <2>5, <2>6
<1>8. QED
  BY <1>k, <1>o, <1>1, <1>2, <1>4, <1>5, <1>6, <1>7, StepKinds
  DEF RetryLoad, QuietStep, LetGo, reqVars

\* The rows of the queue, with all its processes and requests, behave as the life
\* cycle promises, outdated retries appearing as its Overwrite steps.
THEOREM Refinement == Spec => ImplementsLifecycle
<1>1. TypeOK /\ Consistent /\ [Next]_vars => [Lifecycle!Next]_(Lifecycle!vars)
  BY NextRefines
<1>2. QED
  BY <1>1, InitRefines, TypeCorrect, ConsistentInvariant, PTL
  DEF Spec, ImplementsLifecycle, Lifecycle!Spec

-----------------------------------------------------------------------------
(***************************************************************************)
(* A single client retries one job after the other.  Then the row of a     *)
(* pending retry is the copy it decided on, unless its project is gone:    *)
(* every other step needs the row queued or active.  So nothing is ever    *)
(* overwritten, and what the theorems above promise the jobs that no       *)
(* outdated retry touched, they promise every job.                         *)
(***************************************************************************)
OneClient == \A c, d \in Clients : c = d

Fresh == /\ \A j \in Jobs : ~overwritten[j]
         /\ \A c \in Clients : retrying[c] \in Jobs =>
                job[retrying[c]] = copy[c] \/ job[retrying[c]].state = "deleted"

LEMMA FreshPreserved ==
    ASSUME OneClient, TypeOK, Consistent, Fresh, [Next]_vars
    PROVE  Fresh'
<1>t. /\ job \in [Jobs -> JobRecord]
      /\ retrying \in [Clients -> Jobs \cup {NoJob}]
      /\ copy \in [Clients -> JobRecord]
      /\ overwritten \in [Jobs -> BOOLEAN]
      /\ NoJob \notin Jobs
      /\ CopyAccepted
  BY JobQueueAssumption DEF JobQueueAssumption, TypeOK, Consistent
\* A step that changes only rows no retry accepts, or deletes, disturbs no pending retry.
<1>h. ASSUME UNCHANGED reqVars,
             \A i \in Jobs : \/ job'[i] = job[i]
                            \/ job'[i].state = "deleted"
                            \/ job[i].state \notin Retryable \cup {"deleted"}
      PROVE  Fresh'
  BY <1>h, <1>t DEF Fresh, reqVars, CopyAccepted
<1>1. ASSUME NEW j \in Jobs, Submit(j) \/ RequestCancellation(j) PROVE Fresh'
  <2>1. /\ job[j].state \notin Retryable \cup {"deleted"}
        /\ \A i \in Jobs : i # j => job'[i] = job[i]
        /\ UNCHANGED reqVars
    BY <1>1, <1>t DEF Submit, RequestCancellation, Retryable
  <2>2. QED
    BY <2>1, <1>h
<1>3. ASSUME NEW c \in Clients, NEW j \in Jobs, RetryLoad(c, j) PROVE Fresh'
  BY <1>3, <1>t DEF RetryLoad, Fresh
<1>4. ASSUME NEW c \in Clients, RetryCommit(c) PROVE Fresh'
  <2>1. retrying' = [retrying EXCEPT ![c] = NoJob]
    BY <1>4 DEF RetryCommit
  <2>2. \A d \in Clients : retrying'[d] = NoJob
    BY <2>1, <1>t DEF OneClient
  <2>3. \A i \in Jobs : ~overwritten'[i]
    <3>1. /\ retrying[c] \in Jobs
          /\ overwritten' = [overwritten EXCEPT ![retrying[c]] =
                @ \/ job[retrying[c]] \notin {copy[c], RetriedRow(retrying[c], copy[c])}]
      BY <1>4, <1>t DEF RetryCommit
    <3>2. job[retrying[c]] \in {copy[c], RetriedRow(retrying[c], copy[c])}
      BY <3>1 DEF Fresh, RetriedRow
    <3>3. QED
      BY <3>1, <3>2, <1>t DEF Fresh
  <2>4. QED
    BY <2>2, <2>3, <1>t DEF Fresh
<1>5. ASSUME NEW q \in Projects, DeleteProject(q) PROVE Fresh'
  <2>1. \A i \in Jobs : job'[i] = job[i] \/ job'[i].state = "deleted"
    BY <1>5, <1>t DEF DeleteProject, JobRecord
  <2>2. QED
    BY <1>5, <2>1, <1>h DEF DeleteProject
<1>6. ASSUME NEW p \in Procs, ClaimNext(p) PROVE Fresh'
  <2>1. PICK j \in Jobs : job[j].state = "queued" /\ job' = [job EXCEPT ![j] = ClaimedRow(j)]
    BY <1>6 DEF ClaimNext, Candidates
  <2>2. job[j].state \notin Retryable \cup {"deleted"}
    BY <2>1 DEF Retryable
  <2>3. QED
    BY <1>6, <2>1, <2>2, <1>h, <1>t DEF ClaimNext
<1>7. ASSUME NEW p \in Procs, LetGo(p) PROVE Fresh'
  <2>1. \A i \in Jobs : job'[i] = job[i] \/ job[i].state \in Active
    BY <1>7, <1>t DEF LetGo, Active
  <2>2. QED
    BY <1>7, <2>1, <1>h DEF LetGo, Active, Retryable
<1>8. CASE QuietStep
  BY <1>8, <1>h DEF QuietStep
<1>9. QED
  BY <1>1, <1>3, <1>4, <1>5, <1>6, <1>7, <1>8, StepKinds

\* With one client no retry ever writes over a row it did not read (retry_job).
THEOREM OneClientNeverOverwrites ==
    ASSUME OneClient PROVE Spec => [](\A j \in Jobs : ~overwritten[j])
<1>1. Init => Fresh
  BY JobQueueAssumption DEF JobQueueAssumption, Init, Fresh
<1>2. TypeOK /\ Consistent /\ Fresh /\ [Next]_vars => Fresh'
  BY FreshPreserved
<1>3. Fresh => \A j \in Jobs : ~overwritten[j]
  BY DEF Fresh
<1>4. QED
  BY <1>1, <1>2, <1>3, TypeCorrect, ConsistentInvariant, PTL DEF Spec

\* With one client a succeeded job stays succeeded until its project is deleted
\* (mark_succeeded, retry).
THEOREM OneClientSuccessFinal ==
    ASSUME OneClient PROVE Spec => SuccessIsFinal
<1>1. ASSUME TypeOK, Consistent, [Next]_vars, \A j \in Jobs : ~overwritten'[j],
             NEW j \in Jobs, job[j].state = "succeeded"
      PROVE  job'[j].state \in {"succeeded", "deleted"}
  <2>1. [Lifecycle!Next]_(Lifecycle!vars)
    BY <1>1, NextRefines
  <2>2. ~Lifecycle!Overwrite(j)
    <3>1. overwritten' # [overwritten EXCEPT ![j] = TRUE]
      BY <1>1 DEF TypeOK
    <3>2. QED
      BY <3>1 DEF Lifecycle!Overwrite
  <2>3. QED
    BY <1>1, <2>1, <2>2
    DEF Lifecycle!Next, Lifecycle!vars, Lifecycle!Move, Lifecycle!Submit, Lifecycle!Start,
        Lifecycle!CancelQueued, Lifecycle!RequestCancel, Lifecycle!Succeed, Lifecycle!Fail,
        Lifecycle!Cancel, Lifecycle!Retry, Lifecycle!Overwrite, Lifecycle!Delete
<1>2. TypeOK /\ Consistent /\ (\A j \in Jobs : ~overwritten[j])' /\ [Next]_vars =>
        [\A j \in Jobs : job[j].state = "succeeded" => job'[j].state \in {"succeeded", "deleted"}]_vars
  BY <1>1
<1>3. QED
  BY <1>2, TypeCorrect, ConsistentInvariant, OneClientNeverOverwrites, PTL DEF Spec, SuccessIsFinal
=============================================================================
