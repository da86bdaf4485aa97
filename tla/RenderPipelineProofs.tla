------------------------ MODULE RenderPipelineProofs ------------------------
(***************************************************************************)
(* Proofs about RenderPipeline, for any number of runs and shots.  All the *)
(* safety invariants rest on where a run's local state stands with respect *)
(* to its label: LocalInv.                                                 *)
(***************************************************************************)
EXTENDS RenderPipeline, TLAPS

Ready == {"VIDEO_READY", "LIPSYNC_READY", "CONTINUITY_READY"}

\* Labels at which the run has begun shot at[r] and not finished it.
Begun == InTry \cup {"planning", "fallback", "selecting", "marking"}

\* The label, the loop index and the stage of the current shot fit together,
\* and a run that is not idle has counted its attempt.
Local(r) ==
    /\ pc[r] \in Begun => at[r] \in Shots
    /\ pc[r] \in {"assembling", "publishing", "completing"} => at[r] = NumShots + 1
    /\ pc[r] = "stage" => copy[r][at[r]] \in Working \cup Ready
    /\ pc[r] = "checked" => copy[r][at[r]] \in Working
    /\ pc[r] \in {"planning", "fallback"} => copy[r][at[r]] \notin InProgress
    /\ pc[r] # "idle" => attempt[r] >= 1

LocalInv == \A r \in Runs : Local(r)

\* Whatever happens to one run: a request for its job, or a step of its own.
RunStep(r) == \/ Enqueue(r) \/ RequestCancellation(r) \/ RetryJob(r)
              \/ Claim(r) \/ Proceed(r) \/ PersistFallback(r) \/ Crash(r)

\* The statuses the model names are shot statuses.
LEMMA StatusNames ==
    /\ Working \subseteq ShotStatus
    /\ Ready \subseteq ShotStatus
    /\ Rendered \subseteq ShotStatus
    /\ {"FAILED", "APPROVED", "AWAITING_APPROVAL"} \subseteq ShotStatus
    /\ {"AUDIO_PENDING", "KEYFRAMES_PENDING", "VIDEO_PENDING"} \subseteq ShotStatus
  BY DEF Working, Ready, Rendered, ShotStatus, TRANSITIONS

\* The status after a stage, QA excepted: from work to its result, from a
\* result to the next work.
LEMMA NextStatusKinds ==
    ASSUME NEW s, NEW st
    PROVE  /\ st \in Working \ {"QA_PENDING"} => NextStatus(s)[st] \in Ready
           /\ st \in Ready => NextStatus(s)[st] \in Working
  BY DEF Working, Ready, NextStatus, StageAfter

LEMMA FirstStatusType ==
    ASSUME NEW s, NEW st
    PROVE  FirstStatus(s, st) \in ShotStatus
  BY StatusNames DEF FirstStatus
-----------------------------------------------------------------------------
(* Type correctness, together with the consistency of the local state *)

LEMMA InitTypeOK == ASSUME RenderPipelineAssumption PROVE Init => TypeOK /\ LocalInv
  <1> SUFFICES ASSUME RenderPipelineAssumption, Init PROVE TypeOK /\ LocalInv
    OBVIOUS
  <1>1. status \in [Shots -> ShotStatus]
    BY StatusNames DEF Init
  <1>2. chosen \in [Shots -> Candidates \cup {NoCandidate}]
    BY DEF Init
  <1>3. TypeOK
    BY <1>1, <1>2 DEF RenderPipelineAssumption, Init, TypeOK, Life!Init, JobStates, PCs
  <1>4. LocalInv
    BY DEF Init, LocalInv, Local, Begun, InTry
  <1> QED BY <1>3, <1>4

\* What the steps of JobLifecycle do to the two columns they own.
LEMMA LifeTypes ==
    ASSUME RenderPipelineAssumption, TypeOK, NEW r \in Runs,
           \/ Life!Submit(r) \/ Life!Start(r) \/ Life!CancelQueued(r) \/ Life!RequestCancel(r)
           \/ Life!Succeed(r) \/ Life!Fail(r) \/ Life!Cancel(r) \/ Life!Retry(r)
    PROVE  job' \in [Runs -> JobStates] /\ attempt' \in [Runs -> 0 .. MaxRetries + 1]
  <1>1. job' \in [Runs -> JobStates]
    BY DEF TypeOK, JobStates, Life!Settled, Life!Submit, Life!Start, Life!CancelQueued,
           Life!RequestCancel, Life!Succeed, Life!Fail, Life!Cancel, Life!Retry, Life!Move
  <1>2. CASE Life!Start(r)
    BY <1>1, <1>2 DEF RenderPipelineAssumption, TypeOK, Life!Start
  <1>3. CASE ~Life!Start(r)
    BY <1>1, <1>3 DEF TypeOK, Life!Submit, Life!CancelQueued, Life!RequestCancel,
           Life!Succeed, Life!Fail, Life!Cancel, Life!Retry
  <1> QED BY <1>2, <1>3

LEMMA MineType ==
    ASSUME RenderPipelineAssumption, TypeOK, LocalInv, NEW r \in Runs, pc[r] # "idle"
    PROVE  Mine(r) \in Candidates
  BY DEF TypeOK, LocalInv, Local, Mine, Candidates

LEMMA NestedUpdate ==
    ASSUME NEW S, NEW f \in [Runs -> [Shots -> S]], NEW r, NEW s, NEW x \in S
    PROVE  [f EXCEPT ![r][s] = x] \in [Runs -> [Shots -> S]]
  OBVIOUS

LEMMA TypeStep ==
    ASSUME RenderPipelineAssumption, TypeOK, LocalInv, [Next]_vars
    PROVE  TypeOK'
  <1> USE RenderPipelineAssumption
  <1>1. ASSUME NEW r \in Runs, Enqueue(r) \/ RequestCancellation(r) \/ RetryJob(r)
        PROVE  TypeOK'
    <2>1. job' \in [Runs -> JobStates] /\ attempt' \in [Runs -> 0 .. MaxRetries + 1]
      BY <1>1, LifeTypes DEF Enqueue, RequestCancellation, RetryJob
    <2> QED BY <1>1, <2>1 DEF TypeOK, Enqueue, RequestCancellation, RetryJob, dbVars, runVars
  <1>2. ASSUME NEW s \in Shots, Approve(s) PROVE TypeOK'
    BY <1>2, StatusNames DEF TypeOK, Approve, runVars
  <1>3. ASSUME NEW r \in Runs, Claim(r) PROVE TypeOK'
    <2>1. job' \in [Runs -> JobStates] /\ attempt' \in [Runs -> 0 .. MaxRetries + 1]
      BY <1>3, LifeTypes DEF Claim
    <2>2. copy' \in [Runs -> [Shots -> ShotStatus]]
      BY <1>3 DEF TypeOK, Claim
    <2>3. ending' \in [Runs -> [Shots -> Candidates \cup {NoCandidate}]]
      BY <1>3 DEF TypeOK, Claim
    <2>4. input' \in [Runs -> [Shots -> Candidates \cup {NoCandidate}]]
      BY <1>3 DEF TypeOK, Claim
    <2>5. /\ at' \in [Runs -> 1 .. NumShots + 1]
          /\ late' \in [Runs -> Nat]
          /\ pc' \in [Runs -> PCs]
      BY <1>3 DEF TypeOK, Claim, Goto, PCs, OutsideTry, RenderPipelineAssumption
    <2> QED BY <1>3, <2>1, <2>2, <2>3, <2>4, <2>5 DEF TypeOK, Claim, dbVars
  <1>4. ASSUME NEW r \in Runs, StartShot(r) PROVE TypeOK'
    <2>1. InputOf(r, at[r]) \in Candidates \cup {NoCandidate}
      BY <1>4 DEF TypeOK, StartShot, InputOf, RenderPipelineAssumption, Shots
    <2> DEFINE to == FirstStatus(at[r], copy[r][at[r]])
    <2>2. to \in ShotStatus
      BY FirstStatusType
    <2>a. UNCHANGED copy \/ copy' = [copy EXCEPT ![r][at[r]] = to]
      BY <1>4 DEF StartShot
    <2> HIDE DEF to
    <2>3. copy' \in [Runs -> [Shots -> ShotStatus]]
      <3>1. copy \in [Runs -> [Shots -> ShotStatus]]
        BY DEF TypeOK
      <3>2. [copy EXCEPT ![r][at[r]] = to] \in [Runs -> [Shots -> ShotStatus]]
        BY <2>2, <3>1, NestedUpdate
      <3> QED BY <2>a, <3>1, <3>2
    <2>4. input' \in [Runs -> [Shots -> Candidates \cup {NoCandidate}]]
      <3>1. CASE UNCHANGED input
        BY <3>1 DEF TypeOK
      <3>2. CASE input' = [input EXCEPT ![r][at[r]] = InputOf(r, at[r])]
        BY <2>1, <3>2, NestedUpdate DEF TypeOK
      <3> QED BY <1>4, <3>1, <3>2 DEF StartShot
    <2> QED BY <1>4, <2>3, <2>4 DEF TypeOK, StartShot, Goto, dbVars, PCs, OutsideTry
  <1>5. ASSUME NEW r \in Runs, PersistFallback(r) PROVE TypeOK'
    <2>1. at[r] \in Shots
      BY <1>5 DEF PersistFallback, LocalInv, Local, Begun
    <2> QED BY <1>5, <2>1 DEF TypeOK, PersistFallback, CountLate, Goto, PCs, OutsideTry
  <1>6. ASSUME NEW r \in Runs,
               TryFallback(r) \/ CheckStage(r) \/ LeaveTry(r) \/ Assemble(r) \/ CheckAssembly(r)
        PROVE  TypeOK'
    BY <1>6 DEF TypeOK, TryFallback, CheckStage, LeaveTry, Assemble, CheckAssembly, Goto,
                dbVars, PCs, InTry, OutsideTry
  <1>7. ASSUME NEW r \in Runs, NEW to \in ShotStatus, at[r] \in Shots, Commit(r, to)
        PROVE  /\ copy' \in [Runs -> [Shots -> ShotStatus]]
               /\ status' \in [Shots -> ShotStatus]
               /\ late' \in [Runs -> Nat]
    BY <1>7 DEF TypeOK, Commit, CountLate
  <1>8. ASSUME NEW r \in Runs, BeginVideo(r) PROVE TypeOK'
    <2>1. at[r] \in Shots /\ "VIDEO_GENERATING" \in ShotStatus
      BY <1>8, StatusNames DEF BeginVideo, LocalInv, Local, Begun, Working
    <2>2. Commit(r, "VIDEO_GENERATING")
      BY <1>8 DEF BeginVideo
    <2> QED BY <1>7, <1>8, <2>1, <2>2 DEF TypeOK, BeginVideo, Goto, PCs, InTry
  <1>9. ASSUME NEW r \in Runs, CommitStage(r) PROVE TypeOK'
    <2> DEFINE st == copy[r][at[r]]
               to == NextStatus(at[r])[st]
    <2>1. at[r] \in Shots
      BY <1>9 DEF CommitStage, LocalInv, Local, Begun
    <2>2. st \in (Working \ {"QA_PENDING"}) \cup Ready
      BY <1>9 DEF CommitStage, LocalInv, Local, InTry
    <2>3. to \in ShotStatus
      BY <2>2, NextStatusKinds, StatusNames
    <2>4. Commit(r, to)
      BY <1>9 DEF CommitStage
    <2> HIDE DEF to
    <2> QED BY <1>7, <1>9, <2>1, <2>3, <2>4 DEF TypeOK, CommitStage, Goto, PCs, InTry
  <1>10. ASSUME NEW r \in Runs, SelectClip(r) PROVE TypeOK'
    <2>1. at[r] \in Shots /\ Mine(r) \in Candidates
      BY <1>10, MineType DEF SelectClip, LocalInv, Local, Begun
    <2>2. PICK verdict \in Rendered : Commit(r, verdict)
      BY <1>10 DEF SelectClip
    <2>3. verdict \in ShotStatus
      BY StatusNames
    <2>4. /\ selected' \in [Shots -> SUBSET Candidates]
          /\ chosen' \in [Shots -> Candidates \cup {NoCandidate}]
          /\ ending' \in [Runs -> [Shots -> Candidates \cup {NoCandidate}]]
      BY <1>10, <2>1 DEF TypeOK, SelectClip, Superseding
    <2>5. at' \in [Runs -> 1 .. NumShots + 1] /\ pc' \in [Runs -> PCs]
      BY <1>10, <2>1 DEF TypeOK, SelectClip, Goto, Shots, PCs, OutsideTry, RenderPipelineAssumption
    <2> QED BY <1>7, <1>10, <2>1, <2>2, <2>3, <2>4, <2>5 DEF TypeOK, SelectClip
  <1>11. ASSUME NEW r \in Runs, Publish(r) PROVE TypeOK'
    <2>1. Mine(r) \in Candidates
      BY <1>11, MineType DEF Publish
    <2>2. renders' \subseteq [clip : Candidates, input : [Shots -> Candidates \cup {NoCandidate}]]
      BY <1>11, <2>1 DEF TypeOK, Publish
    <2> QED BY <1>11, <2>2 DEF TypeOK, Publish, CountLate, Goto, PCs, OutsideTry
  <1>12. ASSUME NEW r \in Runs, MarkSucceeded(r) \/ MarkEnded(r) PROVE TypeOK'
    <2>1. job' \in [Runs -> JobStates] /\ attempt' \in [Runs -> 0 .. MaxRetries + 1]
      BY <1>12, LifeTypes DEF MarkSucceeded, MarkEnded
    <2>2. CASE MarkSucceeded(r)
      BY <2>1, <2>2 DEF TypeOK, MarkSucceeded, Goto, dbVars, PCs
    <2>3. CASE MarkEnded(r)
      BY <2>1, <2>3 DEF TypeOK, MarkEnded, Goto, dbVars, PCs
    <2> QED BY <1>12, <2>2, <2>3
  <1>13. ASSUME NEW r \in Runs, Raise(r) \/ MarkFailedShot(r) \/ HandlerRaises(r) PROVE TypeOK'
    <2>1. status' \in [Shots -> ShotStatus]
      BY <1>13, StatusNames DEF TypeOK, Raise, MarkFailedShot, HandlerRaises, dbVars
    <2>2. unmarked' \subseteq Shots
      BY <1>13 DEF TypeOK, Raise, MarkFailedShot, HandlerRaises, dbVars, LocalInv, Local, Begun
    <2>3. pc' \in [Runs -> PCs]
      BY <1>13 DEF TypeOK, Raise, MarkFailedShot, HandlerRaises, Goto, PCs
    <2>4. UNCHANGED <<job, attempt, chosen, selected, renders, at, copy, ending, input, late>>
      BY <1>13 DEF Raise, MarkFailedShot, HandlerRaises, dbVars
    <2> QED BY <2>1, <2>2, <2>3, <2>4 DEF TypeOK
  <1>14. ASSUME NEW r \in Runs, Crash(r) PROVE TypeOK'
    BY <1>14 DEF TypeOK, Crash, Goto, dbVars, PCs
  <1>15. CASE UNCHANGED vars
    BY <1>15 DEF TypeOK, vars, dbVars, runVars
  <1> QED
    BY <1>1, <1>2, <1>3, <1>4, <1>5, <1>6, <1>8, <1>9, <1>10, <1>11, <1>12, <1>13, <1>14, <1>15
       DEF Next, Request, Proceed

\* A step of one run leaves the local state and the job of the others alone.
LEMMA Frame ==
    ASSUME TypeOK, NEW r \in Runs, RunStep(r), NEW q \in Runs, q # r
    PROVE  /\ pc'[q] = pc[q] /\ at'[q] = at[q] /\ copy'[q] = copy[q]
           /\ ending'[q] = ending[q] /\ input'[q] = input[q] /\ late'[q] = late[q]
           /\ job'[q] = job[q] /\ attempt'[q] = attempt[q]
  <1>1. ASSUME \/ Life!Submit(r) \/ Life!Start(r) \/ Life!CancelQueued(r) \/ Life!RequestCancel(r)
               \/ Life!Succeed(r) \/ Life!Fail(r) \/ Life!Cancel(r) \/ Life!Retry(r)
        PROVE  job'[q] = job[q] /\ attempt'[q] = attempt[q]
    BY <1>1 DEF TypeOK, Life!Submit, Life!Start, Life!CancelQueued, Life!RequestCancel,
                Life!Succeed, Life!Fail, Life!Cancel, Life!Retry, Life!Move
  <1>2. CASE Enqueue(r) \/ RequestCancellation(r) \/ RetryJob(r)
    BY <1>1, <1>2 DEF Enqueue, RequestCancellation, RetryJob, runVars
  <1>3. CASE Claim(r)
    BY <1>1, <1>3 DEF TypeOK, Claim, Goto
  <1>4. CASE StartShot(r)
    BY <1>4 DEF TypeOK, StartShot, Goto
  <1>5. CASE PersistFallback(r)
    BY <1>5 DEF TypeOK, PersistFallback, CountLate, Goto
  <1>6. CASE TryFallback(r) \/ CheckStage(r) \/ LeaveTry(r) \/ Assemble(r) \/ CheckAssembly(r)
    BY <1>6 DEF TypeOK, TryFallback, CheckStage, LeaveTry, Assemble, CheckAssembly, Goto
  <1>7. CASE BeginVideo(r)
    BY <1>7 DEF TypeOK, BeginVideo, Commit, CountLate, Goto
  <1>8. CASE CommitStage(r)
    BY <1>8 DEF TypeOK, CommitStage, Commit, CountLate, Goto
  <1>9. CASE SelectClip(r)
    BY <1>9 DEF TypeOK, SelectClip, Commit, CountLate, Goto
  <1>10. CASE Publish(r)
    BY <1>10 DEF TypeOK, Publish, CountLate, Goto
  <1>11. CASE MarkSucceeded(r) \/ MarkEnded(r)
    BY <1>1, <1>11 DEF TypeOK, MarkSucceeded, MarkEnded, Goto
  <1>12. CASE Raise(r) \/ MarkFailedShot(r) \/ HandlerRaises(r) \/ Crash(r)
    BY <1>12 DEF TypeOK, Raise, MarkFailedShot, HandlerRaises, Crash, Goto
  <1> QED
    BY <1>2, <1>3, <1>4, <1>5, <1>6, <1>7, <1>8, <1>9, <1>10, <1>11, <1>12 DEF RunStep, Proceed

\* A run's own steps preserve the consistency of its local state.
LEMMA LocalStep ==
    ASSUME RenderPipelineAssumption, TypeOK, NEW r \in Runs, RunStep(r), Local(r)
    PROVE  Local(r)'
  <1> USE DEF TypeOK, Local, Begun, InTry, Goto
  <1>1. CASE Enqueue(r) \/ RequestCancellation(r) \/ RetryJob(r)
    BY <1>1 DEF Enqueue, RequestCancellation, RetryJob, runVars, Life!Submit, Life!CancelQueued,
                Life!RequestCancel, Life!Retry
  <1>2. CASE Claim(r)
    BY <1>2 DEF Claim, Life!Start
  <1>3. CASE StartShot(r)
    BY <1>3 DEF StartShot, FirstStatus, InProgress, Working
  <1>4. CASE PersistFallback(r) \/ TryFallback(r)
    BY <1>4 DEF PersistFallback, TryFallback
  <1>5. CASE BeginVideo(r)
    BY <1>5 DEF BeginVideo, Commit, Working
  <1>6. CASE CheckStage(r) \/ LeaveTry(r)
    BY <1>6 DEF CheckStage, LeaveTry
  <1>7. CASE CommitStage(r)
    <2> DEFINE st == copy[r][at[r]]
               to == NextStatus(at[r])[st]
    <2>1. st \in (Working \ {"QA_PENDING"}) \cup Ready
      BY <1>7 DEF CommitStage
    <2>2. to \in Working \cup Ready
      BY <2>1, NextStatusKinds
    <2>3. copy' = [copy EXCEPT ![r][at[r]] = to] /\ UNCHANGED <<at, attempt>>
      BY <1>7 DEF CommitStage, Commit
    <2>4. pc[r] \in InTry /\ pc' = [pc EXCEPT ![r] = "stage"]
      BY <1>7 DEF CommitStage
    <2> HIDE DEF to
    <2> QED BY <2>2, <2>3, <2>4
  <1>8. CASE SelectClip(r)
    BY <1>8 DEF SelectClip
  <1>9. CASE Assemble(r) \/ CheckAssembly(r) \/ Publish(r)
    BY <1>9 DEF Assemble, CheckAssembly, Publish
  <1>10. CASE MarkSucceeded(r) \/ MarkEnded(r)
    BY <1>10 DEF MarkSucceeded, MarkEnded
  <1>11. CASE Raise(r) \/ MarkFailedShot(r) \/ HandlerRaises(r) \/ Crash(r)
    BY <1>11 DEF Raise, MarkFailedShot, HandlerRaises, Crash, OutsideTry
  <1> QED
    BY <1>1, <1>2, <1>3, <1>4, <1>5, <1>6, <1>7, <1>8, <1>9, <1>10, <1>11 DEF RunStep, Proceed

\* Every step is a step of one run, an approval, or none.
LEMMA StepKinds ==
    ASSUME [Next]_vars
    PROVE  (\E r \in Runs : RunStep(r)) \/ (\E s \in Shots : Approve(s)) \/ UNCHANGED vars
  BY DEF Next, Request, RunStep

LEMMA LocalInvStep ==
    ASSUME RenderPipelineAssumption, TypeOK, LocalInv, [Next]_vars
    PROVE  LocalInv'
  <1>1. ASSUME NEW r \in Runs, RunStep(r), NEW q \in Runs PROVE Local(q)'
    <2>1. CASE q = r
      BY <1>1, <2>1, LocalStep DEF LocalInv
    <2>2. CASE q # r
      BY <1>1, <2>2, Frame DEF LocalInv, Local
    <2> QED BY <2>1, <2>2
  <1>2. ASSUME (\E s \in Shots : Approve(s)) \/ UNCHANGED vars PROVE LocalInv'
    BY <1>2 DEF Approve, vars, runVars, LocalInv, Local
  <1> QED BY <1>1, <1>2, StepKinds DEF LocalInv

\* Every variable keeps its type, for any number of shots and of runs.
THEOREM TypeCorrect == ASSUME RenderPipelineAssumption PROVE Spec => []TypeOK
  <1>1. Init => TypeOK /\ LocalInv
    BY InitTypeOK
  <1>2. TypeOK /\ LocalInv /\ [Next]_vars => TypeOK' /\ LocalInv'
    BY TypeStep, LocalInvStep
  <1> QED BY <1>1, <1>2, PTL DEF Spec

-----------------------------------------------------------------------------
(* No mark of work without a run at it *)

LEMMA OwnedInit == ASSUME RenderPipelineAssumption PROVE Init => InProgressOwned
  BY DEF Init, InProgressOwned, InProgress, Working

\* A witness r other than the run that steps is still one; the run that steps
\* is one if it writes such a mark, and clears the mark if it leaves.
LEMMA OwnedStep ==
    ASSUME RenderPipelineAssumption, TypeOK, LocalInv, InProgressOwned, [Next]_vars
    PROVE  InProgressOwned'
  <1> DEFINE Owns(r, s) == /\ at[r] = s
                           /\ pc[r] \in InTry \cup {"marking", "dead"}
                           /\ copy[r][s] = status[s]
  <1>1. ASSUME NEW r \in Runs, RunStep(r), NEW s \in Shots \ unmarked', status'[s] \in InProgress
        PROVE  \E q \in Runs : Owns(q, s)'
    <2>1. CASE status'[s] = status[s]
      <3>0. s \notin unmarked
        BY <1>1 DEF RunStep, Proceed, Claim, StartShot, TryFallback, PersistFallback, BeginVideo,
           CheckStage, CommitStage, LeaveTry, SelectClip, Assemble, CheckAssembly, Publish,
           MarkSucceeded, MarkEnded, Raise, MarkFailedShot, HandlerRaises, Crash, Enqueue,
           RequestCancellation, RetryJob, dbVars
      <3>1. PICK q \in Runs : Owns(q, s)
        BY <1>1, <2>1, <3>0 DEF InProgressOwned
      <3>2. CASE q # r
        BY <1>1, <2>1, <3>1, <3>2, Frame
      <3>3. CASE q = r
        <4>1. copy[r][at[r]] \in InProgress /\ pc[r] \in InTry \cup {"marking", "dead"}
          BY <1>1, <2>1, <3>1, <3>3
        <4>2. \/ CheckStage(r) \/ CommitStage(r) \/ Raise(r) \/ MarkFailedShot(r)
              \/ HandlerRaises(r) \/ Crash(r)
              \/ Enqueue(r) \/ RequestCancellation(r) \/ RetryJob(r)
          BY <1>1, <4>1 DEF RunStep, Proceed, InProgress, Working, InTry, Claim, StartShot,
             TryFallback, PersistFallback, BeginVideo, LeaveTry, SelectClip, Assemble,
             CheckAssembly, Publish, MarkSucceeded, MarkEnded
        <4>3. ~MarkFailedShot(r) /\ ~HandlerRaises(r)
          BY <1>1, <2>1, <3>1, <3>3 DEF MarkFailedShot, HandlerRaises, TypeOK, InProgress, Working
        <4>6. CASE Raise(r)
          <5>1. Interrupted(s) /\ at[r] = s
            BY <1>1, <2>1, <3>1, <3>3 DEF Interrupted, InProgress
          <5>2. pc'[r] = "marking" /\ UNCHANGED <<at, copy, status>>
            BY <4>1, <4>6, <5>1 DEF Raise, Goto, TypeOK, dbVars, OutsideTry, InTry
          <5> QED BY <3>1, <3>3, <5>2
        <4>4. CASE CheckStage(r) \/ Crash(r) \/ Enqueue(r) \/ RequestCancellation(r) \/ RetryJob(r)
          BY <2>1, <3>1, <3>3, <4>4 DEF CheckStage, Crash, Enqueue, RequestCancellation,
             RetryJob, runVars, Goto, TypeOK, InTry
        <4>5. CASE CommitStage(r)
          BY <2>1, <3>1, <3>3, <4>5 DEF CommitStage, Commit, Goto, TypeOK, InTry
        <4> QED BY <4>2, <4>3, <4>4, <4>5, <4>6
      <3> QED BY <3>2, <3>3
    <2>2. CASE status'[s] # status[s]
      <3>1. \/ PersistFallback(r) \/ BeginVideo(r) \/ CommitStage(r) \/ SelectClip(r)
            \/ MarkFailedShot(r)
        BY <1>1, <2>2 DEF RunStep, Proceed, Claim, StartShot, TryFallback, CheckStage, LeaveTry,
           Assemble, CheckAssembly, Publish, MarkSucceeded, MarkEnded, Raise, HandlerRaises,
           Crash, Enqueue, RequestCancellation, RetryJob, dbVars
      <3>2. ~MarkFailedShot(r)
        BY <1>1, <2>2 DEF MarkFailedShot, TypeOK, InProgress, Working
      <3>3. ~SelectClip(r)
        BY <1>1, <2>2 DEF SelectClip, Commit, TypeOK, InProgress, Working, Rendered
      <3>4. ~PersistFallback(r)
        BY <1>1, <2>2 DEF PersistFallback, TypeOK, LocalInv, Local
      <3>5. CASE BeginVideo(r)
        BY <1>1, <2>2, <3>5 DEF BeginVideo, Commit, Goto, TypeOK, InTry
      <3>6. CASE CommitStage(r)
        BY <1>1, <2>2, <3>6 DEF CommitStage, Commit, Goto, TypeOK, InTry
      <3> QED BY <3>1, <3>2, <3>3, <3>4, <3>5, <3>6
    <2> QED BY <2>1, <2>2
  <1>2. CASE \E s \in Shots : Approve(s)
    BY <1>2 DEF Approve, runVars, InProgressOwned, InProgress, Working, TypeOK
  <1>3. CASE UNCHANGED vars
    BY <1>3 DEF vars, dbVars, runVars, InProgressOwned
  <1> QED BY <1>1, <1>2, <1>3, StepKinds DEF InProgressOwned

-----------------------------------------------------------------------------
(* One selected candidate *)

LEMMA SelectionStep ==
    ASSUME RenderPipelineAssumption, TypeOK, LocalInv, SingleSelection, [Next]_vars
    PROVE  SingleSelection'
  <1>1. ASSUME NEW r \in Runs, SelectClip(r) PROVE SingleSelection'
    <2>1. Mine(r) \in Candidates /\ Mine(r) # NoCandidate
      BY <1>1, MineType DEF SelectClip, RenderPipelineAssumption
    <2> QED BY <1>1, <2>1 DEF SelectClip, Superseding, SingleSelection, TypeOK
  <1>2. ASSUME NEW r \in Runs, RunStep(r), ~SelectClip(r) PROVE UNCHANGED <<selected, chosen>>
    BY <1>2 DEF RunStep, Proceed, Claim, StartShot, TryFallback, PersistFallback, BeginVideo,
       CheckStage, CommitStage, LeaveTry, Assemble, CheckAssembly, Publish, MarkSucceeded,
       MarkEnded, Raise, MarkFailedShot, HandlerRaises, Crash, Enqueue, RequestCancellation,
         RetryJob, dbVars
  <1>3. ASSUME (\E s \in Shots : Approve(s)) \/ UNCHANGED vars
        PROVE  UNCHANGED <<selected, chosen>>
    BY <1>3 DEF Approve, vars, dbVars
  <1>4. UNCHANGED <<selected, chosen>> => SingleSelection'
    BY DEF SingleSelection
  <1> QED BY <1>1, <1>2, <1>3, <1>4, StepKinds

-----------------------------------------------------------------------------
(* Continuity of the published renders *)

Active(r) == pc[r] \in InTry \cup OutsideTry

\* The shots behind the loop end in the attempt's own clips, and the clips that
\* were begun start from the attempt's own clip before them.
Continuity(r) ==
    Active(r) => \A s \in Shots :
        /\ s < at[r] => ending[r][s] = Mine(r)
        /\ s \in Connected /\ (s < at[r] \/ (s = at[r] /\ pc[r] \in Begun))
               => input[r][s] = Mine(r)

ContinuityInv == /\ \A r \in Runs : Continuity(r)
                 /\ ContinuousRenders

LEMMA ContinuityOfRun ==
    ASSUME RenderPipelineAssumption, TypeOK, NEW r \in Runs, RunStep(r), Local(r), Continuity(r)
    PROVE  Continuity(r)'
  <1> USE DEF TypeOK, Continuity, Active, Mine, Begun, InTry, OutsideTry, Goto
  <1>1. CASE Enqueue(r) \/ RequestCancellation(r) \/ RetryJob(r)
    BY <1>1 DEF Enqueue, RequestCancellation, RetryJob, runVars, Life!Submit, Life!CancelQueued,
                Life!RequestCancel, Life!Retry
  <1>2. CASE Claim(r)
    BY <1>2 DEF Claim, Shots, RenderPipelineAssumption
  <1>3. CASE StartShot(r)
    <2>1. CASE pc'[r] = "planning"
      <3> DEFINE n == at[r]
      <3>1. /\ n \in Shots /\ UNCHANGED <<at, ending, attempt>> /\ pc[r] = "shot"
            /\ input' = [input EXCEPT ![r][n] = InputOf(r, n)]
        BY <1>3, <2>1 DEF StartShot
      <3>2. n \in Connected => n - 1 \in Shots /\ n - 1 < n
        BY <3>1 DEF Shots, RenderPipelineAssumption
      <3>3. n \in Connected => InputOf(r, n) = Mine(r)
        BY <3>1, <3>2 DEF InputOf
      <3>4. \A s \in Shots : input'[r][s] = IF s = n THEN InputOf(r, n) ELSE input[r][s]
        BY <3>1
      <3>5. SUFFICES ASSUME NEW s \in Shots
                     PROVE  /\ s < n => ending[r][s] = Mine(r)
                            /\ s \in Connected /\ (s < n \/ s = n) => input'[r][s] = Mine(r)
        BY <3>1
      <3>6. CASE s = n
        BY <3>1, <3>3, <3>4, <3>6 DEF Shots
      <3>7. CASE s # n
        BY <3>1, <3>4, <3>7
      <3> QED BY <3>6, <3>7
    <2>2. CASE pc'[r] # "planning"
      BY <1>3, <2>2 DEF StartShot
    <2> QED BY <2>1, <2>2
  <1>4. CASE PersistFallback(r) \/ TryFallback(r) \/ CheckStage(r) \/ LeaveTry(r)
    BY <1>4 DEF PersistFallback, TryFallback, CheckStage, LeaveTry
  <1>5. CASE BeginVideo(r)
    BY <1>5 DEF BeginVideo
  <1>6. CASE CommitStage(r)
    BY <1>6 DEF CommitStage
  <1>7. CASE SelectClip(r)
    <2> DEFINE n == at[r]
    <2>1. /\ n \in Shots /\ UNCHANGED <<input, attempt>> /\ pc[r] = "selecting"
          /\ pc'[r] = "shot" /\ at'[r] = n + 1
          /\ \A s \in Shots : ending'[r][s] = IF s = n THEN Mine(r) ELSE ending[r][s]
      BY <1>7 DEF SelectClip, Local
    <2>2. \A s \in Shots : s < n + 1 => (s < n \/ s = n)
      BY <2>1 DEF Shots
    <2> QED BY <2>1, <2>2
  <1>8. CASE Assemble(r) \/ CheckAssembly(r) \/ Publish(r)
    BY <1>8 DEF Assemble, CheckAssembly, Publish
  <1>9. CASE MarkSucceeded(r) \/ MarkEnded(r)
    BY <1>9 DEF MarkSucceeded, MarkEnded
  <1>10. CASE Raise(r) \/ MarkFailedShot(r) \/ HandlerRaises(r) \/ Crash(r)
    BY <1>10 DEF Raise, MarkFailedShot, HandlerRaises, Crash
  <1> QED
    BY <1>1, <1>2, <1>3, <1>4, <1>5, <1>6, <1>7, <1>8, <1>9, <1>10 DEF RunStep, Proceed

LEMMA ContinuityStep ==
    ASSUME RenderPipelineAssumption, TypeOK, LocalInv, ContinuityInv, [Next]_vars
    PROVE  ContinuityInv'
  <1>1. ASSUME NEW r \in Runs, RunStep(r) PROVE \A q \in Runs : Continuity(q)'
    <2>1. Continuity(r)'
      BY <1>1, ContinuityOfRun DEF ContinuityInv, LocalInv
    <2>2. ASSUME NEW q \in Runs, q # r PROVE Continuity(q)'
      BY <1>1, <2>2, Frame DEF ContinuityInv, Continuity, Active, Mine
    <2> QED BY <2>1, <2>2
  <1>2. ASSUME NEW r \in Runs, Publish(r) PROVE ContinuousRenders'
    <2>1. \A s \in Connected : input[r][s] = Mine(r)
      BY <1>2 DEF Publish, ContinuityInv, Continuity, Active, OutsideTry, LocalInv, Local, Shots,
         RenderPipelineAssumption
    <2> QED BY <1>2, <2>1 DEF Publish, ContinuityInv, ContinuousRenders
  <1>3. ASSUME NEW r \in Runs, RunStep(r), ~Publish(r) PROVE ContinuousRenders'
    <2>1. UNCHANGED renders
      BY <1>3 DEF RunStep, Proceed, Claim, StartShot, TryFallback, PersistFallback, BeginVideo,
         CheckStage, CommitStage, LeaveTry, Assemble, CheckAssembly, SelectClip, MarkSucceeded,
         MarkEnded, Raise, MarkFailedShot, HandlerRaises, Crash, Enqueue, RequestCancellation,
         RetryJob, dbVars
    <2> QED BY <2>1 DEF ContinuityInv, ContinuousRenders
  <1>4. ASSUME (\E s \in Shots : Approve(s)) \/ UNCHANGED vars PROVE ContinuityInv'
    BY <1>4 DEF Approve, vars, dbVars, runVars, ContinuityInv, Continuity, Active, Mine, ContinuousRenders
  <1> QED BY <1>1, <1>2, <1>3, <1>4, StepKinds DEF ContinuityInv

-----------------------------------------------------------------------------
(* Promptness of a cancellation *)

\* How many commits may lie behind a run at its label since the cancellation
\* was requested: none right after a check that passed, one or two later.
Lateness(r) ==
    /\ Active(r) /\ ~Cancelled(r) => late[r] = 0
    /\ pc[r] \in {"planning", "checked", "selecting", "assembling", "publishing"} => late[r] = 0
    /\ pc[r] \in {"shot", "fallback", "completing"} => late[r] <= 1
    /\ pc[r] = "stage" /\ copy[r][at[r]] \in Ready => late[r] <= 1
    /\ late[r] <= 2

LEMMA LatenessOfRun ==
    ASSUME RenderPipelineAssumption, TypeOK, NEW r \in Runs, RunStep(r), Local(r), Lateness(r)
    PROVE  Lateness(r)'
  <1> USE DEF TypeOK, Lateness, Active, Cancelled, InTry, OutsideTry, Goto, CountLate
  <1>1. CASE Enqueue(r) \/ RequestCancellation(r) \/ RetryJob(r)
    BY <1>1 DEF Enqueue, RequestCancellation, RetryJob, runVars, Life!Submit, Life!CancelQueued,
                Life!RequestCancel, Life!Retry, Life!Move
  <1>2. CASE Claim(r)
    BY <1>2 DEF Claim
  <1>3. CASE StartShot(r)
    BY <1>3 DEF StartShot
  <1>4. CASE PersistFallback(r) \/ TryFallback(r) \/ CheckStage(r) \/ LeaveTry(r)
    BY <1>4 DEF PersistFallback, TryFallback, CheckStage, LeaveTry
  <1>5. CASE BeginVideo(r)
    BY <1>5 DEF BeginVideo, Commit, Local, Begun, Ready
  <1>6. CASE CommitStage(r)
    <2> DEFINE st == copy[r][at[r]]
               to == NextStatus(at[r])[st]
    <2>1. /\ pc' = [pc EXCEPT ![r] = "stage"] /\ at[r] \in Shots
          /\ copy' = [copy EXCEPT ![r][at[r]] = to]
          /\ late' = [late EXCEPT ![r] = IF Cancelled(r) THEN @ + 1 ELSE @]
          /\ UNCHANGED <<at, job>>
      BY <1>6 DEF CommitStage, Commit, Local, Begun
    <2>2. CASE st \in Working
      <3>1. late[r] = 0
        BY <1>6, <2>2 DEF CommitStage
      <3> HIDE DEF to
      <3> QED BY <2>1, <3>1
    <2>3. CASE st \in Ready
      <3>1. to \in Working /\ to \notin Ready
        BY <2>3, NextStatusKinds DEF Working, Ready
      <3>2. late[r] <= 1 /\ (~Cancelled(r) => late[r] = 0)
        BY <1>6, <2>3 DEF CommitStage, Working, Ready
      <3> HIDE DEF to
      <3> QED BY <2>1, <3>1, <3>2
    <2> QED BY <1>6, <2>2, <2>3 DEF CommitStage, Local
  <1>7. CASE SelectClip(r)
    BY <1>7 DEF SelectClip, Commit
  <1>8. CASE Assemble(r) \/ CheckAssembly(r) \/ Publish(r)
    BY <1>8 DEF Assemble, CheckAssembly, Publish
  <1>9. CASE MarkSucceeded(r) \/ MarkEnded(r)
    BY <1>9 DEF MarkSucceeded, MarkEnded
  <1>10. CASE Raise(r) \/ MarkFailedShot(r) \/ HandlerRaises(r) \/ Crash(r)
    BY <1>10 DEF Raise, MarkFailedShot, HandlerRaises, Crash
  <1> QED
    BY <1>1, <1>2, <1>3, <1>4, <1>5, <1>6, <1>7, <1>8, <1>9, <1>10 DEF RunStep, Proceed

LEMMA LatenessStep ==
    ASSUME RenderPipelineAssumption, TypeOK, LocalInv, \A r \in Runs : Lateness(r), [Next]_vars
    PROVE  \A r \in Runs : Lateness(r)'
  <1>1. ASSUME NEW r \in Runs, RunStep(r), NEW q \in Runs PROVE Lateness(q)'
    <2>1. CASE q = r
      BY <1>1, <2>1, LatenessOfRun DEF LocalInv
    <2>2. CASE q # r
      BY <1>1, <2>2, Frame DEF Lateness, Active, Cancelled
    <2> QED BY <2>1, <2>2
  <1>2. ASSUME (\E s \in Shots : Approve(s)) \/ UNCHANGED vars, NEW q \in Runs
        PROVE  Lateness(q)'
    BY <1>2 DEF Approve, vars, runVars, Lateness, Active, Cancelled
  <1> QED BY <1>1, <1>2, StepKinds

-----------------------------------------------------------------------------
(* The render of a succeeded job *)

Published(r) == \E render \in renders : render.clip = Mine(r)

PublishedInv == \A r \in Runs : (job[r] = "succeeded" \/ pc[r] = "completing") => Published(r)

LEMMA PublishedStep ==
    ASSUME TypeOK, PublishedInv, [Next]_vars
    PROVE  PublishedInv'
  <1>1. renders \subseteq renders'
    BY DEF Next, Request, Proceed, Claim, StartShot, TryFallback, PersistFallback, BeginVideo,
       CheckStage, CommitStage, LeaveTry, Assemble, CheckAssembly, SelectClip, Publish,
       MarkSucceeded, MarkEnded, Raise, MarkFailedShot, HandlerRaises, Crash, Enqueue, RequestCancellation,
         RetryJob, Approve,
       dbVars, vars
  <1>2. ASSUME NEW r \in Runs, RunStep(r), job'[r] = "succeeded" \/ pc'[r] = "completing"
        PROVE  Published(r)'
    <2>1. CASE Publish(r)
      <3> DEFINE new == [clip |-> Mine(r), input |-> input[r]]
      <3>1. new \in renders' /\ new.clip = Mine(r) /\ Mine(r)' = Mine(r)
        BY <2>1 DEF Publish, Mine
      <3> QED BY <3>1 DEF Published
    <2>2. CASE Enqueue(r) \/ RequestCancellation(r) \/ RetryJob(r)
      BY <1>1, <1>2, <2>2 DEF Enqueue, RequestCancellation, RetryJob, runVars, Life!Submit,
         Life!CancelQueued, Life!RequestCancel, Life!Retry, Life!Move, TypeOK, PublishedInv,
         Published, Mine
    <2>3. CASE Claim(r)
      BY <1>2, <2>3 DEF Claim, Goto, Life!Start, Life!Move, TypeOK
    <2>4. CASE MarkSucceeded(r) \/ MarkEnded(r)
      <3>1. pc'[r] = "idle" /\ UNCHANGED <<attempt, renders>>
        BY <2>4 DEF MarkSucceeded, MarkEnded, Goto, dbVars, Life!Cancel, Life!Fail,
           Life!Succeed, TypeOK
      <3>2. job'[r] = "succeeded" => MarkSucceeded(r)
        BY <2>4 DEF MarkSucceeded, MarkEnded, Life!Cancel, Life!Fail, Life!Move, TypeOK
      <3> QED BY <1>2, <3>1, <3>2 DEF MarkSucceeded, PublishedInv, Published, Mine
    <2>5. CASE \/ StartShot(r) \/ PersistFallback(r) \/ TryFallback(r) \/ BeginVideo(r)
               \/ CheckStage(r) \/ CommitStage(r) \/ LeaveTry(r) \/ SelectClip(r) \/ Assemble(r)
               \/ CheckAssembly(r) \/ Raise(r) \/ MarkFailedShot(r) \/ HandlerRaises(r)
               \/ Crash(r)
      <3>1. UNCHANGED <<job, attempt>> /\ pc'[r] # "completing"
        BY <2>5 DEF StartShot, PersistFallback, TryFallback, BeginVideo, CheckStage, CommitStage,
           LeaveTry, SelectClip, Assemble, CheckAssembly, Raise, MarkFailedShot,
           HandlerRaises, Crash, Goto, TypeOK
      <3> QED BY <1>1, <1>2, <3>1 DEF PublishedInv, Published, Mine
    <2> QED BY <1>2, <2>1, <2>2, <2>3, <2>4, <2>5 DEF RunStep, Proceed
  <1>3. ASSUME NEW r \in Runs, RunStep(r), NEW q \in Runs, q # r,
               job'[q] = "succeeded" \/ pc'[q] = "completing"
        PROVE  Published(q)'
    BY <1>1, <1>3, Frame DEF PublishedInv, Published, Mine
  <1>4. ASSUME (\E s \in Shots : Approve(s)) \/ UNCHANGED vars PROVE PublishedInv'
    BY <1>4 DEF Approve, vars, dbVars, runVars, PublishedInv, Published, Mine
  <1> QED BY <1>2, <1>3, <1>4, StepKinds DEF PublishedInv

-----------------------------------------------------------------------------
(* The theorems *)

IInv == /\ TypeOK
        /\ LocalInv
        /\ InProgressOwned
        /\ SingleSelection
        /\ ContinuityInv
        /\ \A r \in Runs : Lateness(r)
        /\ PublishedInv

LEMMA Inductive == ASSUME RenderPipelineAssumption PROVE Spec => []IInv
  <1>1. ASSUME Init PROVE IInv
    <2>1. TypeOK /\ LocalInv /\ InProgressOwned
      BY <1>1, InitTypeOK, OwnedInit
    <2>2. SingleSelection
      BY <1>1 DEF Init, SingleSelection
    <2>3. ContinuityInv
      BY <1>1 DEF Init, ContinuityInv, Continuity, ContinuousRenders, Active, InTry, OutsideTry
    <2>4. \A r \in Runs : Lateness(r)
      BY <1>1 DEF Init, Lateness, Active, InTry, OutsideTry
    <2>5. PublishedInv
      BY <1>1 DEF Init, Life!Init, PublishedInv
    <2> QED BY <2>1, <2>2, <2>3, <2>4, <2>5 DEF IInv
  <1>2. ASSUME IInv, [Next]_vars PROVE IInv'
    BY <1>2, TypeStep, LocalInvStep, OwnedStep, SelectionStep, ContinuityStep, LatenessStep,
       PublishedStep DEF IInv
  <1> QED BY <1>1, <1>2, PTL DEF Spec

\* A run that ends, however it ends, leaves no shot marked as being worked on.
THEOREM InProgressOwnedHolds ==
    ASSUME RenderPipelineAssumption PROVE Spec => []InProgressOwned
  BY Inductive, PTL DEF IInv

\* Any number of renders of a project leave one selected candidate per shot.
THEOREM SingleSelectionHolds ==
    ASSUME RenderPipelineAssumption PROVE Spec => []SingleSelection
  BY Inductive, PTL DEF IInv

\* No interleaving of renders breaks the continuity of a published one.
THEOREM ContinuousRendersHolds ==
    ASSUME RenderPipelineAssumption PROVE Spec => []ContinuousRenders
  BY Inductive, PTL DEF IInv, ContinuityInv

\* At most two commits follow a cancellation request, in renders of any length.
THEOREM PromptCancellationHolds ==
    ASSUME RenderPipelineAssumption PROVE Spec => []PromptCancellation
  <1>1. IInv => PromptCancellation
    BY DEF IInv, Lateness, PromptCancellation
  <1> QED BY <1>1, Inductive, PTL

\* The output of a succeeded job is a published render of its last attempt.
THEOREM SucceededPublishedHolds ==
    ASSUME RenderPipelineAssumption PROVE Spec => []SucceededPublished
  <1>1. IInv => SucceededPublished
    BY DEF IInv, PublishedInv, Published, SucceededPublished
  <1> QED BY <1>1, Inductive, PTL

-----------------------------------------------------------------------------
(* A claimed run comes to its end.  No step of a run repeats an earlier one *)
(* but the trial of the next profile, which a requested cancellation stops. *)

\* Stages the shot at hand has before it.
StagesLeft == [VIDEO_GENERATING |-> 6, VIDEO_READY |-> 5, LIPSYNC_PENDING |-> 4,
               LIPSYNC_READY |-> 3, CONTINUITY_PENDING |-> 2, CONTINUITY_READY |-> 1,
               QA_PENDING |-> 0]

\* Room for the steps of one shot, by the label; the stages come on top.
LabelsLeft == [shot |-> 22, planning |-> 21, fallback |-> 20, stage |-> 7, checked |-> 6,
               selecting |-> 5, assembling |-> 4, publishing |-> 3, completing |-> 2,
               marking |-> 2, ending |-> 1, idle |-> 0, dead |-> 0]

ShotsLeft(r) == NumShots + 1 - at[r]

\* A bound on the steps the run has before it.
RunLeft(r) == 23 * ShotsLeft(r) + LabelsLeft[pc[r]]
              + (IF pc[r] \in InTry THEN 2 * StagesLeft[copy[r][at[r]]] ELSE 0)

\* The steps of the process of a claimed run, the last of them included.
OwnStep(r) == Proceed(r) \/ PersistFallback(r) \/ Crash(r)

RunEnds(r) ==
    /\ RunLeft(r) \in 0 .. 23 * (NumShots + 1)
    /\ OwnStep(r) /\ ~TryFallback(r) => RunLeft(r)' < RunLeft(r)
    /\ Cancelled(r) => ~TryFallback(r)
    /\ ~OwnStep(r) /\ ~Claim(r) => RunLeft(r)' = RunLeft(r)

LEMMA StagesDescend ==
    ASSUME NEW s, NEW st
    PROVE  /\ st \in Working \cup Ready => StagesLeft[st] \in 0 .. 6
           /\ st \in (Working \ {"QA_PENDING"}) \cup Ready =>
                  StagesLeft[NextStatus(s)[st]] \in 0 .. StagesLeft[st] - 1
  BY DEF StagesLeft, Working, Ready, NextStatus, StageAfter

LEMMA RunLeftBounded ==
    ASSUME RenderPipelineAssumption, TypeOK, LocalInv, NEW r \in Runs
    PROVE  RunLeft(r) \in 0 .. 23 * (NumShots + 1)
  <1>1. ShotsLeft(r) \in 0 .. NumShots /\ NumShots \in Nat
    BY DEF TypeOK, RenderPipelineAssumption, ShotsLeft
  <1>2. CASE pc[r] \in InTry
    <2>1. StagesLeft[copy[r][at[r]]] \in 0 .. 6
      BY <1>2, StagesDescend DEF LocalInv, Local, InTry
    <2>2. LabelsLeft[pc[r]] \in 6 .. 7
      BY <1>2 DEF LabelsLeft, InTry
    <2> QED BY <1>1, <1>2, <2>1, <2>2 DEF RunLeft
  <1>3. CASE pc[r] \notin InTry
    <2>1. LabelsLeft[pc[r]] \in 0 .. 22
      BY DEF LabelsLeft, TypeOK, PCs, InTry, OutsideTry
    <2> QED BY <1>1, <1>3, <2>1 DEF RunLeft
  <1> QED BY <1>2, <1>3

\* A run's own step brings it nearer to its end.
LEMMA RunDescends ==
    ASSUME RenderPipelineAssumption, TypeOK, LocalInv, TypeOK', LocalInv',
           NEW r \in Runs, OwnStep(r), ~TryFallback(r)
    PROVE  RunLeft(r)' < RunLeft(r)
  <1> USE DEF Goto
  <1>1. /\ NumShots \in Nat /\ at[r] \in 1 .. NumShots + 1 /\ at'[r] \in 1 .. NumShots + 1
        /\ pc[r] \in PCs /\ RunLeft(r) \in Nat
        /\ DOMAIN pc = Runs /\ DOMAIN at = Runs
    BY RunLeftBounded DEF TypeOK, RenderPipelineAssumption
  <1>2. CASE /\ UNCHANGED at
             /\ pc[r] \notin InTry \/ pc'[r] \in {"marking", "ending", "dead", "selecting"}
             /\ pc'[r] \notin InTry
             /\ LabelsLeft[pc'[r]] \in Nat /\ LabelsLeft[pc[r]] \in Nat
             /\ LabelsLeft[pc'[r]] < LabelsLeft[pc[r]]
    <2>1. pc[r] \in InTry => StagesLeft[copy[r][at[r]]] \in 0 .. 6
      BY StagesDescend DEF LocalInv, Local, InTry
    <2> QED BY <1>1, <1>2, <2>1 DEF RunLeft, ShotsLeft
  <1>3. CASE StartShot(r) \/ PersistFallback(r) \/ Assemble(r) \/ CheckAssembly(r) \/ Publish(r)
             \/ MarkSucceeded(r) \/ MarkEnded(r) \/ LeaveTry(r)
    BY <1>1, <1>2, <1>3 DEF StartShot, PersistFallback, Assemble, CheckAssembly, Publish,
       MarkSucceeded, MarkEnded, LeaveTry, LabelsLeft, InTry
  <1>4. CASE Raise(r) \/ MarkFailedShot(r) \/ HandlerRaises(r) \/ Crash(r)
    BY <1>1, <1>2, <1>4 DEF Raise, MarkFailedShot, HandlerRaises, Crash, LabelsLeft, InTry, OutsideTry
  <1>5. CASE BeginVideo(r)
    <2>1. pc[r] = "planning" /\ pc'[r] = "stage" /\ UNCHANGED at /\ copy'[r][at[r]] = "VIDEO_GENERATING"
      BY <1>1, <1>5 DEF BeginVideo, Commit, LocalInv, Local, Begun, TypeOK
    <2> QED BY <1>1, <2>1 DEF RunLeft, ShotsLeft, LabelsLeft, StagesLeft, InTry
  <1>6. CASE CheckStage(r)
    <2>1. pc[r] = "stage" /\ pc'[r] = "checked" /\ UNCHANGED <<at, copy>>
      BY <1>1, <1>6 DEF CheckStage
    <2>2. StagesLeft[copy[r][at[r]]] \in 0 .. 6
      BY <2>1, StagesDescend DEF LocalInv, Local
    <2> QED BY <1>1, <2>1, <2>2 DEF RunLeft, ShotsLeft, LabelsLeft, InTry
  <1>7. CASE CommitStage(r)
    <2> DEFINE st == copy[r][at[r]]
               to == NextStatus(at[r])[st]
    <2>1. /\ pc[r] \in {"stage", "checked"} /\ pc'[r] = "stage" /\ UNCHANGED at
          /\ st \in (Working \ {"QA_PENDING"}) \cup Ready
      BY <1>1, <1>7 DEF CommitStage, LocalInv, Local, InTry
    <2>2. copy'[r][at[r]] = to
      BY <1>7, <2>1 DEF CommitStage, Commit, LocalInv, Local, Begun, InTry, TypeOK
    <2>3. StagesLeft[st] \in 0 .. 6 /\ StagesLeft[to] \in 0 .. StagesLeft[st] - 1
      BY <2>1, StagesDescend
    <2> HIDE DEF st, to
    <2>4. /\ RunLeft(r) = 23 * (NumShots + 1 - at[r]) + LabelsLeft[pc[r]] + 2 * StagesLeft[st]
          /\ RunLeft(r)' = 23 * (NumShots + 1 - at[r]) + 7 + 2 * StagesLeft[to]
      BY <2>1, <2>2 DEF RunLeft, ShotsLeft, LabelsLeft, InTry, st
    <2>5. LabelsLeft[pc[r]] \in 6 .. 7
      BY <2>1 DEF LabelsLeft
    <2> QED BY <1>1, <2>3, <2>4, <2>5
  <1>8. CASE SelectClip(r)
    <2>1. pc[r] = "selecting" /\ pc'[r] = "shot" /\ at'[r] = at[r] + 1
      BY <1>1, <1>8 DEF SelectClip
    <2> QED BY <1>1, <2>1 DEF RunLeft, ShotsLeft, LabelsLeft, InTry
  <1> QED
    BY <1>3, <1>4, <1>5, <1>6, <1>7, <1>8 DEF OwnStep, Proceed

\* Every run makes at most 23 steps for each shot and for the assembly, the
\* trials of further profiles aside; a cancelled run makes no such trial, so
\* nothing but its process's scheduling is between a requested cancellation
\* and the end of the attempt (_check_cancelled and the loops in run).
THEOREM EveryRunEnds ==
    ASSUME RenderPipelineAssumption PROVE Spec => [][\A r \in Runs : RunEnds(r)]_vars
  <1>1. ASSUME IInv, IInv', [Next]_vars, NEW r \in Runs PROVE RunEnds(r)
    <2>1. RunLeft(r) \in 0 .. 23 * (NumShots + 1)
      BY <1>1, RunLeftBounded DEF IInv
    <2>2. OwnStep(r) /\ ~TryFallback(r) => RunLeft(r)' < RunLeft(r)
      BY <1>1, RunDescends DEF IInv
    <2>3. Cancelled(r) => ~TryFallback(r)
      BY DEF TryFallback
    <2>4. ASSUME ~OwnStep(r), ~Claim(r) PROVE UNCHANGED <<pc[r], at[r], copy[r]>>
      <3>1. CASE Enqueue(r) \/ RequestCancellation(r) \/ RetryJob(r)
        BY <3>1 DEF Enqueue, RequestCancellation, RetryJob, runVars
      <3>2. CASE \E q \in Runs \ {r} : RunStep(q)
        BY <1>1, <3>2, Frame DEF IInv
      <3>3. CASE (\E s \in Shots : Approve(s)) \/ UNCHANGED vars
        BY <3>3 DEF Approve, runVars, vars
      <3> QED BY <1>1, <2>4, <3>1, <3>2, <3>3, StepKinds DEF RunStep, OwnStep
    <2> QED BY <2>1, <2>2, <2>3, <2>4 DEF RunEnds, RunLeft, ShotsLeft
  <1>2. IInv /\ IInv' /\ [Next]_vars => [\A r \in Runs : RunEnds(r)]_vars
    BY <1>1
  <1> QED BY <1>2, Inductive, PTL DEF Spec
=============================================================================
