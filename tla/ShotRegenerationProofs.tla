----------------------- MODULE ShotRegenerationProofs -----------------------
(***************************************************************************)
(* Proofs about ShotRegeneration, for any number of regenerations, renders *)
(* and requests: where a run stands (Local), what it has committed since   *)
(* its cancellation was requested (Prompt), which candidate is its own     *)
(* (Fresh), and what the retry count counts (Counted).                     *)
(***************************************************************************)
EXTENDS ShotRegeneration, CandidateSelectionProofs, FiniteSetTheorems

Ready == {"VIDEO_READY", "LIPSYNC_READY", "CONTINUITY_READY"}

\* The label, the stage, the flag and the job of a run fit together.
Local(r) ==
    /\ pc[r] \in {"idle", "preparing", "prepared", "ending", "dead"}
           => stage[r] = "VIDEO_GENERATING" /\ ~tracked[r] /\ late[r] = 0
    /\ pc[r] \in {"generating", "generated"} => stage[r] = "VIDEO_GENERATING"
    /\ pc[r] = "checked" => stage[r] \in Working \ {"QA_PENDING"}
    /\ pc[r] = "stage" => stage[r] \in (Working \ {"VIDEO_GENERATING"}) \cup Ready
    /\ pc[r] \in {"extracting", "publishing", "completing"} => stage[r] = "QA_PENDING"
    /\ pc[r] # "idle" <=> job[r] \in {"running", "cancel_requested"}
    /\ pc[r] # "idle" => attempt[r] >= 1

LocalInv == \A r \in Runs : Local(r)

\* Labels of a run that has not published its candidate.
Unpublished == {"preparing", "prepared", "generating", "generated", "stage", "checked",
                "extracting", "publishing"}

\* Whatever happens to one run: a request for its job, or a step of its own.
RunStep(r) == Enqueue(r) \/ RequestCancellation(r) \/ RetryJob(r) \/ Claim(r) \/ Proceed(r)
              \/ Crash(r)

\* The statuses the model names are shot statuses.
LEMMA StatusNames ==
    /\ Working \subseteq ShotStatus
    /\ Rendered \subseteq ShotStatus
    /\ {"FAILED", "APPROVED", "AWAITING_APPROVAL", "DRAFT"} \subseteq ShotStatus
    /\ Ready \subseteq ShotStatus
  BY DEF Working, Ready, Rendered, ShotStatus, TRANSITIONS

\* From work to its result, from a result to the next work.
LEMMA StageKinds ==
    /\ DOMAIN StageAfter(LipSync) = (Working \ {"QA_PENDING"}) \cup Ready
    /\ \A st \in Working \ {"QA_PENDING"} : StageAfter(LipSync)[st] \in Ready
    /\ \A st \in Ready : StageAfter(LipSync)[st] \in Working \ {"VIDEO_GENERATING"}
    /\ Working \cap Ready = {}
    /\ Rendered \cap Working = {}
    /\ "FAILED" \notin Working /\ "APPROVED" \notin Working
  BY DEF Working, Ready, Rendered, StageAfter

\* A handler leaves no mark of work behind.
LEMMA AfterRaise ==
    ASSUME NEW worker, MarkFailed(worker)
    PROVE  /\ status' \in {status, "FAILED"} /\ status' \notin Working
           /\ author' \in {author, "nobody"}
  BY StageKinds DEF MarkFailed, Writes

-----------------------------------------------------------------------------
(* Type correctness *)

LEMMA InitTypeOK ==
    ASSUME RegenerationAssumption, SelectionAssumption, Init
    PROVE  TypeOK /\ LocalInv /\ RequestsInv
  <1>1. SelectionTypeOK /\ RequestsInv
    BY SelectionInitType DEF Init
  <1>2. status \in ShotStatus /\ loaded \in [Runs -> [status : ShotStatus, retries : Nat]]
    BY StatusNames DEF Init, Unloaded
  <1>3. stage \in [Runs -> DOMAIN StageAfter(LipSync) \cup {"QA_PENDING"}]
    BY StageKinds DEF Init, Working
  <1>4. job \in [Runs -> JobStates] /\ attempt \in [Runs -> 0 .. MaxRetries + 1]
    BY DEF Init, Life!Init, JobStates, RegenerationAssumption
  <1>5. TypeOK
    BY <1>1, <1>2, <1>3, <1>4 DEF Init, TypeOK, PCs, RenderLabels, Endings
  <1>6. LocalInv
    BY DEF Init, Life!Init, LocalInv, Local
  <1> QED BY <1>1, <1>5, <1>6

\* What the steps of JobLifecycle do to the two columns they own.
LEMMA LifeTypes ==
    ASSUME RegenerationAssumption, TypeOK, NEW r \in Runs,
           \/ Life!Submit(r) \/ Life!Start(r) \/ Life!CancelQueued(r) \/ Life!RequestCancel(r)
           \/ Life!Succeed(r) \/ Life!Fail(r) \/ Life!Cancel(r) \/ Life!Retry(r)
    PROVE  /\ job' \in [Runs -> JobStates]
           /\ attempt' \in [Runs -> 0 .. MaxRetries + 1]
           /\ \A q \in Runs \ {r} : job'[q] = job[q] /\ attempt'[q] = attempt[q]
  <1>1. job' \in [Runs -> JobStates] /\ \A q \in Runs \ {r} : job'[q] = job[q]
    BY DEF TypeOK, JobStates, Life!Settled, Life!Submit, Life!Start, Life!CancelQueued,
           Life!RequestCancel, Life!Succeed, Life!Fail, Life!Cancel, Life!Retry, Life!Move
  <1>2. CASE Life!Start(r)
    BY <1>1, <1>2 DEF RegenerationAssumption, TypeOK, Life!Start
  <1>3. CASE ~Life!Start(r)
    BY <1>1, <1>3 DEF TypeOK, Life!Submit, Life!CancelQueued, Life!RequestCancel,
           Life!Succeed, Life!Fail, Life!Cancel, Life!Retry
  <1> QED BY <1>2, <1>3

LEMMA MineType ==
    ASSUME RegenerationAssumption, TypeOK, LocalInv, NEW r \in Runs, pc[r] # "idle"
    PROVE  Mine(r) \in Regenerated /\ Mine(r) \in Candidates
  BY DEF RegenerationAssumption, TypeOK, LocalInv, Local, Mine, Regenerated

\* The part of TypeOK that the steps of the runs and renders own.
WorkTypeOK ==
    /\ status \in ShotStatus
    /\ retries \in Nat
    /\ pc \in [Runs -> PCs]
    /\ stage \in [Runs -> (Working \cup Ready)]
    /\ loaded \in [Runs -> [status : ShotStatus, retries : Nat]]
    /\ tracked \in [Runs -> BOOLEAN]
    /\ late \in [Runs -> Nat]
    /\ overlapped \in BOOLEAN
    /\ render \in [Clips -> RenderLabels]
    /\ author \in Runs \cup Clips \cup Endings
    /\ overtaken \in BOOLEAN
    /\ verdict \in Rendered \cup {"none"}
    /\ outdated \subseteq Runs
    /\ reverted \in BOOLEAN

LEMMA TypeParts ==
    TypeOK <=> /\ SelectionTypeOK /\ WorkTypeOK
               /\ job \in [Runs -> JobStates] /\ attempt \in [Runs -> 0 .. MaxRetries + 1]
  <1>1. DOMAIN StageAfter(LipSync) \cup {"QA_PENDING"} = Working \cup Ready
    BY StageKinds DEF Working
  <1> QED BY <1>1 DEF TypeOK, WorkTypeOK

LEMMA NextTypeParts ==
    TypeOK' <=> /\ SelectionTypeOK' /\ WorkTypeOK'
                /\ job' \in [Runs -> JobStates] /\ attempt' \in [Runs -> 0 .. MaxRetries + 1]
  <1>1. DOMAIN StageAfter(LipSync) \cup {"QA_PENDING"} = Working \cup Ready
    BY StageKinds DEF Working
  <1> QED BY <1>1 DEF TypeOK, WorkTypeOK

LEMMA SelectionKept ==
    ASSUME UNCHANGED selectionVars
    PROVE  /\ SelectionTypeOK => SelectionTypeOK'
           /\ RequestsInv => RequestsInv'
           /\ SelectionAgrees => SelectionAgrees'
           /\ Present' = Present
  BY DEF selectionVars, SelectionTypeOK, RequestsInv, RequestInv, Present, SelectionAgrees, Selected

LEMMA ForgetType ==
    ASSUME WorkTypeOK, NEW r \in Runs, Forget(r)
    PROVE  /\ stage' \in [Runs -> (Working \cup Ready)]
           /\ loaded' \in [Runs -> [status : ShotStatus, retries : Nat]]
           /\ tracked' \in [Runs -> BOOLEAN]
           /\ late' \in [Runs -> Nat]
  BY StatusNames DEF WorkTypeOK, Forget, Unloaded, Working

LEMMA CountLateType ==
    ASSUME WorkTypeOK, NEW r \in Runs, CountLate(r)
    PROVE  late' \in [Runs -> Nat]
  BY DEF WorkTypeOK, CountLate

\* What a write of the status, and what a worker that leaves it, do to its columns
\* and to their history.
Authors == Runs \cup Clips \cup Endings

LEMMA WritesType ==
    ASSUME WorkTypeOK, NEW worker \in Runs \cup Clips, NEW st \in ShotStatus, Writes(worker, st)
    PROVE  status' \in ShotStatus /\ author' \in Authors
  BY DEF Writes, Authors, Endings

LEMMA LeavesType ==
    ASSUME WorkTypeOK, NEW worker, NEW how \in Endings,
           Leaves(worker, how)
    PROVE  author' \in Authors
  BY DEF WorkTypeOK, Leaves, Authors, Endings

LEMMA MarkFailedType ==
    ASSUME WorkTypeOK, NEW worker, MarkFailed(worker)
    PROVE  status' \in ShotStatus /\ author' \in Authors
  BY AfterRaise, StatusNames DEF WorkTypeOK, Authors, Endings

VerdictTypeOK == verdict \in Rendered \cup {"none"} /\ outdated \subseteq Runs /\ reverted \in BOOLEAN

LEMMA JudgedType ==
    ASSUME NEW worker, NEW st \in Rendered, Judged(worker, st)
    PROVE  VerdictTypeOK'
  BY DEF Judged, VerdictTypeOK

LEMMA FinishType ==
    ASSUME WorkTypeOK, NEW r \in Runs, Finish(r)
    PROVE  status' \in ShotStatus /\ author' \in Authors /\ VerdictTypeOK'
  <1>1. CASE loaded[r].status \in Rendered
    <2>1. status' \in ShotStatus /\ author' \in Authors
      BY <1>1, WritesType, StatusNames DEF Finish
    <2>2. verdict' = verdict /\ outdated' = outdated /\ reverted' = (reverted \/ r \in outdated)
      BY <1>1 DEF Finish
    <2>3. reverted' \in BOOLEAN
      BY <2>2
    <2> QED BY <2>1, <2>2, <2>3 DEF WorkTypeOK, VerdictTypeOK
  <1>2. CASE loaded[r].status \notin Rendered
    <2>1. PICK st \in Rendered : Writes(r, st) /\ Judged(r, st)
      BY <1>2 DEF Finish
    <2>2. st \in ShotStatus
      BY <2>1, StatusNames
    <2> QED BY <2>1, <2>2, WritesType, JudgedType
  <1> QED BY <1>1, <1>2

\* The steps of a run that do not touch its job.
WorkStep(r) == \/ CheckInputs(r) \/ Begin(r) \/ Generate(r) \/ CheckGenerated(r)
               \/ CheckStage(r) \/ CommitStage(r) \/ CheckQuality(r) \/ CheckCandidate(r)
               \/ Publish(r) \/ Raise(r) \/ Crash(r)

LEMMA WorkType ==
    ASSUME RegenerationAssumption, WorkTypeOK, LocalInv, NEW r \in Runs, WorkStep(r)
    PROVE  WorkTypeOK'
  <1> USE RegenerationAssumption DEF VerdictTypeOK, Authors
  <1> HIDE DEF Writes, Leaves, MarkFailed, Finish
  <1>1. CASE CheckInputs(r) \/ Generate(r) \/ CheckGenerated(r) \/ CheckStage(r)
             \/ CheckQuality(r) \/ CheckCandidate(r)
    BY <1>1 DEF WorkTypeOK, CheckInputs, Generate, CheckGenerated, CheckStage, CheckQuality,
                CheckCandidate, Goto, shotVars, verdictVars, renderVars, PCs
  <1>2. CASE Begin(r)
    <2>1. status' \in ShotStatus /\ author' \in Authors
      <3>1. "VIDEO_GENERATING" \in ShotStatus
        BY StatusNames DEF Working
      <3> QED BY <1>2, <3>1, WritesType DEF WorkTypeOK, Begin
    <2>2. late' \in [Runs -> Nat]
      BY <1>2, CountLateType DEF Begin
    <2>3. tracked' \in [Runs -> BOOLEAN]
      BY <1>2 DEF WorkTypeOK, Begin
    <2> QED BY <1>2, <2>1, <2>2, <2>3 DEF WorkTypeOK, Begin, Goto, verdictVars, renderVars, PCs
  <1>3. CASE CommitStage(r)
    <2> DEFINE to == StageAfter(LipSync)[stage[r]]
    <2>1. stage[r] \in (Working \ {"QA_PENDING"}) \cup Ready
      BY <1>3 DEF CommitStage, LocalInv, Local
    <2>2. to \in Working \cup Ready
      BY <2>1, StageKinds
    <2>3. /\ stage' = [stage EXCEPT ![r] = to]
          /\ IF tracked[r] THEN Writes(r, to) ELSE UNCHANGED <<status, author>>
          /\ CountLate(r) \/ UNCHANGED late
          /\ Goto(r, "stage")
          /\ UNCHANGED <<retries, loaded, tracked, overlapped, verdictVars, renderVars>>
      BY <1>3 DEF CommitStage
    <2>4. late' \in [Runs -> Nat]
      BY <2>3, CountLateType DEF WorkTypeOK
    <2> HIDE DEF to
    <2>5. to \in ShotStatus
      BY <2>2, StatusNames
    <2>6. stage' \in [Runs -> (Working \cup Ready)] /\ status' \in ShotStatus /\ author' \in Authors
      BY <2>2, <2>3, <2>5, WritesType DEF WorkTypeOK
    <2> QED BY <2>3, <2>4, <2>6 DEF WorkTypeOK, Goto, verdictVars, renderVars, PCs
  <1>4. CASE Publish(r)
    <2>1. status' \in ShotStatus /\ author' \in Authors /\ VerdictTypeOK'
      BY <1>4, FinishType DEF WorkTypeOK, Publish, verdictVars
    <2>2. retries' \in Nat
      BY <1>4 DEF WorkTypeOK, Publish
    <2>3. late' \in [Runs -> Nat]
      BY <1>4, CountLateType DEF Publish
    <2> QED BY <1>4, <2>1, <2>2, <2>3 DEF WorkTypeOK, Publish, Goto, renderVars, PCs
  <1>5. CASE Raise(r) \/ Crash(r)
    <2>1. status' \in ShotStatus /\ author' \in Authors
      BY <1>5, MarkFailedType, LeavesType DEF WorkTypeOK, Raise, HandlerRaises, Crash, Endings
    <2>2. Forget(r) /\ UNCHANGED <<retries, overlapped, verdictVars, renderVars>>
      BY <1>5 DEF Raise, Crash
    <2>3. pc' \in [Runs -> PCs]
      BY <1>5 DEF WorkTypeOK, Raise, Crash, Goto, PCs
    <2> QED BY <2>1, <2>2, <2>3, ForgetType DEF WorkTypeOK, verdictVars, renderVars
  <1> QED BY <1>1, <1>2, <1>3, <1>4, <1>5 DEF WorkStep

LEMMA RunType ==
    ASSUME RegenerationAssumption, TypeOK, LocalInv, RequestsInv, NEW r \in Runs, RunStep(r)
    PROVE  TypeOK' /\ RequestsInv'
  <1> USE RegenerationAssumption
  <1>1. CASE Enqueue(r) \/ RequestCancellation(r) \/ RetryJob(r)
    <2>1. job' \in [Runs -> JobStates] /\ attempt' \in [Runs -> 0 .. MaxRetries + 1]
      BY <1>1, LifeTypes DEF Enqueue, RequestCancellation, RetryJob
    <2>2. UNCHANGED <<shotVars, runVars, renderVars, selectionVars>>
      BY <1>1 DEF Enqueue, RequestCancellation, RetryJob
    <2>3. WorkTypeOK'
      BY <2>2, TypeParts DEF WorkTypeOK, shotVars, runVars, verdictVars, renderVars
    <2> QED BY <2>1, <2>2, <2>3, TypeParts, NextTypeParts, SelectionKept
  <1>2. CASE Claim(r)
    <2>1. job' \in [Runs -> JobStates] /\ attempt' \in [Runs -> 0 .. MaxRetries + 1]
      BY <1>2, LifeTypes DEF Claim
    <2>2. WorkTypeOK'
      <3>1. loaded' \in [Runs -> [status : ShotStatus, retries : Nat]]
        BY <1>2 DEF TypeOK, Claim
      <3>2. overlapped' \in BOOLEAN /\ outdated' \subseteq Runs
        BY <1>2 DEF TypeOK, Claim
      <3> QED BY <1>2, <3>1, <3>2, TypeParts DEF WorkTypeOK, Claim, Goto, PCs, renderVars
    <2> QED BY <1>2, <2>1, <2>2, TypeParts, NextTypeParts, SelectionKept DEF Claim
  <1>3. CASE MarkSucceeded(r) \/ MarkEnded(r)
    <2>1. job' \in [Runs -> JobStates] /\ attempt' \in [Runs -> 0 .. MaxRetries + 1]
      BY <1>3, LifeTypes DEF MarkSucceeded, MarkEnded
    <2>2. WorkTypeOK
      BY TypeParts
    <2>3. Forget(r) \/ UNCHANGED <<stage, loaded, tracked, late>>
      BY <1>3 DEF MarkSucceeded, MarkEnded
    <2>4. WorkTypeOK'
      BY <1>3, <2>2, <2>3, ForgetType DEF WorkTypeOK, MarkSucceeded, MarkEnded, Goto, PCs, shotVars,
         verdictVars, renderVars
    <2> QED BY <1>3, <2>1, <2>4, TypeParts, NextTypeParts, SelectionKept DEF MarkSucceeded, MarkEnded
  <1>4. CASE WorkStep(r)
    <2>1. WorkTypeOK'
      BY <1>4, TypeParts, WorkType
    <2>2. job' = job /\ attempt' = attempt
      BY <1>4 DEF WorkStep, CheckInputs, Begin, Generate, CheckGenerated, CheckStage, CommitStage,
                  CheckQuality, CheckCandidate, Publish, Raise, Crash
    <2>3. CASE Publish(r)
      <3>1. AddPending(Mine(r)) /\ Mine(r) \in Candidates
        BY <2>3, MineType DEF Publish
      <3> QED BY <2>1, <2>2, <3>1, TypeParts, NextTypeParts, WriterType
    <2>4. CASE ~Publish(r)
      <3>1. UNCHANGED selectionVars
        BY <1>4, <2>4 DEF WorkStep, CheckInputs, Begin, Generate, CheckGenerated, CheckStage,
                          CommitStage, CheckQuality, CheckCandidate, Raise, Crash
      <3> QED BY <2>1, <2>2, <3>1, TypeParts, NextTypeParts, SelectionKept
    <2> QED BY <2>3, <2>4
  <1> QED BY <1>1, <1>2, <1>3, <1>4 DEF RunStep, Proceed, WorkStep

LEMMA RenderType ==
    ASSUME RegenerationAssumption, TypeOK, RequestsInv, SelectionAgrees, NEW k \in Clips, Render(k)
    PROVE  TypeOK' /\ RequestsInv'
  <1> HIDE DEF Writes, Leaves, MarkFailed, Judged
  <1>1. k \in Candidates
    BY DEF RegenerationAssumption
  <1>2. UNCHANGED <<job, attempt, runVars, retries>>
    BY DEF Render, RenderLoads, RenderWorks, RenderSelects, RenderConnects, RenderRaises,
           RenderFails, RenderCrashes, shotVars
  <1>3. /\ status' \in ShotStatus /\ author' \in Authors /\ VerdictTypeOK'
        /\ render' \in [Clips -> RenderLabels] /\ overtaken' \in BOOLEAN
    <2> USE TypeParts DEF WorkTypeOK, Authors, VerdictTypeOK, RenderGoto, verdictVars, shotVars
    <2>1. CASE RenderLoads(k) \/ RenderConnects(k)
      BY <2>1 DEF RenderLoads, RenderConnects, RenderLabels
    <2>2. CASE RenderWorks(k)
      <3>1. PICK to \in Working \cup Ready :
               Writes(k, to) /\ RenderGoto(k, to) /\ UNCHANGED <<overtaken, verdictVars>>
        BY <2>2, StageKinds DEF RenderWorks, Working
      <3>2. to \in ShotStatus /\ to \in RenderLabels
        BY <3>1, StatusNames, StageKinds DEF RenderLabels
      <3> QED BY <3>1, <3>2, WritesType
    <2>3. CASE RenderSelects(k)
      <3>1. PICK st \in Rendered : Writes(k, st) /\ Judged(k, st)
        BY <2>3 DEF RenderSelects
      <3>2. st \in ShotStatus /\ VerdictTypeOK'
        BY <3>1, StatusNames, JudgedType
      <3> QED BY <2>3, <3>1, <3>2, WritesType DEF RenderSelects, RenderLabels
    <2>4. CASE RenderRaises(k) \/ RenderFails(k) \/ RenderCrashes(k)
      BY <2>4, MarkFailedType, LeavesType DEF RenderRaises, HandlerRaises, RenderFails,
         RenderCrashes, RenderLabels, Endings
    <2> QED BY <2>1, <2>2, <2>3, <2>4 DEF Render
  <1>4. WorkTypeOK'
    BY <1>2, <1>3, TypeParts DEF WorkTypeOK, runVars, Authors, VerdictTypeOK
  <1>5. UNCHANGED selectionVars \/ SelectClip(k) \/ ConnectClip(k)
    BY DEF Render, RenderLoads, RenderWorks, RenderSelects, RenderConnects, RenderRaises,
           RenderFails, RenderCrashes
  <1>6. SelectionTypeOK' /\ RequestsInv'
    BY <1>1, <1>5, TypeParts, SelectionKept, WriterType, ConnectType
  <1> QED BY <1>2, <1>4, <1>6, TypeParts, NextTypeParts

LEMMA RequestTypes ==
    ASSUME SelectionAssumption, TypeOK, RequestsInv, Approve \/ \E c \in Clients : Edit(c)
    PROVE  TypeOK' /\ RequestsInv'
  <1>1. CASE Approve
    <2>1. WorkTypeOK'
      BY <1>1, StatusNames, TypeParts DEF WorkTypeOK, Approve, Endings, runVars, verdictVars, renderVars
    <2> QED BY <1>1, <2>1, TypeParts, NextTypeParts, SelectionKept DEF Approve
  <1>2. ASSUME NEW c \in Clients, Edit(c) PROVE TypeOK' /\ RequestsInv'
    <2>1. SelectionTypeOK' /\ RequestsInv'
      BY <1>2, TypeParts, EditType DEF Edit
    <2>2. UNCHANGED <<job, attempt, shotVars, runVars, render>> /\ overtaken' \in BOOLEAN
      BY <1>2 DEF TypeOK, Edit
    <2>3. WorkTypeOK'
      BY <2>2, TypeParts DEF WorkTypeOK, shotVars, runVars, verdictVars, renderVars
    <2> QED BY <2>1, <2>2, <2>3, TypeParts, NextTypeParts
  <1> QED BY <1>1, <1>2

\* Every step is one of a run, one of a render, an approval, an edit, or none.
LEMMA StepKinds ==
    ASSUME [Next]_vars
    PROVE  \/ \E r \in Runs : RunStep(r)
           \/ \E k \in Clips : Render(k)
           \/ Approve \/ \E c \in Clients : Edit(c)
           \/ UNCHANGED vars
  BY DEF Next, Request, RunStep

-----------------------------------------------------------------------------
(* Where a run stands *)

\* A step of one run leaves the locals and the job of the others alone.
LEMMA Frame ==
    ASSUME RegenerationAssumption, TypeOK, NEW r \in Runs, RunStep(r), NEW q \in Runs, q # r
    PROVE  /\ pc'[q] = pc[q] /\ stage'[q] = stage[q] /\ loaded'[q] = loaded[q]
           /\ tracked'[q] = tracked[q] /\ late'[q] = late[q]
           /\ job'[q] = job[q] /\ attempt'[q] = attempt[q]
  <1>1. CASE Enqueue(r) \/ RequestCancellation(r) \/ RetryJob(r)
    BY <1>1, LifeTypes DEF Enqueue, RequestCancellation, RetryJob, runVars
  <1>2. CASE Claim(r)
    BY <1>2, LifeTypes DEF TypeOK, Claim, Goto
  <1>3. CASE CheckInputs(r) \/ Generate(r) \/ CheckGenerated(r) \/ CheckStage(r)
             \/ CheckQuality(r) \/ CheckCandidate(r)
    BY <1>3 DEF TypeOK, CheckInputs, Generate, CheckGenerated, CheckStage, CheckQuality,
                CheckCandidate, Goto
  <1>4. CASE Begin(r) \/ CommitStage(r) \/ Publish(r)
    BY <1>4 DEF TypeOK, Begin, CommitStage, Publish, CountLate, Goto
  <1>5. CASE MarkSucceeded(r) \/ MarkEnded(r)
    BY <1>5, LifeTypes DEF TypeOK, MarkSucceeded, MarkEnded, Forget, Goto
  <1>6. CASE Raise(r) \/ Crash(r)
    BY <1>6 DEF TypeOK, Raise, Crash, Forget, Goto
  <1> QED BY <1>1, <1>2, <1>3, <1>4, <1>5, <1>6 DEF RunStep, Proceed

\* Renders and requests about candidates leave the runs alone.
LEMMA OthersFrame ==
    ASSUME (\E k \in Clips : Render(k)) \/ Approve \/ (\E c \in Clients : Edit(c)) \/ UNCHANGED vars
    PROVE  UNCHANGED <<job, attempt, retries, runVars>>
  BY DEF Render, RenderLoads, RenderWorks, RenderSelects, RenderConnects, RenderRaises, RenderFails,
       RenderCrashes, Approve,
         Edit, vars, shotVars

LEMMA LocalStep ==
    ASSUME RegenerationAssumption, TypeOK, NEW r \in Runs, RunStep(r), Local(r)
    PROVE  Local(r)'
  <1> USE DEF TypeOK, Local, Goto
  <1>1. CASE Enqueue(r) \/ RequestCancellation(r) \/ RetryJob(r)
    BY <1>1 DEF Enqueue, RequestCancellation, RetryJob, runVars, Life!Submit, Life!CancelQueued,
                Life!RequestCancel, Life!Retry, Life!Move
  <1>2. CASE Claim(r)
    BY <1>2 DEF Claim, Life!Start, Life!Move
  <1>3. CASE CheckInputs(r) \/ Generate(r) \/ CheckGenerated(r) \/ CheckQuality(r)
             \/ CheckCandidate(r)
    BY <1>3 DEF CheckInputs, Generate, CheckGenerated, CheckQuality, CheckCandidate, Working
  <1>4. CASE CheckStage(r)
    BY <1>4 DEF CheckStage
  <1>5. CASE Begin(r) \/ Publish(r)
    BY <1>5 DEF Begin, Publish
  <1>6. CASE CommitStage(r)
    <2> DEFINE to == StageAfter(LipSync)[stage[r]]
    <2>1. stage[r] \in (Working \ {"QA_PENDING"}) \cup Ready
      BY <1>6 DEF CommitStage
    <2>2. to \in (Working \ {"VIDEO_GENERATING"}) \cup Ready
      BY <2>1, StageKinds DEF Ready, Working
    <2>3. /\ stage' = [stage EXCEPT ![r] = to] /\ pc' = [pc EXCEPT ![r] = "stage"]
          /\ UNCHANGED <<job, attempt>>
      BY <1>6 DEF CommitStage
    <2>4. pc[r] \in {"stage", "checked"}
      BY <1>6 DEF CommitStage
    <2> HIDE DEF to
    <2> QED BY <2>2, <2>3, <2>4
  <1>7. CASE MarkSucceeded(r) \/ MarkEnded(r)
    BY <1>7 DEF MarkSucceeded, MarkEnded, Forget, Life!Succeed, Life!Cancel, Life!Fail, Life!Move
  <1>8. CASE Raise(r) \/ Crash(r)
    BY <1>8 DEF Raise, Crash, Forget, InFlight
  <1> QED BY <1>1, <1>2, <1>3, <1>4, <1>5, <1>6, <1>7, <1>8 DEF RunStep, Proceed

LEMMA LocalInvStep ==
    ASSUME RegenerationAssumption, TypeOK, LocalInv, [Next]_vars
    PROVE  LocalInv'
  <1>1. ASSUME NEW r \in Runs, RunStep(r), NEW q \in Runs PROVE Local(q)'
    <2>1. CASE q = r
      BY <1>1, <2>1, LocalStep DEF LocalInv
    <2>2. CASE q # r
      BY <1>1, <2>2, Frame DEF LocalInv, Local
    <2> QED BY <2>1, <2>2
  <1>2. ASSUME UNCHANGED <<job, attempt, retries, runVars>> PROVE LocalInv'
    BY <1>2 DEF runVars, LocalInv, Local
  <1> QED BY <1>1, <1>2, StepKinds, OthersFrame DEF LocalInv

-----------------------------------------------------------------------------
(* The selection *)

\* A run's candidates are those of its attempts so far; the current attempt
\* has one only after it published.
Fresh(r) ==
    \A n \in 1 .. MaxRetries + 1 :
        <<r, n>> \in Present => n < attempt[r] \/ (n = attempt[r] /\ pc[r] \notin Unpublished)

FreshInv == \A r \in Runs : Fresh(r)

\* How a step changes the set of candidates.
LEMMA PresentAfter ==
    ASSUME RegenerationAssumption, SelectionAssumption, TypeOK, LocalInv, RequestsInv,
           SelectionAgrees, [Next]_vars
    PROVE  \/ \E r \in Runs : Publish(r) /\ Mine(r) \in Regenerated
                              /\ Mine(r) \in Candidates /\ Present' = Present \cup {Mine(r)}
           \/ \E k \in Clips : Render(k) /\ Present' = Present \cup {k}
           \/ (\A r \in Runs : ~Publish(r)) /\ Present' = Present
  <1> HIDE DEF Present
  <1>1. ASSUME NEW r \in Runs, Publish(r)
        PROVE  Mine(r) \in Regenerated /\ Mine(r) \in Candidates /\ Present' = Present \cup {Mine(r)}
    <2>1. Mine(r) \in Regenerated /\ Mine(r) \in Candidates
      BY <1>1, MineType DEF Publish
    <2> QED BY <1>1, <2>1, WriterType, TypeParts DEF Publish
  <1>2. ASSUME NEW r \in Runs, RunStep(r), ~Publish(r) PROVE Present' = Present
    <2>1. UNCHANGED selectionVars
      BY <1>2 DEF RunStep, Proceed, Enqueue, RequestCancellation, RetryJob, Claim, CheckInputs, Begin,
             Generate, CheckGenerated, CheckStage, CommitStage, CheckQuality, CheckCandidate,
             MarkSucceeded, Raise, MarkEnded, Crash
    <2> QED BY <2>1, SelectionKept
  <1>3. ASSUME NEW k \in Clips, Render(k)
        PROVE  Present' = Present \/ Present' = Present \cup {k}
    <2>1. UNCHANGED selectionVars \/ SelectClip(k) \/ ConnectClip(k)
      BY <1>3 DEF Render, RenderLoads, RenderWorks, RenderSelects, RenderConnects,
         RenderRaises, RenderFails, RenderCrashes
    <2>2. k \in Candidates
      BY DEF RegenerationAssumption
    <2> QED BY <2>1, <2>2, WriterType, ConnectType, SelectionKept, TypeParts
  <1>4. ASSUME Approve \/ (\E c \in Clients : Edit(c)) \/ UNCHANGED vars PROVE Present' = Present
    <2>1. CASE Approve \/ UNCHANGED vars
      BY <2>1, SelectionKept DEF Approve, vars
    <2>2. CASE \E c \in Clients : Edit(c)
      BY <2>2, EditRows, TypeParts DEF Edit
    <2> QED BY <1>4, <2>1, <2>2
  <1> QED BY <1>1, <1>2, <1>3, <1>4, StepKinds

LEMMA FreshStep ==
    ASSUME RegenerationAssumption, SelectionAssumption, TypeOK, LocalInv, RequestsInv,
           SelectionAgrees, FreshInv, [Next]_vars
    PROVE  FreshInv'
  <1> HIDE DEF Present
  <1> USE RegenerationAssumption
  <1>1. ASSUME NEW r \in Runs, RunStep(r), NEW q \in Runs, q # r PROVE Fresh(q)'
    <2>1. pc'[q] = pc[q] /\ job'[q] = job[q] /\ attempt'[q] = attempt[q]
      BY <1>1, Frame
    <2>2. \A n \in 1 .. MaxRetries + 1 : <<q, n>> \in Present' <=> <<q, n>> \in Present
      <3>1. Mine(r) # <<q, attempt[q]>> /\ \A n \in 1 .. MaxRetries + 1 : Mine(r) # <<q, n>>
        BY <1>1 DEF Mine
      <3>2. \A k \in Clips, n \in 1 .. MaxRetries + 1 : k # <<q, n>>
        BY DEF RegenerationAssumption, Regenerated
      <3>3. \A t \in Runs : Publish(t) => t = r
        <4>1. ASSUME NEW t \in Runs, Publish(t), t # r PROVE FALSE
          <5>1. pc'[t] = pc[t]
            BY <1>1, <4>1, Frame
          <5>2. pc[t] = "publishing" /\ pc'[t] = "completing"
            BY <4>1 DEF Publish, Goto, TypeOK
          <5> QED BY <5>1, <5>2
        <4> QED BY <4>1
      <3> QED BY <3>1, <3>2, <3>3, PresentAfter
    <2>3. Mine(q) \in Present => Mine(q) \in Present'
      BY PresentAfter
    <2> QED BY <1>1, <2>1, <2>2, <2>3 DEF FreshInv, Fresh, Mine
  <1>2. ASSUME NEW r \in Runs, RunStep(r) PROVE Fresh(r)'
    <2>0. Fresh(r) /\ Local(r)
      BY DEF FreshInv, LocalInv
    <2>1. CASE Publish(r)
      <3>1. /\ pc[r] = "publishing" /\ pc' = [pc EXCEPT ![r] = "completing"]
            /\ UNCHANGED <<job, attempt>>
        BY <2>1 DEF Publish, Goto
      <3>2. pc'[r] = "completing"
        BY <3>1 DEF TypeOK
      <3>3. Present' = Present \cup {Mine(r)}
        BY <2>1, MineType, WriterType, TypeParts DEF Publish
      <3>4. Mine(r)' = Mine(r)
        BY <3>1 DEF Mine
      <3>5. attempt[r] \in Nat
        BY DEF TypeOK
      <3> QED BY <2>0, <3>1, <3>2, <3>3, <3>4, <3>5 DEF Fresh, Unpublished, Mine
    <2>2. CASE ~Publish(r)
      <3>1. UNCHANGED selectionVars
        BY <1>2, <2>2 DEF RunStep, Proceed, Enqueue, RequestCancellation, RetryJob, Claim,
               CheckInputs, Begin, Generate, CheckGenerated, CheckStage, CommitStage, CheckQuality,
               CheckCandidate, MarkSucceeded, Raise, MarkEnded, Crash
      <3>2. Present' = Present
        BY <3>1, SelectionKept
      <3>3. CASE Claim(r)
        <4>1. /\ pc[r] = "idle" /\ attempt'[r] = attempt[r] + 1 /\ pc'[r] = "preparing"
              /\ job'[r] = "running"
          BY <3>3 DEF Claim, Life!Start, Life!Move, Goto, TypeOK
        <4>2. attempt[r] \in Nat
          BY DEF TypeOK
        <4> QED BY <2>0, <3>2, <4>1, <4>2 DEF Fresh, Unpublished
      <3>4. CASE ~Claim(r)
        <4>1. attempt' = attempt
          BY <1>2, <2>2, <3>4 DEF RunStep, Proceed, Enqueue, RequestCancellation, RetryJob,
             CheckInputs, Begin, Generate, CheckGenerated, CheckStage, CommitStage, CheckQuality,
             CheckCandidate, MarkSucceeded, Raise, MarkEnded, Crash, Life!Submit, Life!CancelQueued,
             Life!RequestCancel, Life!Retry, Life!Succeed, Life!Cancel, Life!Fail
        <4>2. pc'[r] \in Unpublished => pc[r] \in Unpublished
          BY <1>2, <2>2, <3>4 DEF TypeOK, RunStep, Proceed, Enqueue, RequestCancellation, RetryJob,
             CheckInputs, Begin, Generate, CheckGenerated, CheckStage, CommitStage, CheckQuality,
             CheckCandidate, MarkSucceeded, Raise, MarkEnded, Crash, runVars, Goto, Unpublished
        <4>3. pc'[r] = "completing" => pc[r] = "completing"
          BY <1>2, <2>2, <3>4 DEF TypeOK, RunStep, Proceed, Enqueue, RequestCancellation, RetryJob,
             CheckInputs, Begin, Generate, CheckGenerated, CheckStage, CommitStage, CheckQuality,
             CheckCandidate, MarkSucceeded, Raise, MarkEnded, Crash, runVars, Goto
        <4>4. job'[r] = "succeeded" => job[r] = "succeeded" \/ pc[r] = "completing"
          BY <1>2, <2>2, <3>4 DEF TypeOK, RunStep, Proceed, Enqueue, RequestCancellation, RetryJob,
             CheckInputs, Begin, Generate, CheckGenerated, CheckStage, CommitStage, CheckQuality,
             CheckCandidate, MarkSucceeded, Raise, MarkEnded, Crash, Life!Submit, Life!CancelQueued,
             Life!RequestCancel, Life!Retry, Life!Succeed, Life!Cancel, Life!Fail, Life!Move
        <4> QED BY <2>0, <3>2, <4>1, <4>2, <4>3, <4>4 DEF Fresh, Mine
      <3> QED BY <3>3, <3>4
    <2> QED BY <2>1, <2>2
  <1>3. ASSUME UNCHANGED <<job, attempt, retries, runVars>> PROVE FreshInv'
    <2>1. \A r \in Runs : ~Publish(r)
      <3>1. ASSUME NEW r \in Runs, Publish(r) PROVE FALSE
        BY <1>3, <3>1 DEF Publish, Goto, TypeOK, runVars
      <3> QED BY <3>1
    <2>2. \A r \in Runs, n \in 1 .. MaxRetries + 1 : <<r, n>> \in Present' <=> <<r, n>> \in Present
      <3>1. \A k \in Clips, r \in Runs, n \in 1 .. MaxRetries + 1 : k # <<r, n>>
        BY DEF RegenerationAssumption, Regenerated
      <3> QED BY <2>1, <3>1, PresentAfter
    <2>3. \A r \in Runs : Mine(r) \in Present => Mine(r) \in Present'
      BY PresentAfter
    <2> QED BY <1>3, <2>2, <2>3 DEF runVars, FreshInv, Fresh, Mine
  <1> QED BY <1>1, <1>2, <1>3, StepKinds, OthersFrame DEF FreshInv

LEMMA AgreesStep ==
    ASSUME RegenerationAssumption, SelectionAssumption, TypeOK, LocalInv, RequestsInv, FreshInv,
           SelectionAgrees, [Next]_vars
    PROVE  SelectionAgrees'
  <1> HIDE DEF SelectionAgrees
  <1>1. ASSUME NEW r \in Runs, RunStep(r) PROVE SelectionAgrees'
    <2>1. CASE Publish(r)
      <3>1. Mine(r) \in Candidates /\ Mine(r) \notin Present
        BY <2>1, MineType DEF Publish, FreshInv, Fresh, Mine, Regenerated, Unpublished, TypeOK
      <3> QED BY <2>1, <3>1, WriterAgrees, TypeParts DEF Publish
    <2>2. CASE ~Publish(r)
      <3>1. UNCHANGED selectionVars
        BY <1>1, <2>2 DEF RunStep, Proceed, Enqueue, RequestCancellation, RetryJob, Claim,
               CheckInputs, Begin, Generate, CheckGenerated, CheckStage, CommitStage, CheckQuality,
               CheckCandidate, MarkSucceeded, Raise, MarkEnded, Crash
      <3> QED BY <3>1, SelectionKept
    <2> QED BY <2>1, <2>2
  <1>2. ASSUME NEW k \in Clips, Render(k) PROVE SelectionAgrees'
    <2>1. UNCHANGED selectionVars \/ SelectClip(k) \/ ConnectClip(k)
      BY <1>2 DEF Render, RenderLoads, RenderWorks, RenderSelects, RenderConnects,
         RenderRaises, RenderFails, RenderCrashes
    <2>2. k \in Candidates
      BY DEF RegenerationAssumption
    <2> QED BY <2>1, <2>2, WriterAgrees, ConnectType, SelectionKept, TypeParts
  <1>3. ASSUME Approve \/ (\E c \in Clients : Edit(c)) \/ UNCHANGED vars PROVE SelectionAgrees'
    <2>1. CASE Approve \/ UNCHANGED vars
      BY <2>1, SelectionKept DEF Approve, vars
    <2>2. CASE \E c \in Clients : Edit(c)
      BY <2>2, EditAgrees, TypeParts DEF Edit
    <2> QED BY <1>3, <2>1, <2>2
  <1> QED BY <1>1, <1>2, <1>3, StepKinds

-----------------------------------------------------------------------------
(* The invariant *)

IInv == TypeOK /\ LocalInv /\ RequestsInv /\ FreshInv /\ SelectionAgrees

LEMMA InitIInv ==
    ASSUME RegenerationAssumption, SelectionAssumption, Init
    PROVE  IInv
  <1>1. FreshInv
    <2>1. Present = {}
      BY DEF Init, SelectionInit, Unread, Present
    <2> HIDE DEF Present
    <2> QED BY <2>1 DEF Init, Life!Init, FreshInv, Fresh
  <1>2. SelectionAgrees
    BY DEF Init, SelectionInit, Unread, NewShot, SelectionAgrees, Selected
  <1> QED BY <1>1, <1>2, InitTypeOK DEF IInv

LEMMA IInvStep ==
    ASSUME RegenerationAssumption, SelectionAssumption, IInv, [Next]_vars
    PROVE  IInv'
  <1> USE DEF IInv
  <1>1. TypeOK' /\ RequestsInv'
    <2>1. CASE UNCHANGED vars
      <3>1. WorkTypeOK' /\ SelectionTypeOK' /\ RequestsInv'
        BY <2>1, TypeParts, SelectionKept DEF vars, shotVars, runVars,
           verdictVars, renderVars, WorkTypeOK
      <3> QED BY <2>1, <3>1, TypeParts, NextTypeParts DEF vars
    <2> QED BY <2>1, RunType, RenderType, RequestTypes, StepKinds
  <1> QED BY <1>1, LocalInvStep, FreshStep, AgreesStep

LEMMA Invariance ==
    ASSUME RegenerationAssumption, SelectionAssumption
    PROVE  Spec => []IInv
  <1>1. Init => IInv
    BY InitIInv
  <1>2. IInv /\ [Next]_vars => IInv'
    BY IInvStep
  <1> QED BY <1>1, <1>2, PTL DEF Spec

-----------------------------------------------------------------------------
(* The marks of work *)

\* Labels of a run in media work.
InWork == {"generating", "generated", "stage", "checked", "extracting", "publishing"}

\* What the step of a run does to a mark of work: it puts its own, or leaves that
\* of another alone, or stays at its own, or gives its own up at a place that is
\* recorded.
LEMMA RunMarks ==
    ASSUME IInv, NEW r \in Runs, RunStep(r), status' \in Working
    PROVE  \/ author' = r /\ tracked'[r] /\ stage'[r] = status' /\ pc'[r] \in InWork
           \/ status' = status /\ author' = author /\ author # r
           \/ status' = status /\ author' = author /\ (StandsAt(r, status) => StandsAt(r, status)')
           \/ status' = status /\ author = r /\ author' \in {"killed", "handler failed"}
           \/ /\ status' = status /\ author = r /\ author' = "run failed"
              /\ StandsAt(r, status) => status \in {"VIDEO_GENERATING", "QA_PENDING"}
  <1> USE DEF IInv, LocalInv, Local, TypeOK, Goto, StandsAt, InWork
  <1>1. CASE Enqueue(r) \/ RequestCancellation(r) \/ RetryJob(r)
    BY <1>1 DEF Enqueue, RequestCancellation, RetryJob, shotVars, runVars
  <1>2. CASE Claim(r) \/ MarkSucceeded(r) \/ MarkEnded(r)
    BY <1>2 DEF Claim, MarkSucceeded, MarkEnded, shotVars
  <1>3. CASE CheckInputs(r) \/ Generate(r) \/ CheckGenerated(r) \/ CheckStage(r)
             \/ CheckQuality(r) \/ CheckCandidate(r)
    BY <1>3 DEF CheckInputs, Generate, CheckGenerated, CheckStage, CheckQuality,
                CheckCandidate, shotVars
  <1>4. CASE Begin(r)
    BY <1>4 DEF Begin, Writes
  <1>5. CASE CommitStage(r)
    <2> DEFINE to == StageAfter(LipSync)[stage[r]]
    <2>1. /\ stage' = [stage EXCEPT ![r] = to] /\ pc' = [pc EXCEPT ![r] = "stage"]
          /\ IF tracked[r] THEN Writes(r, to) ELSE UNCHANGED <<status, author>>
          /\ UNCHANGED tracked
      BY <1>5 DEF CommitStage
    <2> HIDE DEF to
    <2> QED BY <2>1 DEF Writes
  <1>6. CASE Publish(r)
    <2>1. ASSUME tracked[r] PROVE FALSE
      <3>1. Finish(r)
        BY <1>6, <2>1 DEF Publish
      <3>2. status' \in Rendered
        BY <3>1 DEF Finish, Writes
      <3> QED BY <3>2, StageKinds
    <2>2. UNCHANGED <<status, author>>
      BY <1>6, <2>1 DEF Publish
    <2> QED BY <2>1, <2>2
  <1>7. CASE Raise(r)
    <2>0. CASE tracked[r] /\ Handled(r)
      BY <1>7, <2>0, AfterRaise DEF Raise, HandlerRaises, Leaves
    <2> SUFFICES ASSUME ~(tracked[r] /\ Handled(r))
                 PROVE  \/ status' = status /\ author' = author /\ author # r
                        \/ /\ status' = status /\ author = r /\ author' = "run failed"
                           /\ StandsAt(r, status) => status \in {"VIDEO_GENERATING", "QA_PENDING"}
      BY <2>0
    <2>1. ~(tracked[r] /\ Handled(r)) /\ status' = status
      BY <1>7 DEF Raise
    <2>2. author' = IF author = r THEN "run failed" ELSE author
      BY <1>7, <2>1 DEF Raise, Leaves
    <2>3. StandsAt(r, status) => status \in {"VIDEO_GENERATING", "QA_PENDING"}
      BY <1>7, <2>1, StageKinds DEF Raise, Handled, PCs, Working, Ready
    <2> QED BY <2>1, <2>2, <2>3
  <1>8. CASE Crash(r)
    BY <1>8 DEF Crash, Leaves
  <1> QED BY <1>1, <1>2, <1>3, <1>4, <1>5, <1>6, <1>7, <1>8 DEF RunStep, Proceed

\* The same for the step of a render.
LEMMA RenderMarks ==
    ASSUME IInv, NEW k \in Clips, Render(k), status' \in Working
    PROVE  \/ author' = k /\ render'[k] = status'
           \/ status' = status /\ author' = author /\ author # k
           \/ status' = status /\ author' = author /\ (render[k] = status => render'[k] = status)
           \/ status' = status /\ author = k /\ author' \in {"killed", "handler failed"}
           \/ /\ status' = status /\ author = k /\ author' = "render failed"
              /\ render[k] = status => status = "QA_PENDING"
  <1> USE DEF IInv, TypeOK, RenderGoto
  <1>1. CASE RenderLoads(k) \/ RenderConnects(k)
    BY <1>1 DEF RenderLoads, RenderConnects, shotVars, Working
  <1>2. CASE RenderWorks(k)
    <2>1. PICK to \in Working \cup Ready : Writes(k, to) /\ RenderGoto(k, to)
      BY <1>2, StageKinds DEF RenderWorks, Working
    <2> QED BY <2>1 DEF Writes
  <1>3. CASE RenderSelects(k)
    <2>1. PICK st \in Rendered : Writes(k, st)
      BY <1>3 DEF RenderSelects
    <2> QED BY <2>1, StageKinds DEF Writes
  <1>4. CASE RenderRaises(k)
    BY <1>4, AfterRaise DEF RenderRaises, HandlerRaises, Leaves
  <1>5. CASE RenderFails(k) \/ RenderCrashes(k)
    BY <1>5 DEF RenderFails, RenderCrashes, Leaves, Working
  <1> QED BY <1>1, <1>2, <1>3, <1>4, <1>5 DEF Render

LEMMA MarksStep ==
    ASSUME RegenerationAssumption, IInv, MarksExplained, [Next]_vars
    PROVE  MarksExplained'
  <1> SUFFICES ASSUME status' \in Working
               PROVE  \/ \E r \in Runs : author' = r /\ StandsAt(r, status)'
                      \/ \E k \in Clips : author' = k /\ render'[k] = status'
                      \/ author' \in {"killed", "handler failed"}
                      \/ author' = "run failed" /\ status' \in {"VIDEO_GENERATING", "QA_PENDING"}
                      \/ author' = "render failed" /\ status' = "QA_PENDING"
    BY DEF MarksExplained
  <1> DEFINE Explained ==
               \/ \E r \in Runs : author = r /\ StandsAt(r, status)
               \/ \E k \in Clips : author = k /\ render[k] = status
               \/ author \in {"killed", "handler failed"}
               \/ author = "run failed" /\ status \in {"VIDEO_GENERATING", "QA_PENDING"}
               \/ author = "render failed" /\ status = "QA_PENDING"
  <1>0. /\ status' = status => Explained
        /\ \A r \in Runs : r \notin Clips /\ r \notin Endings
        /\ \A k \in Clips : k \notin Runs /\ k \notin Endings
    <2>1. status' = status => Explained
      BY DEF MarksExplained
    <2>2. ASSUME NEW worker \in Clips \cup Runs
          PROVE  worker \notin Endings
      BY DEF RegenerationAssumption
    <2>3. Clips \cap Runs = {}
      BY DEF RegenerationAssumption
    <2> HIDE DEF Explained
    <2> QED BY <2>1, <2>2, <2>3
  <1>1. ASSUME NEW r \in Runs, RunStep(r)
        PROVE  \/ \E q \in Runs : author' = q /\ StandsAt(q, status)'
               \/ \E k \in Clips : author' = k /\ render'[k] = status'
               \/ author' \in {"killed", "handler failed"}
               \/ author' = "run failed" /\ status' \in {"VIDEO_GENERATING", "QA_PENDING"}
               \/ author' = "render failed" /\ status' = "QA_PENDING"
    <2>1. render' = render
      BY <1>1 DEF RunStep, Proceed, Enqueue, RequestCancellation, RetryJob, Claim, CheckInputs, Begin,
         Generate, CheckGenerated, CheckStage, CommitStage, CheckQuality, CheckCandidate, Publish,
         MarkSucceeded, Raise, MarkEnded, Crash, renderVars
    <2>2. ASSUME NEW q \in Runs, q # r, status' = status, StandsAt(q, status)
          PROVE  StandsAt(q, status)'
      BY <1>1, <2>2, Frame DEF IInv, StandsAt
    <2>3. CASE author' = r /\ tracked'[r] /\ stage'[r] = status' /\ pc'[r] \in InWork
      BY <2>3 DEF StandsAt, InWork
    <2>4. CASE status' = status /\ author' = author /\ author # r
      BY <1>0, <2>1, <2>2, <2>4
    <2>5. CASE status' = status /\ author' = author /\ (StandsAt(r, status) => StandsAt(r, status)')
      BY <1>0, <2>1, <2>2, <2>5
    <2>6. CASE author' \in {"killed", "handler failed"}
      BY <2>6
    <2>7. CASE /\ status' = status /\ author = r /\ author' = "run failed"
               /\ StandsAt(r, status) => status \in {"VIDEO_GENERATING", "QA_PENDING"}
      BY <1>0, <2>7 DEF Endings
    <2> QED BY <1>1, <2>3, <2>4, <2>5, <2>6, <2>7, RunMarks
  <1>2. ASSUME NEW k \in Clips, Render(k)
        PROVE  \/ \E q \in Runs : author' = q /\ StandsAt(q, status)'
               \/ \E j \in Clips : author' = j /\ render'[j] = status'
               \/ author' \in {"killed", "handler failed"}
               \/ author' = "run failed" /\ status' \in {"VIDEO_GENERATING", "QA_PENDING"}
               \/ author' = "render failed" /\ status' = "QA_PENDING"
    <2>1. ASSUME NEW r \in Runs, status' = status, StandsAt(r, status) PROVE StandsAt(r, status)'
      BY <1>2, <2>1, OthersFrame DEF StandsAt, runVars
    <2>2. \A j \in Clips : j # k => render'[j] = render[j]
      BY <1>2 DEF IInv, TypeOK, Render, RenderLoads, RenderWorks, RenderSelects, RenderConnects,
         RenderRaises, RenderFails, RenderCrashes, RenderGoto
    <2>3. CASE author' = k /\ render'[k] = status'
      BY <2>3
    <2>4. CASE status' = status /\ author' = author /\ author # k
      BY <1>0, <2>1, <2>2, <2>4
    <2>5. CASE status' = status /\ author' = author /\ (render[k] = status => render'[k] = status)
      BY <1>0, <2>1, <2>2, <2>5
    <2>6. CASE author' \in {"killed", "handler failed"}
      BY <2>6
    <2>7. CASE /\ status' = status /\ author = k /\ author' = "render failed"
               /\ render[k] = status => status = "QA_PENDING"
      BY <1>0, <2>7 DEF Endings
    <2> QED BY <1>2, <2>3, <2>4, <2>5, <2>6, <2>7, RenderMarks
  <1>3. CASE Approve
    BY <1>3, StageKinds DEF Approve
  <1>4. CASE (\E c \in Clients : Edit(c)) \/ UNCHANGED vars
    <2>1. UNCHANGED <<status, author, render, runVars>>
      BY <1>4 DEF Edit, vars, shotVars, renderVars
    <2> QED BY <1>0, <2>1 DEF StandsAt, runVars
  <1> QED BY <1>1, <1>2, <1>3, <1>4, StepKinds

-----------------------------------------------------------------------------
(* Promptness *)

\* After its cancellation was requested a run stops at its next check.
Prompt(r) ==
    /\ late[r] > 0 => job[r] = "cancel_requested"
    /\ pc[r] \in {"generated", "checked", "extracting", "publishing"} => late[r] = 0
    /\ pc[r] \in {"generating", "completing"} => late[r] <= 1
    /\ pc[r] = "stage" => late[r] <= IF stage[r] \in Working THEN 2 ELSE 1

PromptInv == \A r \in Runs : Prompt(r)

LEMMA PromptRun ==
    ASSUME IInv, NEW r \in Runs, RunStep(r), Prompt(r)
    PROVE  Prompt(r)'
  <1> USE DEF IInv, LocalInv, Local, TypeOK, Goto, Prompt, Cancelled
  <1>1. CASE Enqueue(r) \/ RequestCancellation(r) \/ RetryJob(r)
    BY <1>1 DEF Enqueue, RequestCancellation, RetryJob, runVars, Life!Submit, Life!CancelQueued,
                Life!RequestCancel, Life!Retry, Life!Move
  <1>2. CASE Claim(r)
    BY <1>2 DEF Claim
  <1>3. CASE CheckInputs(r) \/ Generate(r) \/ CheckGenerated(r) \/ CheckQuality(r)
             \/ CheckCandidate(r)
    BY <1>3 DEF CheckInputs, Generate, CheckGenerated, CheckQuality, CheckCandidate
  <1>4. CASE CheckStage(r)
    BY <1>4 DEF CheckStage
  <1>5. CASE Begin(r) \/ Publish(r)
    BY <1>5 DEF Begin, Publish, CountLate
  <1>6. CASE CommitStage(r)
    <2> DEFINE to == StageAfter(LipSync)[stage[r]]
    <2>1. /\ pc[r] = "checked" => to \in Ready
          /\ pc[r] = "stage" => stage[r] \notin Working /\ to \in Working
      BY <1>6, StageKinds DEF CommitStage
    <2>2. /\ stage' = [stage EXCEPT ![r] = to] /\ pc' = [pc EXCEPT ![r] = "stage"]
          /\ CountLate(r) \/ UNCHANGED late
          /\ UNCHANGED job
      BY <1>6 DEF CommitStage
    <2>3. pc[r] \in {"stage", "checked"} /\ Working \cap Ready = {}
      BY <1>6, StageKinds DEF CommitStage
    <2>4. /\ pc[r] = "checked" => late'[r] <= 1
          /\ pc[r] = "stage" => late'[r] <= 2
          /\ late'[r] > 0 => job[r] = "cancel_requested"
      BY <2>1, <2>2, <2>3 DEF CountLate
    <2> HIDE DEF to
    <2> QED BY <2>1, <2>2, <2>3, <2>4
  <1>7. CASE MarkSucceeded(r) \/ Raise(r) \/ Crash(r)
    <2>1. late'[r] = 0
      BY <1>7 DEF MarkSucceeded, Raise, Crash, Forget
    <2>2. pc'[r] \in {"idle", "ending", "dead"}
      BY <1>7 DEF MarkSucceeded, Raise, Crash
    <2> QED BY <2>1, <2>2
  <1>8. CASE MarkEnded(r)
    BY <1>8 DEF MarkEnded
  <1> QED BY <1>1, <1>2, <1>3, <1>4, <1>5, <1>6, <1>7, <1>8 DEF RunStep, Proceed

LEMMA PromptStep ==
    ASSUME RegenerationAssumption, IInv, PromptInv, [Next]_vars
    PROVE  PromptInv'
  <1>1. ASSUME NEW r \in Runs, RunStep(r), NEW q \in Runs PROVE Prompt(q)'
    <2>1. CASE q = r
      BY <1>1, <2>1, PromptRun DEF PromptInv
    <2>2. CASE q # r
      BY <1>1, <2>2, Frame DEF IInv, PromptInv, Prompt
    <2> QED BY <2>1, <2>2
  <1>2. ASSUME UNCHANGED <<job, attempt, retries, runVars>> PROVE PromptInv'
    BY <1>2 DEF runVars, PromptInv, Prompt
  <1> QED BY <1>1, <1>2, StepKinds, OthersFrame DEF PromptInv

-----------------------------------------------------------------------------
(* Connected shots *)

\* What runs and renders do to the selection.
LEMMA WritersSelection ==
    ASSUME IInv, NEW r \in Runs, RunStep(r)
    PROVE  UNCHANGED <<shot, source, stale>>
  BY DEF RunStep, Proceed, Enqueue, RequestCancellation, RetryJob, Claim, CheckInputs, Begin,
         Generate, CheckGenerated, CheckStage, CommitStage, CheckQuality, CheckCandidate, Publish,
         AddPending, MarkSucceeded, Raise, MarkEnded, Crash, selectionVars

\* While a render has still to connect its clip, that is the selected one, unless
\* another was selected meanwhile.
ConnectingInv ==
    ~stale /\ ~overtaken => \A k \in Connecting : shot.chosen \in {k, NoCandidate}

FollowInv == ConnectedFollow /\ ConnectingInv

LEMMA FollowStep ==
    ASSUME RegenerationAssumption, IInv, FollowInv, [Next]_vars
    PROVE  FollowInv'
  <1> USE DEF FollowInv, ConnectedFollow, SelectionConnected, ConnectingInv, Connecting
  <1>1. ASSUME NEW r \in Runs, RunStep(r) PROVE FollowInv'
    <2>1. UNCHANGED renderVars
      BY <1>1 DEF RunStep, Proceed, Enqueue, RequestCancellation, RetryJob, Claim, CheckInputs, Begin,
         Generate, CheckGenerated, CheckStage, CommitStage, CheckQuality, CheckCandidate, Publish,
         MarkSucceeded, Raise, MarkEnded, Crash
    <2> QED BY <1>1, <2>1, WritersSelection DEF renderVars
  <1>2. ASSUME NEW k \in Clips, Render(k) PROVE FollowInv'
    <2> USE DEF IInv, TypeOK, RenderGoto
    <2>1. CASE RenderSelects(k)
      <3>1. shot'.chosen = k /\ overtaken' = (Connecting # {}) /\ render'[k] = "selected"
        BY <2>1 DEF SelectionTypeOK, RenderSelects, SelectClip
      <3>2. \A j \in Clips : j # k => render'[j] = render[j]
        BY <2>1 DEF RenderSelects
      <3> QED BY <3>1, <3>2
    <2>2. CASE RenderConnects(k)
      <3>1. /\ source' = k /\ UNCHANGED <<shot, stale, overtaken>>
            /\ render[k] = "selected" /\ render'[k] = "connected"
        BY <2>2 DEF RenderConnects, ConnectClip
      <3>2. \A j \in Clips : j # k => render'[j] = render[j]
        BY <2>2 DEF RenderConnects
      <3>3. shot.chosen \in {k, NoCandidate} \/ stale \/ overtaken
        BY <3>1
      <3> QED BY <3>1, <3>2, <3>3
    <2>3. CASE RenderLoads(k) \/ RenderWorks(k) \/ RenderRaises(k) \/ RenderFails(k) \/ RenderCrashes(k)
      <3>1. UNCHANGED <<shot, source, stale, overtaken>>
        BY <2>3 DEF RenderLoads, RenderWorks, RenderRaises, RenderFails, RenderCrashes, selectionVars
      <3>2. render'[k] \notin {"connected", "selected"}
        <4>1. ASSUME RenderWorks(k) PROVE render'[k] \in Working \cup Ready
          BY <4>1, StageKinds DEF RenderWorks, Working
        <4> QED BY <2>3, <4>1 DEF RenderLoads, RenderRaises, RenderFails, RenderCrashes, Working, Ready
      <3>3. \A j \in Clips : j # k => render'[j] = render[j]
        BY <2>3 DEF RenderLoads, RenderWorks, RenderRaises, RenderFails, RenderCrashes
      <3> QED BY <3>1, <3>2, <3>3
    <2> QED BY <1>2, <2>1, <2>2, <2>3 DEF Render
  <1>3. CASE Approve \/ UNCHANGED vars
    BY <1>3 DEF Approve, vars, renderVars, selectionVars
  <1>4. ASSUME NEW c \in Clients, Edit(c) PROVE FollowInv'
    <2>1. Select(c) \/ Reject(c)
      BY <1>4 DEF Edit
    <2>2. /\ SelectionTypeOK /\ UNCHANGED render
          /\ overtaken' = IF At(c, "selecting") THEN Connecting # {} ELSE overtaken
      BY <1>4 DEF IInv, TypeOK, Edit
    <2>3. ASSUME ~stale', ~overtaken' PROVE FollowInv'
      <3>1. CASE At(c, "selecting") /\ shot'.chosen = source'
        <4>1. Connecting = {}
          BY <2>2, <2>3, <3>1
        <4> QED BY <2>2, <3>1, <4>1
      <3>2. CASE /\ ~At(c, "selecting") /\ source' = source /\ ~stale
                 /\ shot'.chosen \in {shot.chosen, NoCandidate}
        BY <2>2, <2>3, <3>2
      <3> QED BY <2>1, <2>2, <2>3, <3>1, <3>2, EditFollow
    <2> QED BY <2>3
  <1> QED BY <1>1, <1>2, <1>3, <1>4, StepKinds

-----------------------------------------------------------------------------
(* The verdict *)

\* A run that knows the last verdict would put that one back.
VerdictInv ==
    /\ status \in Rendered /\ ~reverted => status = verdict
    /\ ~reverted => \A r \in Runs : loaded[r].status \in Rendered /\ r \notin outdated
                                        => loaded[r].status = verdict

\* What a quality check makes of it.
LEMMA JudgedVerdict ==
    ASSUME IInv, NEW worker \in Runs \cup Clips, NEW st \in Rendered, Writes(worker, st),
           Judged(worker, st), \A q \in Runs : loaded[q].status \in Rendered => InFlight(q),
           worker \in Runs => loaded[worker].status \notin Rendered, loaded' = loaded
    PROVE  VerdictInv'
  BY DEF VerdictInv, Writes, Judged

\* The locals of a run that is not in flight, or has ended its work, are empty.
LoadedInv == \A r \in Runs : pc[r] \in {"idle", "ending", "dead"} => loaded[r] = Unloaded

LEMMA LoadedStep ==
    ASSUME RegenerationAssumption, IInv, LoadedInv, [Next]_vars
    PROVE  LoadedInv'
  <1>1. ASSUME NEW r \in Runs, RunStep(r), NEW q \in Runs, pc'[q] \in {"idle", "ending", "dead"}
        PROVE  loaded'[q] = Unloaded
    <2>1. CASE q # r
      BY <1>1, <2>1, Frame DEF IInv, LoadedInv
    <2>2. CASE q = r
      <3> USE DEF IInv, TypeOK, LoadedInv, Goto
      <3>1. CASE Enqueue(r) \/ RequestCancellation(r) \/ RetryJob(r)
        BY <1>1, <2>2, <3>1 DEF Enqueue, RequestCancellation, RetryJob, runVars
      <3>2. CASE MarkSucceeded(r) \/ Raise(r) \/ Crash(r) \/ MarkEnded(r)
        BY <1>1, <2>2, <3>2 DEF MarkSucceeded, Raise, Crash, MarkEnded, Forget
      <3>3. CASE \/ Claim(r) \/ CheckInputs(r) \/ Begin(r) \/ Generate(r) \/ CheckGenerated(r)
                 \/ CheckStage(r) \/ CommitStage(r) \/ CheckQuality(r) \/ CheckCandidate(r)
                 \/ Publish(r)
        BY <1>1, <2>2, <3>3 DEF Claim, CheckInputs, Begin, Generate, CheckGenerated, CheckStage,
           CommitStage, CheckQuality, CheckCandidate, Publish
      <3> QED BY <1>1, <3>1, <3>2, <3>3 DEF RunStep, Proceed
    <2> QED BY <2>1, <2>2
  <1>2. ASSUME UNCHANGED <<job, attempt, retries, runVars>> PROVE LoadedInv'
    BY <1>2 DEF runVars, LoadedInv
  <1> QED BY <1>1, <1>2, StepKinds, OthersFrame DEF LoadedInv

LEMMA VerdictStep ==
    ASSUME RegenerationAssumption, IInv, LoadedInv, VerdictInv, [Next]_vars
    PROVE  VerdictInv'
  <1>0. \A q \in Runs : loaded[q].status \in Rendered => InFlight(q)
    BY DEF LoadedInv, Unloaded, Rendered, InFlight
  <1>1. ASSUME NEW r \in Runs, RunStep(r) PROVE VerdictInv'
    <2> USE DEF IInv, TypeOK, Goto
    <2>1. CASE Publish(r) /\ tracked[r] /\ loaded[r].status \notin Rendered
      <3>1. PICK st \in Rendered : Writes(r, st) /\ Judged(r, st)
        BY <2>1 DEF Publish, Finish
      <3>2. loaded' = loaded
        BY <2>1 DEF Publish
      <3> QED BY <1>0, <2>1, <3>1, <3>2, JudgedVerdict
    <2>2. CASE Publish(r) /\ tracked[r] /\ loaded[r].status \in Rendered
      <3>1. /\ status' = loaded[r].status /\ reverted' = (reverted \/ r \in outdated)
            /\ UNCHANGED <<verdict, outdated, loaded>>
        BY <2>2 DEF Publish, Finish, Writes
      <3> QED BY <2>2, <3>1 DEF VerdictInv
    <2>3. CASE Claim(r)
      <3>1. /\ loaded' = [loaded EXCEPT ![r] = [status |-> status, retries |-> retries]]
            /\ outdated' = outdated \ {r} /\ UNCHANGED <<status, verdict, reverted>>
        BY <2>3 DEF Claim
      <3> QED BY <3>1 DEF VerdictInv
    <2>4. CASE ~Claim(r) /\ ~(Publish(r) /\ tracked[r])
      <3>1. UNCHANGED verdictVars
        BY <1>1, <2>4 DEF RunStep, Proceed, Enqueue, RequestCancellation, RetryJob, CheckInputs, Begin,
           Generate, CheckGenerated, CheckStage, CommitStage, CheckQuality, CheckCandidate, Publish,
           MarkSucceeded, Raise, MarkEnded, Crash, shotVars
      <3>2. status' \in Rendered => status' = status
        <4>1. CASE Begin(r) \/ CommitStage(r)
          <5>1. CASE Begin(r)
            BY <5>1 DEF Begin, Writes, Rendered
          <5>2. CASE CommitStage(r)
            <6> DEFINE to == StageAfter(LipSync)[stage[r]]
            <6>1. to \in Working \cup Ready
              BY <5>2, StageKinds DEF CommitStage, LocalInv, Local
            <6>2. IF tracked[r] THEN status' = to ELSE status' = status
              BY <5>2 DEF CommitStage, Writes
            <6> HIDE DEF to
            <6> QED BY <6>1, <6>2, StageKinds DEF Ready, Rendered
          <5> QED BY <4>1, <5>1, <5>2
        <4>2. CASE Raise(r)
          BY <4>2, AfterRaise DEF Raise, HandlerRaises, Rendered
        <4>3. CASE ~(Begin(r) \/ CommitStage(r) \/ Raise(r))
          BY <1>1, <2>4, <4>3 DEF RunStep, Proceed, Enqueue, RequestCancellation, RetryJob,
             CheckInputs, Generate, CheckGenerated, CheckStage, CheckQuality, CheckCandidate, Publish,
             MarkSucceeded, MarkEnded, Crash, shotVars
        <4> QED BY <4>1, <4>2, <4>3
      <3>3. \A q \in Runs : loaded'[q].status \in Rendered => loaded'[q] = loaded[q]
        <4>1. CASE MarkSucceeded(r) \/ Raise(r) \/ Crash(r)
          <5>1. loaded' = [loaded EXCEPT ![r] = Unloaded]
            BY <4>1 DEF MarkSucceeded, Raise, Crash, Forget
          <5> QED BY <5>1 DEF Unloaded, Rendered
        <4>2. CASE ~(MarkSucceeded(r) \/ Raise(r) \/ Crash(r))
          BY <1>1, <2>4, <4>2 DEF RunStep, Proceed, Enqueue, RequestCancellation, RetryJob, CheckInputs,
             Begin, Generate, CheckGenerated, CheckStage, CommitStage, CheckQuality, CheckCandidate,
             Publish, MarkEnded, runVars
        <4> QED BY <4>1, <4>2
      <3> QED BY <3>1, <3>2, <3>3 DEF VerdictInv, verdictVars
    <2> QED BY <2>1, <2>2, <2>3, <2>4
  <1>2. ASSUME NEW k \in Clips, Render(k) PROVE VerdictInv'
    <2>1. loaded' = loaded
      BY <1>2, OthersFrame DEF runVars
    <2>2. CASE RenderSelects(k)
      <3>1. PICK st \in Rendered : Writes(k, st) /\ Judged(k, st)
        BY <2>2 DEF RenderSelects
      <3>2. k \notin Runs
        BY DEF RegenerationAssumption
      <3> QED BY <1>0, <2>1, <3>1, <3>2, JudgedVerdict
    <2>3. CASE ~RenderSelects(k)
      <3>1. UNCHANGED verdictVars
        BY <1>2, <2>3 DEF Render, RenderLoads, RenderWorks, RenderConnects, RenderRaises,
           RenderFails, RenderCrashes, shotVars
      <3>2. status' \in Rendered => status' = status
        <4>1. CASE RenderWorks(k)
          <5>1. PICK to \in Working \cup Ready : Writes(k, to)
            BY <4>1, StageKinds DEF RenderWorks, Working
          <5> QED BY <5>1, StageKinds DEF Writes, Ready, Rendered
        <4>2. CASE RenderRaises(k)
          BY <4>2, AfterRaise DEF RenderRaises, HandlerRaises, Rendered
        <4>3. CASE RenderLoads(k) \/ RenderConnects(k) \/ RenderFails(k) \/ RenderCrashes(k)
          BY <4>3 DEF RenderLoads, RenderConnects, RenderFails, RenderCrashes, shotVars
        <4> QED BY <1>2, <2>3, <4>1, <4>2, <4>3 DEF Render
      <3> QED BY <2>1, <3>1, <3>2 DEF VerdictInv, verdictVars
    <2> QED BY <2>2, <2>3
  <1>3. CASE Approve \/ (\E c \in Clients : Edit(c)) \/ UNCHANGED vars
    BY <1>3 DEF Approve, Edit, vars, shotVars, runVars, verdictVars, VerdictInv, Rendered
  <1> QED BY <1>1, <1>2, <1>3, StepKinds

-----------------------------------------------------------------------------
(* Rejections *)

LEMMA RejectionsStep ==
    ASSUME IInv, [Next]_vars
    PROVE  [KeepsRejections]_selectionVars
  <1>1. ASSUME NEW r \in Runs, RunStep(r) PROVE KeepsRejections
    BY <1>1, WritersSelection DEF KeepsRejections
  <1>2. ASSUME NEW k \in Clips, Render(k) PROVE KeepsRejections
    BY <1>2 DEF IInv, TypeOK, SelectionTypeOK, KeepsRejections, Render, RenderLoads, RenderWorks,
       RenderSelects, RenderConnects, RenderRaises, RenderFails, RenderCrashes, SelectClip,
       ConnectClip, selectionVars
  <1>3. ASSUME NEW c \in Clients, Edit(c) PROVE KeepsRejections
    BY <1>3, EditRejections DEF IInv, TypeOK, Edit
  <1>4. CASE Approve \/ UNCHANGED vars
    BY <1>4 DEF Approve, vars
  <1> QED BY <1>1, <1>2, <1>3, <1>4, StepKinds

-----------------------------------------------------------------------------
(* The retry count *)

Published == Present \cap Regenerated

\* A run that has not published loaded a count that was not too high, and the
\* right one if no other run is about.
Counted ==
    /\ IsFiniteSet(Published)
    /\ retries <= Cardinality(Published)
    /\ \A r \in Runs : pc[r] \in Unpublished => loaded[r].retries <= Cardinality(Published)
    /\ ~overlapped =>
          /\ retries = Cardinality(Published)
          /\ \A r \in Runs : pc[r] \in Unpublished => loaded[r].retries = retries
          /\ \A r, q \in Runs : InFlight(r) /\ InFlight(q) => r = q

LEMMA PublishCounted ==
    ASSUME RegenerationAssumption, IInv, Counted, NEW r \in Runs, Publish(r)
    PROVE  Counted'
  <1> DEFINE n == Cardinality(Published)
  <1>1. Mine(r) \in Regenerated /\ Mine(r) \in Candidates /\ Mine(r) \notin Present
    <2>1. Mine(r) \in Regenerated /\ Mine(r) \in Candidates
      BY MineType DEF Publish, IInv
    <2> QED BY <2>1 DEF IInv, Publish, FreshInv, Fresh, Mine, Regenerated, Unpublished, TypeOK
  <1>2. Present' = Present \cup {Mine(r)}
    BY <1>1, WriterType DEF IInv, TypeOK, Publish
  <1>3. Published' = Published \cup {Mine(r)} /\ Mine(r) \notin Published
    BY <1>1, <1>2 DEF Published
  <1>4. IsFiniteSet(Published') /\ Cardinality(Published') = n + 1 /\ n \in Nat
    BY <1>3, FS_AddElement, FS_CardinalityType DEF Counted
  <1>5. /\ retries' = loaded[r].retries + 1
        /\ pc[r] = "publishing" /\ pc' = [pc EXCEPT ![r] = "completing"]
        /\ UNCHANGED <<loaded, overlapped>>
    BY DEF Publish, Goto
  <1>6. /\ loaded[r].retries \in Nat /\ retries \in Nat /\ pc \in [Runs -> PCs]
        /\ \A q \in Runs : loaded[q].retries \in Nat
    BY DEF IInv, TypeOK
  <1>7. pc[r] \in Unpublished /\ pc'[r] \notin Unpublished
    BY <1>5, <1>6 DEF Unpublished
  <1> HIDE DEF Published
  <1>8. retries' <= n + 1 /\ (~overlapped => retries' = n + 1)
    BY <1>4, <1>5, <1>6, <1>7 DEF Counted
  <1>9. ASSUME NEW q \in Runs, pc'[q] \in Unpublished
        PROVE  loaded'[q].retries <= n + 1 /\ overlapped
    <2>1. q # r /\ pc[q] = pc'[q] /\ InFlight(q) /\ InFlight(r)
      BY <1>5, <1>6, <1>7, <1>9 DEF Unpublished, InFlight
    <2> QED BY <1>4, <1>5, <1>6, <1>9, <2>1 DEF Counted
  <1>10. ~overlapped => \A t, q \in Runs : InFlight(t)' /\ InFlight(q)' => t = q
    BY <1>5, <1>6 DEF Counted, InFlight
  <1> QED BY <1>4, <1>5, <1>8, <1>9, <1>10 DEF Counted

LEMMA CountedRun ==
    ASSUME RegenerationAssumption, IInv, Counted, NEW r \in Runs, RunStep(r), ~Publish(r)
    PROVE  Counted'
  <1>1. UNCHANGED selectionVars
    BY DEF RunStep, Proceed, Enqueue, RequestCancellation, RetryJob, Claim, CheckInputs, Begin,
           Generate, CheckGenerated, CheckStage, CommitStage, CheckQuality, CheckCandidate,
           MarkSucceeded, Raise, MarkEnded, Crash
  <1>2. Published' = Published
    BY <1>1, SelectionKept DEF Published
  <1> HIDE DEF Published
  <1>3. retries' = retries
    BY DEF RunStep, Proceed, Enqueue, RequestCancellation, RetryJob, Claim, CheckInputs, Begin,
           Generate, CheckGenerated, CheckStage, CommitStage, CheckQuality, CheckCandidate,
           MarkSucceeded, Raise, MarkEnded, Crash, shotVars
  <1>4. \A q \in Runs \ {r} : pc'[q] = pc[q] /\ loaded'[q] = loaded[q]
    BY Frame DEF IInv
  <1>5. CASE Claim(r)
    <2>1. /\ pc[r] = "idle" /\ pc'[r] = "preparing" /\ loaded'[r].retries = retries
          /\ ~overlapped' => ~overlapped /\ \A q \in Runs : ~InFlight(q)
      BY <1>5 DEF Claim, Goto, IInv, TypeOK
    <2> QED BY <1>2, <1>3, <1>4, <2>1 DEF Counted, InFlight, Unpublished
  <1>6. CASE ~Claim(r)
    <2>1. overlapped' = overlapped
      BY <1>6 DEF RunStep, Proceed, Enqueue, RequestCancellation, RetryJob, CheckInputs, Begin,
           Generate, CheckGenerated, CheckStage, CommitStage, CheckQuality, CheckCandidate,
           MarkSucceeded, Raise, MarkEnded, Crash, runVars
    <2>2. InFlight(r)' => InFlight(r)
      BY <1>6 DEF RunStep, Proceed, Enqueue, RequestCancellation, RetryJob, CheckInputs, Begin,
           Generate, CheckGenerated, CheckStage, CommitStage, CheckQuality, CheckCandidate,
           MarkSucceeded, Raise, MarkEnded, Crash, runVars, Goto, InFlight, IInv, TypeOK
    <2>3. pc'[r] \in Unpublished => pc[r] \in Unpublished /\ loaded'[r] = loaded[r]
      BY <1>6 DEF RunStep, Proceed, Enqueue, RequestCancellation, RetryJob, CheckInputs, Begin,
           Generate, CheckGenerated, CheckStage, CommitStage, CheckQuality, CheckCandidate,
           MarkSucceeded, Raise, MarkEnded, Crash, runVars, Goto, Unpublished, IInv, TypeOK
    <2> QED BY <1>2, <1>3, <1>4, <2>1, <2>2, <2>3 DEF Counted, InFlight
  <1> QED BY <1>5, <1>6

LEMMA CountedStep ==
    ASSUME RegenerationAssumption, SelectionAssumption, IInv, Counted, [Next]_vars
    PROVE  Counted'
  <1>1. ASSUME NEW r \in Runs, RunStep(r) PROVE Counted'
    BY <1>1, PublishCounted, CountedRun
  <1>2. ASSUME UNCHANGED <<job, attempt, retries, runVars>> PROVE Counted'
    <2>1. \A r \in Runs : ~Publish(r)
      <3>1. ASSUME NEW r \in Runs, Publish(r) PROVE FALSE
        BY <1>2, <3>1 DEF Publish, Goto, IInv, TypeOK, runVars
      <3> QED BY <3>1
    <2>2. Published' = Published
      BY <2>1, PresentAfter DEF IInv, Published, RegenerationAssumption
    <2> HIDE DEF Published
    <2> QED BY <1>2, <2>2 DEF Counted, InFlight, runVars
  <1> QED BY <1>1, <1>2, StepKinds, OthersFrame

LEMMA InitCounted == Init => Counted
  <1>1. Init => Published = {}
    BY DEF Init, SelectionInit, Unread, Present, Published
  <1> HIDE DEF Published
  <1> QED BY <1>1, FS_EmptySet DEF Init, Counted, Unpublished, InFlight

-----------------------------------------------------------------------------
(* The properties of ShotRegeneration, for any number of runs, renders and clients *)

\* Every variable keeps its type.
THEOREM TypeCorrect ==
    ASSUME RegenerationAssumption, SelectionAssumption PROVE Spec => []TypeOK
  <1>1. IInv => TypeOK
    BY DEF IInv
  <1> QED BY <1>1, Invariance, PTL

\* The shot names its one selected candidate unless a selection came from
\* outdated copies (select_candidate, reject_candidate, the render's commit).
THEOREM SelectionsAgree ==
    ASSUME RegenerationAssumption, SelectionAssumption PROVE Spec => []SelectionAgrees
  <1>1. IInv => SelectionAgrees
    BY DEF IInv
  <1> QED BY <1>1, Invariance, PTL

\* A mark of work is at the stage of its author, or its author was killed or ended
\* in one of the places without a handler.
THEOREM MarksAccounted ==
    ASSUME RegenerationAssumption, SelectionAssumption PROVE Spec => []MarksExplained
  <1>1. Init => MarksExplained
    BY DEF Init, MarksExplained, Working
  <1>2. IInv /\ MarksExplained /\ [Next]_vars => MarksExplained'
    BY MarksStep
  <1> QED BY <1>1, <1>2, Invariance, PTL DEF Spec

\* A cancelled attempt commits at most twice more (_check_cancelled).
THEOREM CancelsPromptly ==
    ASSUME RegenerationAssumption, SelectionAssumption PROVE Spec => []PromptCancellation
  <1>1. Init => PromptInv
    BY DEF Init, PromptInv, Prompt
  <1>2. IInv /\ PromptInv /\ [Next]_vars => PromptInv'
    BY PromptStep
  <1>3. IInv /\ PromptInv => PromptCancellation
    <2> SUFFICES ASSUME IInv, PromptInv, NEW r \in Runs PROVE late[r] <= 2
      BY DEF PromptCancellation
    <2> QED BY DEF IInv, TypeOK, PCs, LocalInv, Local, PromptInv, Prompt
  <1> QED BY <1>1, <1>2, <1>3, Invariance, PTL DEF Spec

\* The connected shots follow every selection that was not written from
\* outdated copies, and not made between the two commits of a render.
THEOREM ConnectedShotsFollow ==
    ASSUME RegenerationAssumption, SelectionAssumption PROVE Spec => []ConnectedFollow
  <1>1. Init => FollowInv
    BY DEF Init, SelectionInit, NewShot, FollowInv, ConnectedFollow, SelectionConnected,
           ConnectingInv, Connecting
  <1>2. IInv /\ FollowInv /\ [Next]_vars => FollowInv'
    BY FollowStep
  <1>3. FollowInv => ConnectedFollow
    BY DEF FollowInv
  <1> QED BY <1>1, <1>2, <1>3, Invariance, PTL DEF Spec

\* The status of a rendered shot is the last verdict of a quality check, unless a
\* regeneration that had loaded an older one put it back.
THEOREM VerdictsShown ==
    ASSUME RegenerationAssumption, SelectionAssumption PROVE Spec => []VerdictShown
  <1>1. Init => LoadedInv /\ VerdictInv
    BY DEF Init, LoadedInv, VerdictInv, Unloaded, Rendered
  <1>2. IInv /\ LoadedInv /\ VerdictInv /\ [Next]_vars => LoadedInv' /\ VerdictInv'
    BY LoadedStep, VerdictStep
  <1>3. VerdictInv => VerdictShown
    BY DEF VerdictInv, VerdictShown
  <1> QED BY <1>1, <1>2, <1>3, Invariance, PTL DEF Spec

\* Only a request that worked on an older list forgets a rejection.
THEOREM RejectionsSurvive ==
    ASSUME RegenerationAssumption, SelectionAssumption PROVE Spec => RejectionsKept
  <1>1. IInv /\ [Next]_vars => [KeepsRejections]_selectionVars
    BY RejectionsStep
  <1> QED BY <1>1, Invariance, PTL DEF Spec, RejectionsKept, KeepsRejections

\* The retry count is exact without overlap and never too high with it.
THEOREM RetriesAreCounted ==
    ASSUME RegenerationAssumption, SelectionAssumption PROVE Spec => []RetriesCounted
  <1>1. Init => Counted
    BY InitCounted
  <1>2. IInv /\ Counted /\ [Next]_vars => Counted'
    BY CountedStep
  <1>3. Counted => RetriesCounted
    BY DEF Counted, Published, RetriesCounted
  <1> QED BY <1>1, <1>2, <1>3, Invariance, PTL DEF Spec

-----------------------------------------------------------------------------
(* An attempt comes to its end: no step of it repeats an earlier one.       *)

StagesLeft == [VIDEO_GENERATING |-> 6, VIDEO_READY |-> 5, LIPSYNC_PENDING |-> 4,
               LIPSYNC_READY |-> 3, CONTINUITY_PENDING |-> 2, CONTINUITY_READY |-> 1,
               QA_PENDING |-> 0]

LabelsLeft == [preparing |-> 22, prepared |-> 21, generating |-> 20, generated |-> 19,
               stage |-> 6, checked |-> 5, extracting |-> 4, publishing |-> 3,
               completing |-> 2, ending |-> 1, idle |-> 0, dead |-> 0]

\* A bound on the steps the attempt has before it.
RunLeft(r) == LabelsLeft[pc[r]]
              + (IF pc[r] \in {"stage", "checked"} THEN 2 * StagesLeft[stage[r]] ELSE 0)

RunEnds(r) ==
    /\ RunLeft(r) \in 0 .. 22
    /\ Proceed(r) \/ Crash(r) => RunLeft(r)' < RunLeft(r)
    /\ ~Proceed(r) /\ ~Crash(r) /\ ~Claim(r) => RunLeft(r)' = RunLeft(r)

LEMMA StagesDescend ==
    ASSUME NEW st \in DOMAIN StagesLeft
    PROVE  /\ StagesLeft[st] \in 0 .. 6
           /\ st # "QA_PENDING" =>
                  StagesLeft[StageAfter(LipSync)[st]] \in 0 .. StagesLeft[st] - 1
  BY DEF StagesLeft, StageAfter

LEMMA RunLeftBounded ==
    ASSUME IInv, NEW r \in Runs
    PROVE  stage[r] \in DOMAIN StagesLeft /\ RunLeft(r) \in 0 .. 22
  <1>1. stage[r] \in DOMAIN StagesLeft /\ pc[r] \in PCs
    BY DEF IInv, TypeOK, StagesLeft, StageAfter
  <1>2. StagesLeft[stage[r]] \in 0 .. 6
    BY <1>1, StagesDescend
  <1> QED BY <1>1, <1>2 DEF RunLeft, LabelsLeft, PCs

LEMMA RunDescends ==
    ASSUME IInv, NEW r \in Runs, Proceed(r) \/ Crash(r)
    PROVE  RunLeft(r)' < RunLeft(r)
  <1> USE DEF Goto
  <1>1. /\ pc[r] \in PCs /\ RunLeft(r) \in 0 .. 22 /\ DOMAIN pc = Runs /\ DOMAIN stage = Runs
        /\ stage[r] \in DOMAIN StagesLeft /\ StagesLeft[stage[r]] \in 0 .. 6
    BY RunLeftBounded, StagesDescend DEF IInv, TypeOK
  <1>2. CASE /\ pc'[r] \notin {"stage", "checked"}
             /\ LabelsLeft[pc'[r]] \in Nat /\ LabelsLeft[pc[r]] \in Nat
             /\ LabelsLeft[pc'[r]] < LabelsLeft[pc[r]]
    BY <1>1, <1>2 DEF RunLeft
  <1>3. CASE CheckInputs(r) \/ Begin(r) \/ Generate(r) \/ CheckQuality(r) \/ CheckCandidate(r)
             \/ Publish(r) \/ MarkSucceeded(r) \/ MarkEnded(r)
    BY <1>1, <1>2, <1>3 DEF CheckInputs, Begin, Generate, CheckQuality, CheckCandidate, Publish,
       MarkSucceeded, MarkEnded, LabelsLeft
  <1>4. CASE Raise(r) \/ Crash(r)
    <2>1. \/ pc'[r] = "ending" /\ pc[r] \in PCs \ {"idle", "dead", "ending"}
          \/ pc'[r] = "dead" /\ pc[r] \in PCs \ {"idle", "dead"}
      BY <1>1, <1>4 DEF Raise, Crash, InFlight
    <2> QED BY <1>1, <1>2, <2>1 DEF LabelsLeft, PCs
  <1>5. CASE CheckGenerated(r)
    <2>1. pc[r] = "generated" /\ pc'[r] = "checked" /\ UNCHANGED stage
      BY <1>1, <1>5 DEF CheckGenerated
    <2> QED BY <1>1, <2>1 DEF RunLeft, LabelsLeft
  <1>6. CASE CheckStage(r)
    <2>1. pc[r] = "stage" /\ pc'[r] = "checked" /\ UNCHANGED stage
      BY <1>1, <1>6 DEF CheckStage
    <2> QED BY <1>1, <2>1 DEF RunLeft, LabelsLeft
  <1>7. CASE CommitStage(r)
    <2> DEFINE to == StageAfter(LipSync)[stage[r]]
    <2>1. pc[r] \in {"stage", "checked"} /\ pc'[r] = "stage" /\ stage'[r] = to
      BY <1>1, <1>7 DEF CommitStage
    <2>2. stage[r] # "QA_PENDING"
      BY <1>7 DEF CommitStage, IInv, LocalInv, Local, Working
    <2>3. StagesLeft[to] \in 0 .. StagesLeft[stage[r]] - 1
      BY <1>1, <2>2, StagesDescend
    <2> HIDE DEF to
    <2> QED BY <1>1, <2>1, <2>3 DEF RunLeft, LabelsLeft
  <1> QED BY <1>3, <1>4, <1>5, <1>6, <1>7 DEF Proceed

\* A claimed regeneration makes at most 22 steps, however it ends and whoever
\* works on the shot meanwhile (run has no loop).
THEOREM EveryRunEnds ==
    ASSUME RegenerationAssumption, SelectionAssumption
    PROVE  Spec => [][\A r \in Runs : RunEnds(r)]_vars
  <1>1. ASSUME IInv, [Next]_vars, NEW r \in Runs PROVE RunEnds(r)
    <2>1. RunLeft(r) \in 0 .. 22
      BY <1>1, RunLeftBounded
    <2>2. Proceed(r) \/ Crash(r) => RunLeft(r)' < RunLeft(r)
      BY <1>1, RunDescends
    <2>3. ASSUME ~Proceed(r), ~Crash(r), ~Claim(r) PROVE UNCHANGED <<pc[r], stage[r]>>
      <3>1. CASE Enqueue(r) \/ RequestCancellation(r) \/ RetryJob(r)
        BY <3>1 DEF Enqueue, RequestCancellation, RetryJob, runVars
      <3>2. CASE \E q \in Runs \ {r} : RunStep(q)
        BY <1>1, <3>2, Frame DEF IInv
      <3>3. CASE ~ \E q \in Runs : RunStep(q)
        BY <1>1, <3>3, StepKinds, OthersFrame DEF runVars
      <3> QED BY <2>3, <3>1, <3>2, <3>3 DEF RunStep
    <2> QED BY <2>1, <2>2, <2>3 DEF RunEnds, RunLeft
  <1>2. IInv /\ [Next]_vars => [\A r \in Runs : RunEnds(r)]_vars
    BY <1>1
  <1> QED BY <1>2, Invariance, PTL DEF Spec
=============================================================================
