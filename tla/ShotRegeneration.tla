-------------------------- MODULE ShotRegeneration --------------------------
(***************************************************************************)
(* MockShotRegenerator.run: isolated regenerations of one shot, racing     *)
(* each other, project renders of the same shot and the requests that      *)
(* approve it or select among its candidates (CandidateSelection).  A run  *)
(* is one regeneration job; of the queue only the life of a job record is  *)
(* kept (JobLifecycle).  Of a project render only what it does to this     *)
(* shot is kept; its steps are those of RenderPipeline.                    *)
(*                                                                         *)
(* A run reads the shot once, when it starts, and derives from that copy   *)
(* whether it tracks the shot's status, the status it puts back and the    *)
(* retry count it writes.                                                  *)
(***************************************************************************)
EXTENDS CandidateSelection, ShotStates, Naturals, FiniteSets

CONSTANTS Runs,       \* regeneration jobs of the shot
          Clips,      \* candidates made by project renders, one each
          LipSync,    \* whether decide_lip_sync applies to the shot
          MaxRetries  \* Settings.max_job_retries

\* A run's n-th attempt makes one candidate.
Regenerated == Runs \X (1 .. MaxRetries + 1)

\* What may have become of the worker that marked the shot as in work.
Endings == {"nobody", "run failed", "render failed", "handler failed", "killed"}

ASSUME RegenerationAssumption ==
    /\ MaxRetries \in Nat
    /\ LipSync \in BOOLEAN
    /\ Clips \cup Regenerated \subseteq Candidates
    /\ Clips \cap Regenerated = {}
    /\ Clips \cap Runs = {}
    /\ Endings \cap (Clips \cup Runs) = {}

VARIABLES job,        \* job[r], attempt[r]: state and attempt_number of the jobs row
          attempt,
          status,     \* the shots row: status and retry_count
          retries,
          pc,         \* pc[r]: where the run stands
          stage,      \* stage[r]: the stage of the media work it stands at
          loaded,     \* loaded[r]: status and retries in the run's session
          tracked,    \* tracked[r]: track_state
          late,       \* late[r]: commits since the cancellation request of this
                      \* attempt (history)
          overlapped, \* two runs were in flight at the same time (history)
          render,     \* render[k]: how far the project render making clip k is; in the
                      \* work on the shot, its stage
          author,     \* the run or render that marked the shot as in work, or how it
                      \* left the mark behind (history)
          overtaken,  \* the selection was made while a render had still to connect an
                      \* earlier one (history)
          verdict,    \* what the last quality check of the shot's work said (history)
          outdated,   \* runs in flight that loaded the shot before that check (history)
          reverted    \* such a run put back the status it had loaded (history)

verdictVars == <<verdict, outdated, reverted>>
shotVars    == <<status, retries, author, verdictVars>>
runVars     == <<pc, stage, loaded, tracked, late, overlapped>>
renderVars  == <<render, overtaken>>
vars        == <<job, attempt, shotVars, runVars, renderVars, selectionVars>>

\* No two requests retry a job at once here.
Life == INSTANCE JobLifecycle WITH
            Jobs <- Runs, state <- job, overwritten <- [r \in Runs |-> FALSE]

Unloaded == [status |-> "DRAFT", retries |-> 0]

Init ==
    /\ SelectionInit
    /\ Life!Init
    /\ status \in {"AWAITING_APPROVAL", "APPROVED"}
    /\ retries = 0
    /\ pc = [r \in Runs |-> "idle"]
    /\ stage = [r \in Runs |-> "VIDEO_GENERATING"]
    /\ loaded = [r \in Runs |-> Unloaded]
    /\ tracked = [r \in Runs |-> FALSE]
    /\ late = [r \in Runs |-> 0]
    /\ overlapped = FALSE
    /\ render = [k \in Clips |-> "queued"]
    /\ author = "nobody"
    /\ overtaken = FALSE
    /\ verdict = "none"
    /\ outdated = {}
    /\ reverted = FALSE

-----------------------------------------------------------------------------
(* HTTP requests *)

\* regenerate_shot does not look at the shot's status.
Enqueue(r) ==
    /\ Life!Submit(r)
    /\ UNCHANGED <<shotVars, runVars, renderVars, selectionVars>>

RequestCancellation(r) ==
    /\ Life!CancelQueued(r) \/ Life!RequestCancel(r)
    /\ UNCHANGED <<shotVars, runVars, renderVars, selectionVars>>

RetryJob(r) ==
    /\ Life!Retry(r)
    /\ UNCHANGED <<shotVars, runVars, renderVars, selectionVars>>

\* approve_shot: whatever the shot's status.
Approve ==
    /\ status' = "APPROVED"
    /\ author' = "nobody"
    /\ UNCHANGED <<job, attempt, retries, verdictVars, runVars, renderVars, selectionVars>>

\* Clips selected by a render that has not reached the connected shot.
Connecting == {k \in Clips : render[k] = "selected"}

Edit(c) ==
    /\ Select(c) \/ Reject(c)
    /\ overtaken' = IF At(c, "selecting") THEN Connecting # {} ELSE overtaken
    /\ UNCHANGED <<job, attempt, shotVars, runVars, render>>

-----------------------------------------------------------------------------
(* The regeneration *)

InFlight(r)  == pc[r] \notin {"idle", "dead"}
Cancelled(r) == job[r] = "cancel_requested"
Mine(r)      == <<r, attempt[r]>>
Goto(r, label) == pc' = [pc EXCEPT ![r] = label]

\* Another commit of this attempt, counted once its cancellation was requested.
CountLate(r) == late' = [late EXCEPT ![r] = IF Cancelled(r) THEN @ + 1 ELSE @]

\* A run or a render writes the status of the shot.
Writes(worker, st) ==
    /\ status' = st
    /\ author' = IF st \in Working THEN worker ELSE "nobody"

\* It leaves the shot as it is; the mark may be its own.
Leaves(worker, how) == author' = IF author = worker THEN how ELSE author

\* The session and the locals of an attempt are gone with it.
Forget(r) ==
    /\ stage' = [stage EXCEPT ![r] = "VIDEO_GENERATING"]
    /\ loaded' = [loaded EXCEPT ![r] = Unloaded]
    /\ tracked' = [tracked EXCEPT ![r] = FALSE]
    /\ late' = [late EXCEPT ![r] = 0]

\* claim_next, then the run loads the shot into a new session.
Claim(r) ==
    /\ Life!Start(r)
    /\ pc[r] = "idle"
    /\ Goto(r, "preparing")
    /\ loaded' = [loaded EXCEPT ![r] = [status |-> status, retries |-> retries]]
    /\ overlapped' = (overlapped \/ \E other \in Runs : InFlight(other))
    /\ outdated' = outdated \ {r}
    /\ UNCHANGED <<status, retries, author, verdict, reverted, stage, tracked, late, renderVars,
                   selectionVars>>

\* Frames and dialogue are prepared between checks.
CheckInputs(r) ==
    /\ pc[r] = "preparing"
    /\ ~Cancelled(r)
    /\ Goto(r, "prepared")
    /\ UNCHANGED <<job, attempt, shotVars, stage, loaded, tracked, late, overlapped, renderVars,
                   selectionVars>>

\* Statuses a regeneration may take the shot from; from any other it leaves the
\* status alone.
Trackable == {"COMPLETE", "QA_FAILED", "FAILED", "KEYFRAMES_READY", "VIDEO_PENDING"}

\* Faulty variant: the attempt is counted before it has a candidate.
Begin_Counts(r) ==
    /\ pc[r] = "prepared"
    /\ tracked' = [tracked EXCEPT ![r] = loaded[r].status \in Trackable]
    /\ IF loaded[r].status \in Trackable THEN Writes(r, "VIDEO_GENERATING")
                                         ELSE UNCHANGED <<status, author>>
    /\ retries' = loaded[r].retries + 1
    /\ CountLate(r)
    /\ Goto(r, "generating")
    /\ UNCHANGED <<job, attempt, verdictVars, stage, loaded, overlapped, renderVars,
                   selectionVars>>

\* _begin_regeneration_state and the commit after it.
Begin(r) ==
    /\ pc[r] = "prepared"
    /\ tracked' = [tracked EXCEPT ![r] = loaded[r].status \in Trackable]
    /\ IF loaded[r].status \in Trackable THEN Writes(r, "VIDEO_GENERATING")
                                         ELSE UNCHANGED <<status, author>>
    /\ CountLate(r)
    /\ Goto(r, "generating")
    /\ UNCHANGED <<job, attempt, verdictVars, retries, stage, loaded, overlapped, renderVars,
                   selectionVars>>

\* The provider's check and its call, under the first handler.
Generate(r) ==
    /\ pc[r] = "generating"
    /\ ~Cancelled(r)
    /\ Goto(r, "generated")
    /\ UNCHANGED <<job, attempt, shotVars, stage, loaded, tracked, late, overlapped, renderVars,
                   selectionVars>>

\* The check between the two handlers.
CheckGenerated(r) ==
    /\ pc[r] = "generated"
    /\ ~Cancelled(r)
    /\ Goto(r, "checked")
    /\ UNCHANGED <<job, attempt, shotVars, stage, loaded, tracked, late, overlapped, renderVars,
                   selectionVars>>

\* Faulty variant: the continuity stage does not check.
CheckStage_LipSyncOnly(r) ==
    /\ pc[r] = "stage"
    /\ stage[r] \in Working \ {"QA_PENDING"}
    /\ stage[r] = "LIPSYNC_PENDING" => ~Cancelled(r)
    /\ Goto(r, "checked")
    /\ UNCHANGED <<job, attempt, shotVars, stage, loaded, tracked, late, overlapped, renderVars,
                   selectionVars>>

\* The check around the work of a post-processing stage, under the second handler.
CheckStage(r) ==
    /\ pc[r] = "stage"
    /\ stage[r] \in Working \ {"QA_PENDING"}
    /\ ~Cancelled(r)
    /\ Goto(r, "checked")
    /\ UNCHANGED <<job, attempt, shotVars, stage, loaded, tracked, late, overlapped, renderVars,
                   selectionVars>>

\* The stage's result is committed, or the next stage begins without a check.
CommitStage(r) ==
    /\ \/ pc[r] = "checked"
       \/ pc[r] = "stage" /\ stage[r] \notin Working
    /\ LET to == StageAfter(LipSync)[stage[r]] IN
       /\ stage' = [stage EXCEPT ![r] = to]
       /\ IF tracked[r] THEN Writes(r, to) ELSE UNCHANGED <<status, author>>
       /\ IF tracked[r] \/ to # "QA_PENDING" THEN CountLate(r) ELSE UNCHANGED late
    /\ Goto(r, "stage")
    /\ UNCHANGED <<job, attempt, verdictVars, retries, loaded, tracked, overlapped, renderVars,
                   selectionVars>>

\* The check before the boundary frames are extracted.
CheckQuality(r) ==
    /\ pc[r] = "stage"
    /\ stage[r] = "QA_PENDING"
    /\ ~Cancelled(r)
    /\ Goto(r, "extracting")
    /\ UNCHANGED <<job, attempt, shotVars, stage, loaded, tracked, late, overlapped, renderVars,
                   selectionVars>>

\* The check before the candidate is committed.
CheckCandidate(r) ==
    /\ pc[r] = "extracting"
    /\ ~Cancelled(r)
    /\ Goto(r, "publishing")
    /\ UNCHANGED <<job, attempt, shotVars, stage, loaded, tracked, late, overlapped, renderVars,
                   selectionVars>>

\* The quality check of a work on the shot, of which the runs in flight other
\* than the worker know nothing, becomes its verdict.
Judged(worker, st) ==
    /\ verdict' = st
    /\ outdated' = {r \in Runs \ {worker} : InFlight(r)}
    /\ reverted' = FALSE

\* Faulty variant: the verdict of the QA, whatever the status was.
Finish_Judges(r) ==
    \E st \in Rendered :
        /\ Writes(r, st)
        /\ IF loaded[r].status \in Rendered
           THEN reverted' = (reverted \/ r \in outdated) /\ UNCHANGED <<verdict, outdated>>
           ELSE Judged(r, st)

\* A shot that was rendered when the run loaded it gets that status back, any
\* other the verdict of the QA.
Finish(r) ==
    IF loaded[r].status \in Rendered
    THEN /\ Writes(r, loaded[r].status)
         /\ reverted' = (reverted \/ r \in outdated)
         /\ UNCHANGED <<verdict, outdated>>
    ELSE \E st \in Rendered : Writes(r, st) /\ Judged(r, st)

\* The candidate, the retry count and the status, one commit.
Publish(r) ==
    /\ pc[r] = "publishing"
    /\ AddPending(Mine(r))
    /\ retries' = loaded[r].retries + 1
    /\ IF tracked[r] THEN Finish(r) ELSE UNCHANGED <<status, author, verdictVars>>
    /\ CountLate(r)
    /\ Goto(r, "completing")
    /\ UNCHANGED <<job, attempt, stage, loaded, tracked, overlapped, renderVars>>

\* mark_succeeded; a cancellation requested meanwhile wins.
MarkSucceeded(r) ==
    /\ pc[r] = "completing"
    /\ IF Cancelled(r) THEN Life!Cancel(r) ELSE Life!Succeed(r)
    /\ Goto(r, "idle")
    /\ Forget(r)
    /\ UNCHANGED <<shotVars, overlapped, renderVars, selectionVars>>

\* Inside one of the two try blocks.
Handled(r) ==
    \/ pc[r] = "generating"
    \/ pc[r] \in {"stage", "checked"} /\ stage[r] \notin {"CONTINUITY_READY", "QA_PENDING"}

\* Faulty variant: a status that does not exist.
MarkFailed_Unknown(worker) ==
    IF status \in Working THEN Writes(worker, "ERROR") ELSE UNCHANGED <<status, author>>

\* Faulty variant: the continuity stage is missing from the handler.
MarkFailed_NoContinuity(worker) ==
    IF status \in Working \ {"CONTINUITY_PENDING"}
    THEN Writes(worker, "FAILED") ELSE UNCHANGED <<status, author>>

\* _mark_regeneration_failed re-reads the shot after the rollback; so does the
\* handler of a render.  One step here, two in RenderPipeline: a write between
\* them is written over.
MarkFailed(worker) ==
    IF status \in Working THEN Writes(worker, "FAILED") ELSE UNCHANGED <<status, author>>

\* The commit of the handler raises in its turn (a locked database).
HandlerRaises(worker) == Leaves(worker, "handler failed") /\ UNCHANGED status

\* A check, a provider, ffmpeg, the disk or the database raises; a check also
\* does when the worker shuts down.
Raise(r) ==
    /\ pc[r] \notin {"idle", "ending", "dead"}
    /\ IF tracked[r] /\ Handled(r) THEN MarkFailed(r) \/ HandlerRaises(r)
       ELSE Leaves(r, "run failed") /\ UNCHANGED status
    /\ Goto(r, "ending")
    /\ Forget(r)
    /\ UNCHANGED <<job, attempt, verdictVars, retries, overlapped, renderVars, selectionVars>>

\* mark_failed, which yields to a requested cancellation, or mark_cancelled.
MarkEnded(r) ==
    /\ pc[r] = "ending"
    /\ Life!Cancel(r) \/ Life!Fail(r)
    /\ Goto(r, "idle")
    /\ UNCHANGED <<shotVars, stage, loaded, tracked, late, overlapped, renderVars, selectionVars>>

\* The worker is killed: what the attempt committed stays, and so does its job.
Crash(r) ==
    /\ InFlight(r)
    /\ Leaves(r, "killed")
    /\ Goto(r, "dead")
    /\ Forget(r)
    /\ UNCHANGED <<job, attempt, verdictVars, status, retries, overlapped, renderVars,
                   selectionVars>>

-----------------------------------------------------------------------------
(* A project render, as far as this shot sees it *)

RenderGoto(k, label) == render' = [render EXCEPT ![k] = label]

\* It loads the shot in a status it can start from.
RenderLoads(k) ==
    /\ render[k] = "queued"
    /\ status \in Renderable \cup {"FAILED"}
    /\ RenderGoto(k, "loaded")
    /\ UNCHANGED <<job, attempt, shotVars, runVars, overtaken, selectionVars>>

\* It commits the stages of its work over whatever the shot says by then.
RenderWorks(k) ==
    /\ render[k] \in {"loaded"} \cup DOMAIN StageAfter(LipSync)
    /\ LET to == IF render[k] = "loaded" THEN "VIDEO_GENERATING"
                                        ELSE StageAfter(LipSync)[render[k]] IN
       Writes(k, to) /\ RenderGoto(k, to)
    /\ UNCHANGED <<job, attempt, verdictVars, retries, runVars, overtaken, selectionVars>>

RenderSelects(k) ==
    /\ render[k] = "QA_PENDING"
    /\ \E st \in Rendered : Writes(k, st) /\ Judged(k, st)
    /\ SelectClip(k)
    /\ overtaken' = (Connecting # {})
    /\ RenderGoto(k, "selected")
    /\ UNCHANGED <<job, attempt, retries, runVars>>

RenderConnects(k) ==
    /\ render[k] = "selected"
    /\ ConnectClip(k)
    /\ RenderGoto(k, "connected")
    /\ UNCHANGED <<job, attempt, shotVars, runVars, overtaken>>

\* It fails or is cancelled in the try block around its stages, which ends with
\* the extraction of the boundary frames.
RenderRaises(k) ==
    /\ render[k] \in DOMAIN StageAfter(LipSync) \cup {"QA_PENDING"}
    /\ MarkFailed(k) \/ HandlerRaises(k)
    /\ RenderGoto(k, "ended")
    /\ UNCHANGED <<job, attempt, verdictVars, retries, runVars, overtaken, selectionVars>>

\* It fails or is cancelled before that block or after it; once it has selected
\* its clip, that means it never reaches the connected shot.
RenderFails(k) ==
    /\ render[k] \in {"loaded", "QA_PENDING", "selected"}
    /\ Leaves(k, "render failed")
    /\ RenderGoto(k, "ended")
    /\ UNCHANGED <<job, attempt, verdictVars, status, retries, runVars, overtaken, selectionVars>>

\* Its worker is killed.
RenderCrashes(k) ==
    /\ render[k] \notin {"queued", "connected", "ended"}
    /\ Leaves(k, "killed")
    /\ RenderGoto(k, "ended")
    /\ UNCHANGED <<job, attempt, verdictVars, status, retries, runVars, overtaken, selectionVars>>

-----------------------------------------------------------------------------

Request == \/ \E r \in Runs : Enqueue(r) \/ RequestCancellation(r) \/ RetryJob(r)
           \/ \E c \in Clients : Edit(c)
           \/ Approve

Proceed(r) == \/ CheckInputs(r) \/ Begin(r) \/ Generate(r) \/ CheckGenerated(r)
              \/ CheckStage(r) \/ CommitStage(r) \/ CheckQuality(r) \/ CheckCandidate(r)
              \/ Publish(r) \/ MarkSucceeded(r) \/ Raise(r) \/ MarkEnded(r)

Render(k) == \/ RenderLoads(k) \/ RenderWorks(k) \/ RenderSelects(k) \/ RenderConnects(k)
             \/ RenderRaises(k) \/ RenderFails(k) \/ RenderCrashes(k)

Next == \/ Request
        \/ \E r \in Runs : Claim(r) \/ Proceed(r) \/ Crash(r)
        \/ \E k \in Clips : Render(k)

Spec == Init /\ [][Next]_vars

-----------------------------------------------------------------------------
(* Properties *)

PCs == {"idle", "preparing", "prepared", "generating", "generated", "stage", "checked",
        "extracting", "publishing", "completing", "ending", "dead"}
RenderLabels == DOMAIN StageAfter(LipSync)
                \cup {"QA_PENDING", "queued", "loaded", "selected", "connected", "ended"}
JobStates == Life!Settled \cup {"absent", "queued", "running", "cancel_requested"}

\* Types of all the variables (columns and locals of run).
TypeOK ==
    /\ SelectionTypeOK
    /\ job \in [Runs -> JobStates]
    /\ attempt \in [Runs -> 0 .. MaxRetries + 1]
    /\ status \in ShotStatus
    /\ retries \in Nat
    /\ pc \in [Runs -> PCs]
    /\ stage \in [Runs -> DOMAIN StageAfter(LipSync) \cup {"QA_PENDING"}]
    /\ loaded \in [Runs -> [status : ShotStatus, retries : Nat]]
    /\ tracked \in [Runs -> BOOLEAN]
    /\ late \in [Runs -> Nat]
    /\ overlapped \in BOOLEAN
    /\ render \in [Clips -> RenderLabels]
    /\ author \in Runs \cup Clips \cup Endings
    /\ overtaken \in BOOLEAN
    /\ verdict \in Rendered \cup {"none"}
    /\ outdated \subseteq Runs
    /\ reverted \in BOOLEAN

\* The run is in the media work of the stage.
StandsAt(r, st) ==
    /\ tracked[r]
    /\ stage[r] = st
    /\ pc[r] \in {"generating", "generated", "stage", "checked", "extracting", "publishing"}

\* A shot that is marked as in work is at that stage of the work of whoever
\* marked it; or that worker was killed, or failed again when it handled a
\* failure; or it failed, or was cancelled, in one of the places no handler
\* covers: a regeneration after the video or after the post-processing, a render
\* after it extracted the frames (_mark_regeneration_failed in run; the handler
\* of the render).
MarksExplained ==
    status \in Working =>
        \/ \E r \in Runs : author = r /\ StandsAt(r, status)
        \/ \E k \in Clips : author = k /\ render[k] = status
        \/ author \in {"killed", "handler failed"}
        \/ author = "run failed" /\ status \in {"VIDEO_GENERATING", "QA_PENDING"}
        \/ author = "render failed" /\ status = "QA_PENDING"

\* When a candidate is selected and the render that made it has connected it,
\* or somebody promoted it, the connected shots start from its last frame,
\* unless the selection was written from outdated copies (docs/continuity.md:4).
SelectionConnected ==
    /\ ~stale
    /\ shot.chosen # NoCandidate
    /\ shot.chosen \in Clips => render[shot.chosen] = "connected"
    => source = shot.chosen

\* That is so unless the selection was made between the two commits of a render
\* that selected another candidate (select_candidate; the render's next shot).
ConnectedFollow == ~overtaken => SelectionConnected

\* retry_count, from which the next different seed is derived, never exceeds the
\* number of candidates the regenerations published; it is that number unless
\* two of them overlapped, when an increment may be lost.
RetriesCounted ==
    LET published == Cardinality(Present \cap Regenerated) IN
    /\ retries <= published
    /\ ~overlapped => retries = published

\* Once a cancellation was requested, the attempt commits at most the result
\* of the work in hand and the begin of the next stage (_check_cancelled).
PromptCancellation == \A r \in Runs : late[r] <= 2

\* The status of a rendered shot is the last verdict of a quality check of its
\* work, unless a regeneration put back an older one: an isolated regeneration
\* does not judge a shot anew that was judged before (terminal in run).
VerdictShown == status \in Rendered /\ ~reverted => status = verdict
=============================================================================
