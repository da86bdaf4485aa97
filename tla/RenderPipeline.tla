--------------------------- MODULE RenderPipeline ---------------------------
(***************************************************************************)
(* MockPipeline.run and the requests that race it: what a render job       *)
(* commits to the shots, candidates and renders tables.  A run is one      *)
(* render job of one project; several jobs of the project may execute at   *)
(* the same time, in different worker processes, over the same shots.  Of  *)
(* the queue only the life of a job record is kept, by its abstract        *)
(* specification JobLifecycle, which JobQueue implements.                  *)
(*                                                                         *)
(* A run works on its session's copy of the shot rows, loaded when it      *)
(* starts and not refreshed by a commit (expire_on_commit is False); a     *)
(* commit writes the copy's status over whatever the row holds.  Generated *)
(* media is abstracted to the identity of the candidate it ends up in.     *)
(***************************************************************************)
EXTENDS ShotStates, Naturals, FiniteSets

CONSTANTS Runs,       \* render jobs of the project
          NumShots,   \* its shots, in scene and sequence order
          Dialogue,   \* shots with dialogue
          LipSync,    \* shots decide_lip_sync applies to
          Connected,  \* shots whose continuity source is the shot before them
          Editable,   \* shots somebody approves (again) during the renders
          Mortal,     \* runs whose worker process may be killed, or whose except block
                      \* may fail in its turn
          Recovering, \* runs whose image provider recovers from memory exhaustion
                      \* (the fixtures of the tests do, the mock provider does not)
          MaxRetries, \* Settings.max_job_retries
          NoCandidate

Shots == 1 .. NumShots
Candidates == Runs \X (1 .. MaxRetries + 1)  \* a run's n-th attempt makes one per shot

ASSUME RenderPipelineAssumption ==
    /\ NumShots \in Nat
    /\ Dialogue \subseteq Shots
    /\ LipSync \subseteq Dialogue
    /\ Connected \subseteq Shots \ {1}
    /\ MaxRetries \in Nat
    /\ NoCandidate \notin Candidates

VARIABLES job,      \* job[r], attempt[r]: state and attempt_number of the jobs row
          attempt,
          status,   \* status[s]: shots.status, committed
          chosen,   \* chosen[s]: shots.selected_candidate_id; its last frame is the
                    \* shot's actual_end_frame_id
          selected, \* selected[s]: candidates of s with disposition "selected"
          renders,  \* committed Render rows; the project is complete once there is one
          unmarked, \* shots an except block failed to mark as failed (history)
          pc,       \* pc[r]: where the run stands
          at,       \* at[r]: the shot the loop stands at, NumShots + 1 after the loop
          copy,     \* copy[r][s]: shot.status in the run's session
          ending,   \* ending[r][s]: shot.actual_end_frame_id in the run's session
          input,    \* input[r][s]: the clip whose last frame the run's clip of s starts
                    \* from, NoCandidate for a generated opening frame
          late      \* late[r]: commits of shot or render rows since the cancellation
                    \* request of this attempt (history)

dbVars  == <<status, chosen, selected, renders, unmarked>>
runVars == <<pc, at, copy, ending, input, late>>
vars    == <<job, attempt, dbVars, runVars>>

\* No two requests retry a job at once here.
Life == INSTANCE JobLifecycle WITH
            Jobs <- Runs, state <- job, overwritten <- [r \in Runs |-> FALSE]

\* The shots as apply_story_plan left them or somebody approved them.
Init ==
    /\ Life!Init
    /\ status \in [Shots -> {"AWAITING_APPROVAL", "APPROVED"}]
    /\ chosen = [s \in Shots |-> NoCandidate]
    /\ selected = [s \in Shots |-> {}]
    /\ renders = {}
    /\ unmarked = {}
    /\ pc = [r \in Runs |-> "idle"]
    /\ at = [r \in Runs |-> 1]
    /\ copy = [r \in Runs |-> status]
    /\ ending = [r \in Runs |-> chosen]
    /\ input = [r \in Runs |-> chosen]
    /\ late = [r \in Runs |-> 0]

-----------------------------------------------------------------------------
(* HTTP requests *)

\* enqueue_render: 409 unless every shot is renderable.
Enqueue(r) ==
    /\ Shots # {}
    /\ \A s \in Shots : status[s] \in Renderable
    /\ Life!Submit(r)
    /\ UNCHANGED <<dbVars, runVars>>

RequestCancellation(r) ==
    /\ Life!CancelQueued(r) \/ Life!RequestCancel(r)
    /\ UNCHANGED <<dbVars, runVars>>

\* retry looks at the job row only, never at the shots.
RetryJob(r) ==
    /\ Life!Retry(r)
    /\ UNCHANGED <<dbVars, runVars>>

\* approve_shot: whatever the shot's status.
Approve(s) ==
    /\ s \in Editable
    /\ status' = [status EXCEPT ![s] = "APPROVED"]
    /\ UNCHANGED <<job, attempt, chosen, selected, renders, unmarked, runVars>>

-----------------------------------------------------------------------------
(* The run *)

\* Labels inside and outside run's try block.
InTry == {"stage", "checked"}
OutsideTry == {"shot", "planning", "fallback", "selecting", "assembling", "publishing", "completing"}

\* The persisted request every check of the run reads.
Cancelled(r) == job[r] = "cancel_requested"
Goto(r, label) == pc' = [pc EXCEPT ![r] = label]

\* Another commit of this attempt, counted once its cancellation was requested.
CountLate(r) == late' = [late EXCEPT ![r] = IF Cancelled(r) THEN @ + 1 ELSE @]

\* The attempt's candidate, for each shot.
Mine(r) == <<r, attempt[r]>>

\* claim_next, then the run loads the project's shots into a new session.
Claim(r) ==
    /\ Life!Start(r)
    /\ pc[r] = "idle"
    /\ Goto(r, "shot")
    /\ at' = [at EXCEPT ![r] = 1]
    /\ copy' = [copy EXCEPT ![r] = status]
    /\ ending' = [ending EXCEPT ![r] = chosen]
    /\ input' = [input EXCEPT ![r] = [s \in Shots |-> NoCandidate]]
    /\ late' = [late EXCEPT ![r] = 0]
    /\ UNCHANGED dbVars

\* The pending status a render puts the shot into, by the status it finds.
FirstStatus(s, from) ==
    IF from \in Rendered THEN "VIDEO_PENDING"
    ELSE IF s \in Dialogue THEN "AUDIO_PENDING" ELSE "KEYFRAMES_PENDING"

\* The statuses from which a render may start on shot s.
Startable(s) == {from \in ShotStatus : FirstStatus(s, from) \in TRANSITIONS[from]}

\* Faulty variant: the source frame is read from the row another run may have written.
InputOf_Committed(r, s) == IF s \in Connected THEN chosen[s - 1] ELSE NoCandidate

\* A connected shot starts from the actual end frame of the shot before it.
InputOf(r, s) == IF s \in Connected THEN ending[r][s - 1] ELSE NoCandidate

\* The loop's head for one shot: check, directory, first transition.
StartShot(r) ==
    /\ pc[r] = "shot" /\ at[r] \in Shots
    /\ ~Cancelled(r)
    /\ LET s == at[r] IN
       \/ /\ copy[r][s] \in Startable(s)
          /\ copy' = [copy EXCEPT ![r][s] = FirstStatus(s, copy[r][s])]
          /\ input' = [input EXCEPT ![r][s] = InputOf(r, s)]
          /\ Goto(r, "planning")
       \/ /\ copy[r][s] \notin Startable(s)   \* Invalid shot state transition
          /\ Goto(r, "ending")
          /\ UNCHANGED <<copy, input>>
    /\ UNCHANGED <<job, attempt, dbVars, at, ending, late>>

\* An image provider ran out of memory: persisting the fallback commits the
\* session, and with it the shot's pending status.
PersistFallback(r) ==
    /\ r \in Recovering
    /\ pc[r] = "planning"
    /\ status' = [status EXCEPT ![at[r]] = copy[r][at[r]]]
    /\ CountLate(r)
    /\ Goto(r, "fallback")
    /\ UNCHANGED <<job, attempt, chosen, selected, renders, unmarked, at, copy, ending, input>>

\* The next profile is tried after another check.
TryFallback(r) ==
    /\ pc[r] = "fallback"
    /\ ~Cancelled(r)
    /\ Goto(r, "planning")
    /\ UNCHANGED <<job, attempt, dbVars, at, copy, ending, input, late>>

\* The shot's status becomes to, in the session and, by the commit, in its row.
Commit(r, to) ==
    /\ copy' = [copy EXCEPT ![r][at[r]] = to]
    /\ status' = [status EXCEPT ![at[r]] = to]
    /\ CountLate(r)

\* Frames and dialogue exist: the transitions up to VIDEO_GENERATING, one commit.
BeginVideo(r) ==
    /\ pc[r] = "planning"
    /\ Commit(r, "VIDEO_GENERATING")
    /\ Goto(r, "stage")
    /\ UNCHANGED <<job, attempt, chosen, selected, renders, unmarked, at, ending, input>>

\* The status after each stage of shot s, inside the try block.
NextStatus(s) == StageAfter(s \in LipSync)

\* Faulty variant: the check after the lip-sync and interpolation providers is gone.
CheckStage_VideoOnly(r) ==
    /\ pc[r] = "stage"
    /\ copy[r][at[r]] \in Working
    /\ copy[r][at[r]] = "VIDEO_GENERATING" => ~Cancelled(r)
    /\ Goto(r, "checked")
    /\ UNCHANGED <<job, attempt, dbVars, at, copy, ending, input, late>>

\* _check_cancelled around the stage's work; when it raises, see Raise.
CheckStage(r) ==
    /\ pc[r] = "stage"
    /\ copy[r][at[r]] \in Working
    /\ ~Cancelled(r)
    /\ Goto(r, "checked")
    /\ UNCHANGED <<job, attempt, dbVars, at, copy, ending, input, late>>

\* The stage's result is committed, or the next stage begins without a check.
CommitStage(r) ==
    /\ pc[r] \in InTry
    /\ LET st == copy[r][at[r]] IN
       /\ pc[r] = IF st \in Working THEN "checked" ELSE "stage"
       /\ st # "QA_PENDING"
       /\ Commit(r, NextStatus(at[r])[st])
    /\ Goto(r, "stage")
    /\ UNCHANGED <<job, attempt, chosen, selected, renders, unmarked, at, ending, input>>

\* The boundary frames are extracted and the try block is left.
LeaveTry(r) ==
    /\ pc[r] = "checked"
    /\ copy[r][at[r]] = "QA_PENDING"
    /\ Goto(r, "selecting")
    /\ UNCHANGED <<job, attempt, dbVars, at, copy, ending, input, late>>

\* Faulty variant: supersedes the candidate the session knows, not the committed ones.
Superseding_Stale(r, s) == selected[s] \ {ending[r][s]}

\* Dispositions after the loop over shot.candidates: all of them were read in
\* the transaction that now writes them.
Superseding(r, s) == {}

\* The candidate becomes the shot's selection; QA decides the final status.
SelectClip(r) ==
    /\ pc[r] = "selecting"
    /\ LET s == at[r] IN
       /\ \E verdict \in Rendered : Commit(r, verdict)
       /\ selected' = [selected EXCEPT ![s] = Superseding(r, s) \cup {Mine(r)}]
       /\ chosen' = [chosen EXCEPT ![s] = Mine(r)]
       /\ ending' = [ending EXCEPT ![r][s] = Mine(r)]
    /\ at' = [at EXCEPT ![r] = @ + 1]
    /\ Goto(r, "shot")
    /\ UNCHANGED <<job, attempt, renders, unmarked, input>>

\* After the loop: the check, then assembly of the clips.
Assemble(r) ==
    /\ pc[r] = "shot" /\ at[r] = NumShots + 1
    /\ ~Cancelled(r)
    /\ Goto(r, "assembling")
    /\ UNCHANGED <<job, attempt, dbVars, at, copy, ending, input, late>>

\* The check after the media work of the assembly.
CheckAssembly(r) ==
    /\ pc[r] = "assembling"
    /\ ~Cancelled(r)
    /\ Goto(r, "publishing")
    /\ UNCHANGED <<job, attempt, dbVars, at, copy, ending, input, late>>

\* Faulty variant: the Render is added to the session but never committed.
Publish_Uncommitted(r) ==
    /\ pc[r] = "publishing"
    /\ CountLate(r)
    /\ Goto(r, "completing")
    /\ UNCHANGED <<job, attempt, dbVars, at, copy, ending, input>>

\* The Render row and the complete project, one commit.
Publish(r) ==
    /\ pc[r] = "publishing"
    /\ renders' = renders \cup {[clip |-> Mine(r), input |-> input[r]]}
    /\ CountLate(r)
    /\ Goto(r, "completing")
    /\ UNCHANGED <<job, attempt, status, chosen, selected, unmarked, at, copy, ending, input>>

\* mark_succeeded; a cancellation requested meanwhile wins.
MarkSucceeded(r) ==
    /\ pc[r] = "completing"
    /\ IF Cancelled(r) THEN Life!Cancel(r) ELSE Life!Succeed(r)
    /\ Goto(r, "idle")
    /\ UNCHANGED <<dbVars, at, copy, ending, input, late>>

\* Faulty variant: the continuity stage is missing from the except block.
Interrupted_NoContinuity(s) == status[s] \in Working \ {"CONTINUITY_PENDING"}

\* The except block re-reads the shot after the rollback: what it looks for.
Interrupted(s) == status[s] \in Working

\* A check, a provider, ffmpeg, the disk or the database raises.  A check also
\* does when the worker is shutting down.
Raise(r) ==
    /\ \/ pc[r] \in InTry /\ Interrupted(at[r]) /\ Goto(r, "marking")
       \/ pc[r] \in InTry /\ ~Interrupted(at[r]) /\ Goto(r, "ending")
       \/ pc[r] \in OutsideTry /\ Goto(r, "ending")
    /\ UNCHANGED <<job, attempt, dbVars, at, copy, ending, input, late>>

\* Faulty variant: a status that does not exist.
MarkFailedShot_Unknown(r) ==
    /\ pc[r] = "marking"
    /\ status' = [status EXCEPT ![at[r]] = "ERROR"]
    /\ Goto(r, "ending")
    /\ UNCHANGED <<job, attempt, chosen, selected, renders, unmarked, at, copy, ending, input, late>>

\* The rest of the except block: it writes over whatever the row says by now.
MarkFailedShot(r) ==
    /\ pc[r] = "marking"
    /\ status' = [status EXCEPT ![at[r]] = "FAILED"]
    /\ Goto(r, "ending")
    /\ UNCHANGED <<job, attempt, chosen, selected, renders, unmarked, at, copy, ending, input, late>>

\* That commit raises in its turn (a locked database).
HandlerRaises(r) ==
    /\ r \in Mortal
    /\ pc[r] = "marking"
    /\ unmarked' = unmarked \cup {at[r]}
    /\ Goto(r, "ending")
    /\ UNCHANGED <<job, attempt, status, chosen, selected, renders, at, copy, ending, input, late>>

\* Faulty variant: mark_failed's answer that a cancellation won is ignored.
MarkEnded_DropsCancel(r) ==
    /\ pc[r] = "ending"
    /\ Life!Fail(r) \/ (Cancelled(r) /\ UNCHANGED <<job, attempt>>)
    /\ Goto(r, "idle")
    /\ UNCHANGED <<dbVars, at, copy, ending, input, late>>

\* mark_failed, which yields to a requested cancellation, or mark_cancelled:
\* for a request, or because the worker shuts down.
MarkEnded(r) ==
    /\ pc[r] = "ending"
    /\ Life!Cancel(r) \/ Life!Fail(r)
    /\ Goto(r, "idle")
    /\ UNCHANGED <<dbVars, at, copy, ending, input, late>>

\* The process is killed; nobody recovers its job.
Crash(r) ==
    /\ r \in Mortal
    /\ pc[r] \in InTry \cup OutsideTry \cup {"marking", "ending"}
    /\ Goto(r, "dead")
    /\ UNCHANGED <<job, attempt, dbVars, at, copy, ending, input, late>>

-----------------------------------------------------------------------------

Request == \/ \E r \in Runs : Enqueue(r) \/ RequestCancellation(r) \/ RetryJob(r)
           \/ \E s \in Shots : Approve(s)

\* What the process does by itself; memory fallbacks are as many as profiles.
Proceed(r) == \/ StartShot(r) \/ TryFallback(r) \/ BeginVideo(r)
              \/ CheckStage(r) \/ CommitStage(r) \/ LeaveTry(r)
              \/ SelectClip(r) \/ Assemble(r) \/ CheckAssembly(r) \/ Publish(r)
              \/ MarkSucceeded(r) \/ Raise(r) \/ MarkFailedShot(r) \/ HandlerRaises(r)
              \/ MarkEnded(r)

Next == \/ Request
        \/ \E r \in Runs : Claim(r) \/ Proceed(r) \/ PersistFallback(r) \/ Crash(r)

Spec == Init /\ [][Next]_vars

FairSpec == Spec /\ \A r \in Runs : WF_vars(Proceed(r))

-----------------------------------------------------------------------------
(* Properties *)

PCs == InTry \cup OutsideTry \cup {"idle", "marking", "ending", "dead"}
JobStates == Life!Settled \cup {"absent", "queued", "running", "cancel_requested"}

\* Types of all the variables (columns and locals of run).
TypeOK ==
    /\ job \in [Runs -> JobStates]
    /\ attempt \in [Runs -> 0 .. MaxRetries + 1]
    /\ status \in [Shots -> ShotStatus]
    /\ chosen \in [Shots -> Candidates \cup {NoCandidate}]
    /\ selected \in [Shots -> SUBSET Candidates]
    /\ renders \subseteq [clip : Candidates, input : [Shots -> Candidates \cup {NoCandidate}]]
    /\ unmarked \subseteq Shots
    /\ pc \in [Runs -> PCs]
    /\ at \in [Runs -> 1 .. NumShots + 1]
    /\ copy \in [Runs -> [Shots -> ShotStatus]]
    /\ ending \in [Runs -> [Shots -> Candidates \cup {NoCandidate}]]
    /\ input \in [Runs -> [Shots -> Candidates \cup {NoCandidate}]]
    /\ late \in [Runs -> Nat]

InProgress == Working \ {"QA_PENDING"}

\* A shot is marked as being generated, lip-synced or made continuous only
\* while some run (or the remains of a killed one) is at that stage of it: a
\* run that is cancelled, fails or finishes leaves no such mark behind, also
\* when another run writes the same shot, unless the handler that should remove
\* it failed as well (except block of run).
InProgressOwned ==
    \A s \in Shots \ unmarked : status[s] \in InProgress =>
        \E r \in Runs : /\ at[r] = s
                        /\ pc[r] \in InTry \cup {"marking", "dead"}
                        /\ copy[r][s] = status[s]

\* However many runs render a shot, at most one of its candidates is selected,
\* and it is the one the shot names (the loop over shot.candidates in run).
SingleSelection ==
    \A s \in Shots : selected[s] = {chosen[s]} \ {NoCandidate}

\* In every published render a connected shot starts from the last frame of
\* the very clip assembled before it, whatever other runs selected meanwhile
\* (continuity_source_shot_id in run).
ContinuousRenders ==
    \A render \in renders : \A s \in Connected : render.input[s] = render.clip

\* Once a cancellation was requested, the attempt commits at most the result
\* of the work in hand and the begin of the next stage: every long stage has
\* its check (_check_cancelled in run and in apply_mock_postprocessing).
PromptCancellation == \A r \in Runs : late[r] <= 2

\* The output of a succeeded job is a published render of its last attempt
\* (the commit of run before mark_succeeded).
SucceededPublished ==
    \A r \in Runs : job[r] = "succeeded" => \E render \in renders : render.clip = Mine(r)

\* A requested cancellation ends in a cancelled job, unless the process dies
\* (_process_claimed_job around run).
CancellationEnds ==
    \A r \in Runs : Cancelled(r) ~> (job[r] = "cancelled" \/ pc[r] = "dead")

\* docs/architecture.md: retryable shot state is committed before long media
\* work.  So when an attempt failed or was cancelled, a retry of the job can
\* start every shot again (TRANSITIONS from the status the attempt left).
RetryableAfterEnd ==
    \A r \in Runs : (job[r] \in {"failed", "cancelled"} /\ attempt[r] > 0)
                        => \A s \in Shots : status[s] \in Startable(s)
=============================================================================
