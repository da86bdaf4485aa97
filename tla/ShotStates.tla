----------------------------- MODULE ShotStates -----------------------------
(***************************************************************************)
(* The statuses of a shot and the legal transitions between them: what     *)
(* project renders and isolated regenerations share.                       *)
(***************************************************************************)

TRANSITIONS ==
    [DRAFT |-> {"PLANNED", "CANCELLED"},
     PLANNED |-> {"AWAITING_APPROVAL", "APPROVED", "DRAFT"},
     AWAITING_APPROVAL |-> {"APPROVED", "DRAFT"},
     APPROVED |-> {"AUDIO_PENDING", "KEYFRAMES_PENDING"},
     AUDIO_PENDING |-> {"AUDIO_READY", "FAILED"},
     AUDIO_READY |-> {"KEYFRAMES_PENDING"},
     KEYFRAMES_PENDING |-> {"KEYFRAMES_READY", "FAILED"},
     KEYFRAMES_READY |-> {"VIDEO_PENDING"},
     VIDEO_PENDING |-> {"VIDEO_GENERATING", "FAILED"},
     VIDEO_GENERATING |-> {"VIDEO_READY", "FAILED"},
     VIDEO_READY |-> {"LIPSYNC_PENDING", "CONTINUITY_PENDING", "QA_PENDING"},
     LIPSYNC_PENDING |-> {"LIPSYNC_READY", "FAILED"},
     LIPSYNC_READY |-> {"CONTINUITY_PENDING", "QA_PENDING"},
     CONTINUITY_PENDING |-> {"CONTINUITY_READY", "FAILED"},
     CONTINUITY_READY |-> {"QA_PENDING"},
     QA_PENDING |-> {"COMPLETE", "QA_FAILED", "FAILED"},
     QA_FAILED |-> {"VIDEO_PENDING", "COMPLETE"},
     FAILED |-> {"AUDIO_PENDING", "KEYFRAMES_PENDING", "VIDEO_PENDING"},
     COMPLETE |-> {"VIDEO_PENDING"},
     CANCELLED |-> {"PLANNED"}]

ShotStatus == DOMAIN TRANSITIONS
Rendered   == {"COMPLETE", "QA_FAILED"}
Renderable == {"APPROVED"} \cup Rendered   \* enqueue_render's renderable_states

\* Statuses under which media work runs: each stage's work ends in a check of
\* the cancellation, and the handlers around the stages mark them FAILED.
Working == {"VIDEO_GENERATING", "LIPSYNC_PENDING", "CONTINUITY_PENDING", "QA_PENDING"}

\* The status after each stage of the work on a shot, with or without lip-sync.
StageAfter(lipSync) ==
    [VIDEO_GENERATING   |-> "VIDEO_READY",
     VIDEO_READY        |-> IF lipSync THEN "LIPSYNC_PENDING" ELSE "CONTINUITY_PENDING",
     LIPSYNC_PENDING    |-> "LIPSYNC_READY",
     LIPSYNC_READY      |-> "CONTINUITY_PENDING",
     CONTINUITY_PENDING |-> "CONTINUITY_READY",
     CONTINUITY_READY   |-> "QA_PENDING"]
=============================================================================
