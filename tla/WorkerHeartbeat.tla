--------------------------- MODULE WorkerHeartbeat ---------------------------
(***************************************************************************)
(* The status row of one logical worker and the processes that publish     *)
(* into it: register_worker, WorkerHeartbeatReporter with its thread, and  *)
(* the calls loop and process_next make on it.  Every process is one boot  *)
(* generation; a later registration supersedes the earlier ones.  Main     *)
(* thread and heartbeat thread share the status to publish (under a lock), *)
(* the wake event and the stop event, and interleave between any two of    *)
(* these accesses.  A status stands for the columns state, current_job_id  *)
(* and stopped_at, which are always written together.                      *)
(***************************************************************************)
EXTENDS Naturals

CONSTANTS Procs,      \* worker processes of the one worker id
          MaxErrors,  \* bound: how many heartbeat writes may raise
          NoProc

ASSUME HeartbeatAssumption ==
    MaxErrors \in Nat /\ NoProc \notin Procs

VARIABLES row,      \* the workers row: its generation and status
          main,     \* main[p]: where the main thread stands
          beat,     \* beat[p]: where the heartbeat thread stands
          shared,   \* shared[p]: _state and _current_job_id
          wake,     \* wake[p]: the _wake event
          stopping, \* stopping[p]: the _stop_requested event
          lost,     \* lost[p]: the _generation_lost event
          failed,   \* failed[p]: _last_error is not None
          seen,     \* seen[p]: the status the heartbeat thread read
          last,     \* last[p]: the stop flag it read afterwards
          errors    \* heartbeat writes that raised so far

sharedVars == <<shared, wake, stopping>>
beatVars   == <<beat, lost, failed, seen, last, errors>>
vars == <<row, main, beat, shared, wake, stopping, lost, failed, seen, last, errors>>

Statuses == {"starting", "idle", "busy", "stopped"}
MainPCs  == {"off", "inserting", "verifying", "announcing", "top", "claiming", "claimed",
             "executing", "leaving", "flagging", "waking", "joining", "stopped", "timedout",
             "exited", "crashed"}
BeatPCs  == {"none", "waiting", "cleared", "read", "writing", "done", "killed"}

Dead == {"off", "stopped", "exited", "crashed"}

Init ==
    /\ row = [owner |-> NoProc, status |-> "stopped"]
    /\ main = [p \in Procs |-> "off"]
    /\ beat = [p \in Procs |-> "none"]
    /\ shared = [p \in Procs |-> "starting"]
    /\ wake = [p \in Procs |-> FALSE]
    /\ stopping = [p \in Procs |-> FALSE]
    /\ lost = [p \in Procs |-> FALSE]
    /\ failed = [p \in Procs |-> FALSE]
    /\ seen = [p \in Procs |-> "starting"]
    /\ last = [p \in Procs |-> FALSE]
    /\ errors = 0

Goto(p, label)     == main' = [main EXCEPT ![p] = label]
BeatGoto(p, label) == beat' = [beat EXCEPT ![p] = label]

Registered(p) == [owner |-> p, status |-> "starting"]

-----------------------------------------------------------------------------
(* The main thread: register_worker, start, loop, set_state, stop *)

\* register_worker's UPDATE rotates an existing row to this generation.
Register(p) ==
    /\ main[p] = "off"
    /\ IF row.owner = NoProc
       THEN Goto(p, "inserting") /\ UNCHANGED row
       ELSE Goto(p, "verifying") /\ row' = Registered(p)
    /\ UNCHANGED <<sharedVars, beatVars>>

\* The thread starts and set_state(IDLE) follows.
StartThread(p) == BeatGoto(p, "waiting") /\ Goto(p, "announcing")

\* INSERT; an IntegrityError because of a simultaneous INSERT becomes a rotation.
\* After a clean INSERT the re-read answers from the identity map of the session.
InsertRow(p) ==
    /\ main[p] = "inserting"
    /\ row' = Registered(p)
    /\ IF row.owner = NoProc THEN StartThread(p) ELSE Goto(p, "verifying") /\ UNCHANGED beat
    /\ UNCHANGED <<sharedVars, lost, failed, seen, last, errors>>

\* The re-read after a rotation raises if another generation took the row.
VerifyRow(p) ==
    /\ main[p] = "verifying"
    /\ IF row.owner = p THEN StartThread(p) ELSE Goto(p, "exited") /\ UNCHANGED beat
    /\ UNCHANGED <<row, sharedVars, lost, failed, seen, last, errors>>

\* set_state's assignments under the lock; the wake event is set afterwards.
SetState(p, from, status) ==
    /\ main[p] = from
    /\ shared' = [shared EXCEPT ![p] = status]
    /\ Goto(p, "waking")
    /\ UNCHANGED <<row, wake, stopping, beatVars>>

Announce(p)  == SetState(p, "announcing", "idle")
BecomeBusy(p) == SetState(p, "claimed", "busy")
BecomeIdle(p) == SetState(p, "executing", "idle")

\* Where the main thread goes on after it published a status.
AfterWake == [idle |-> "top", busy |-> "executing", stopped |-> "joining"]

Wake(p) ==
    /\ main[p] = "waking"
    /\ wake' = [wake EXCEPT ![p] = TRUE]
    /\ Goto(p, AfterWake[shared[p]])
    /\ UNCHANGED <<row, shared, stopping, beatVars>>

\* Faulty variant: a lost generation keeps claiming.
LoopTop_IgnoresLoss(p) ==
    /\ main[p] = "top"
    /\ Goto(p, "leaving") \/ Goto(p, "claiming")
    /\ UNCHANGED <<row, sharedVars, beatVars>>

\* A signal, an exception out of process_next, or a lost generation leave the loop.
LoopTop(p) ==
    /\ main[p] = "top"
    /\ \/ Goto(p, "leaving")
       \/ ~lost[p] /\ Goto(p, "claiming")
    /\ UNCHANGED <<row, sharedVars, beatVars>>

\* claim_next finds a job only while this generation owns the row.
Claim(p) ==
    /\ main[p] = "claiming"
    /\ \/ Goto(p, "top")
       \/ row.owner = p /\ Goto(p, "claimed")
    /\ UNCHANGED <<row, sharedVars, beatVars>>

\* Faulty variant: the status is misspelt.
StopStatus_Misspelt(p) ==
    /\ main[p] = "leaving"
    /\ shared' = [shared EXCEPT ![p] = "halted"]
    /\ Goto(p, "flagging")
    /\ UNCHANGED <<row, wake, stopping, beatVars>>

\* stop: STOPPED under the lock, then the stop event, then the wake event.
StopStatus(p) ==
    /\ main[p] = "leaving"
    /\ shared' = [shared EXCEPT ![p] = "stopped"]
    /\ Goto(p, "flagging")
    /\ UNCHANGED <<row, wake, stopping, beatVars>>

StopFlag(p) ==
    /\ main[p] = "flagging"
    /\ stopping' = [stopping EXCEPT ![p] = TRUE]
    /\ Goto(p, "waking")
    /\ UNCHANGED <<row, shared, wake, beatVars>>

\* join returns when the thread is over, or gives up: TimeoutError.
Join(p) ==
    /\ main[p] = "joining"
    /\ Goto(p, IF beat[p] = "done" THEN "stopped" ELSE "timedout")
    /\ UNCHANGED <<row, sharedVars, beatVars>>

\* The memory of a dead process: all values that are not read again are equal.
Forget(p) ==
    /\ BeatGoto(p, IF beat[p] = "none" THEN "none" ELSE "killed")
    /\ shared' = [shared EXCEPT ![p] = "starting"]
    /\ wake' = [wake EXCEPT ![p] = FALSE]
    /\ stopping' = [stopping EXCEPT ![p] = FALSE]
    /\ lost' = [lost EXCEPT ![p] = FALSE]
    /\ failed' = [failed EXCEPT ![p] = FALSE]
    /\ seen' = [seen EXCEPT ![p] = "starting"]
    /\ last' = [last EXCEPT ![p] = FALSE]

\* The process ends with its exception and takes the daemon thread with it.
Exit(p) ==
    /\ main[p] = "timedout"
    /\ Goto(p, "exited")
    /\ Forget(p)
    /\ UNCHANGED <<row, errors>>

Crash(p) ==
    /\ main[p] \notin Dead
    /\ Goto(p, "crashed")
    /\ Forget(p)
    /\ UNCHANGED <<row, errors>>

-----------------------------------------------------------------------------
(* The heartbeat thread: _run, update_worker_status *)

\* wait returns because of the event or after heartbeat_seconds, then clear.  One
\* step: a wakeup that falls between the two has the effect of one before both.
BeatWait(p) ==
    /\ beat[p] = "waiting"
    /\ wake' = [wake EXCEPT ![p] = FALSE]
    /\ BeatGoto(p, "cleared")
    /\ UNCHANGED <<row, main, shared, stopping, lost, failed, seen, last, errors>>

BeatRead(p) ==
    /\ beat[p] = "cleared"
    /\ seen' = [seen EXCEPT ![p] = shared[p]]
    /\ BeatGoto(p, "read")
    /\ UNCHANGED <<row, main, sharedVars, lost, failed, last, errors>>

\* Faulty variant: the event is cleared after the status was read.
BeatCheck_ClearsLate(p) ==
    /\ beat[p] = "read"
    /\ last' = [last EXCEPT ![p] = stopping[p]]
    /\ wake' = [wake EXCEPT ![p] = FALSE]
    /\ BeatGoto(p, "writing")
    /\ UNCHANGED <<row, main, shared, stopping, lost, failed, seen, errors>>

BeatCheck(p) ==
    /\ beat[p] = "read"
    /\ last' = [last EXCEPT ![p] = stopping[p]]
    /\ BeatGoto(p, "writing")
    /\ UNCHANGED <<row, main, sharedVars, lost, failed, seen, errors>>

\* The locals of a round of the thread's loop are not read in the next one.
NextRound(p) == /\ seen' = [seen EXCEPT ![p] = "starting"]
                /\ last' = [last EXCEPT ![p] = FALSE]

\* update_worker_status: one UPDATE, guarded by the boot token.
UpdateStatus(p) == row.owner = p /\ row' = [row EXCEPT !.status = seen[p]]

\* Faulty variant: the UPDATE is not guarded.
BeatWrite_Unguarded(p) ==
    /\ beat[p] = "writing"
    /\ failed' = [failed EXCEPT ![p] = FALSE]
    /\ row' = [row EXCEPT !.status = seen[p]]
    /\ BeatGoto(p, IF last[p] THEN "done" ELSE "waiting")
    /\ NextRound(p)
    /\ UNCHANGED <<main, sharedVars, lost, errors>>

\* No row updated means that the generation is lost, and ends the thread.
BeatWrite(p) ==
    /\ beat[p] = "writing"
    /\ failed' = [failed EXCEPT ![p] = FALSE]
    /\ \/ /\ UpdateStatus(p)
          /\ BeatGoto(p, IF last[p] THEN "done" ELSE "waiting")
          /\ UNCHANGED lost
       \/ /\ row.owner # p
          /\ lost' = [lost EXCEPT ![p] = TRUE]
          /\ BeatGoto(p, "done")
          /\ UNCHANGED row
    /\ NextRound(p)
    /\ UNCHANGED <<main, sharedVars, errors>>

\* Faulty variant: an exception ends the thread.
BeatFail_Ends(p) ==
    /\ beat[p] = "writing"
    /\ errors < MaxErrors
    /\ errors' = errors + 1
    /\ failed' = [failed EXCEPT ![p] = TRUE]
    /\ BeatGoto(p, "done")
    /\ NextRound(p)
    /\ UNCHANGED <<row, main, sharedVars, lost>>

\* The session raises (a locked database, a current_job_id that was deleted).
BeatFail(p) ==
    /\ beat[p] = "writing"
    /\ errors < MaxErrors
    /\ errors' = errors + 1
    /\ failed' = [failed EXCEPT ![p] = TRUE]
    /\ BeatGoto(p, IF last[p] THEN "done" ELSE "waiting")
    /\ NextRound(p)
    /\ UNCHANGED <<row, main, sharedVars, lost>>

MainStep(p) == \/ InsertRow(p) \/ VerifyRow(p) \/ Announce(p) \/ BecomeBusy(p) \/ BecomeIdle(p)
               \/ Wake(p) \/ LoopTop(p) \/ Claim(p) \/ StopStatus(p) \/ StopFlag(p)
               \/ Join(p) \/ Exit(p)

BeatStep(p) == \/ BeatWait(p) \/ BeatRead(p) \/ BeatCheck(p)
               \/ BeatWrite(p) \/ BeatFail(p)

Next == \E p \in Procs : Register(p) \/ Crash(p) \/ MainStep(p) \/ BeatStep(p)

Spec == Init /\ [][Next]_vars

\* Both threads of a living process keep running and jobs come to an end; nothing
\* makes a process start or crash.
Fairness == \A p \in Procs : WF_vars(MainStep(p)) /\ WF_vars(BeatStep(p))

FairSpec == Spec /\ Fairness

-----------------------------------------------------------------------------
(* Properties *)

TypeOK ==
    /\ row \in [owner : Procs \cup {NoProc}, status : Statuses]
    /\ main \in [Procs -> MainPCs]
    /\ beat \in [Procs -> BeatPCs]
    /\ shared \in [Procs -> Statuses]
    /\ wake \in [Procs -> BOOLEAN]
    /\ stopping \in [Procs -> BOOLEAN]
    /\ lost \in [Procs -> BOOLEAN]
    /\ failed \in [Procs -> BOOLEAN]
    /\ seen \in [Procs -> Statuses]
    /\ last \in [Procs -> BOOLEAN]
    /\ errors \in 0 .. MaxErrors

\* No wakeup is lost: when the thread goes to sleep without a pending event, the
\* row shows what the main thread published last, unless that write raised.
NoLostUpdate ==
    \A p \in Procs :
        /\ beat[p] = "waiting"
        /\ ~wake[p]
        /\ main[p] \notin {"flagging", "waking"}
        /\ ~failed[p]
        /\ row.owner = p
        => row.status = shared[p]

\* A row reported as stopped belongs to a generation that is stopping: an older
\* process that shuts down late does not put its successor offline
\* (docs/architecture.md:14).
StoppedByOwner ==
    row.owner # NoProc /\ row.status = "stopped"
        => main[row.owner] \in Dead \/ shared[row.owner] = "stopped"

\* A process that was superseded eventually leaves its loop (loop's check of
\* generation_lost), whatever its heartbeat thread was doing.
SupersededStops ==
    \A p \in Procs :
        main[p] \in {"top", "claiming"} /\ row.owner # p ~> main[p] \in Dead

\* A process in its loop has a heartbeat thread: no error ends it, only the loss of
\* the generation does.
HeartbeatAlive ==
    \A p \in Procs :
        main[p] \in {"top", "claiming", "claimed", "executing"}
            => lost[p] \/ beat[p] \in {"waiting", "cleared", "read", "writing"}

\* When stop returned, was not superseded and saw no error, the row says STOPPED
\* (tests/test_workers.py:135).
StopPublishesStopped ==
    \A p \in Procs :
        main[p] = "stopped" /\ row.owner = p /\ ~lost[p] /\ ~failed[p] => row.status = "stopped"
=============================================================================
