----------------------- MODULE WorkerHeartbeatProofs -----------------------
(***************************************************************************)
(* Proofs about WorkerHeartbeat, for any number of processes and errors.   *)
(* The inductive invariant relates, per process, the two threads and what  *)
(* they share (Local), what is on its way to the row (InTransit), and the  *)
(* row itself (StopHeeded).                                                *)
(***************************************************************************)
EXTENDS WorkerHeartbeat, TLAPS

\* The heartbeat thread is somewhere in its loop.
Beating(p) == beat[p] \in {"waiting", "cleared", "read", "writing"}

\* The threads of one process: before start there is no heartbeat thread, after
\* it only a lost generation or the stop event ends it; the stop flag and the
\* statuses that were read follow the main thread.
Local(p) ==
    /\ main[p] \in {"off", "inserting", "verifying"} => beat[p] = "none" /\ shared[p] = "starting"
    /\ main[p] \in {"announcing", "top", "claiming", "claimed", "executing", "leaving",
                    "flagging", "waking", "joining", "timedout"}
           => Beating(p) \/ (beat[p] = "done" /\ (lost[p] \/ stopping[p]))
    /\ main[p] = "waking" => shared[p] # "starting"
    /\ main[p] = "flagging" => shared[p] = "stopped"
    /\ shared[p] = "stopped" => main[p] \in {"flagging", "waking", "joining", "stopped", "timedout"}
    /\ stopping[p] => shared[p] = "stopped"
    /\ last[p] => stopping[p]
    /\ seen[p] = "stopped" => shared[p] = "stopped"

\* While the row is the process's own, the status published last is in it, in the
\* thread's hand, or announced by the wake event.
InTransit(p) ==
    row.owner = p =>
        /\ main[p] = "verifying" => row.status = "starting"
        /\ main[p] \notin {"flagging", "waking"} /\ ~wake[p] =>
               /\ beat[p] = "waiting" /\ ~failed[p] => row.status = shared[p]
               /\ beat[p] \in {"read", "writing"} => seen[p] = shared[p]

\* The row says stopped only if the process that owns it said so or is dead.
StopHeeded(p) ==
    row.owner = p /\ row.status = "stopped" => main[p] \in Dead \/ shared[p] = "stopped"

Inv(p) == Local(p) /\ InTransit(p) /\ StopHeeded(p)

ThreadInv == \A p \in Procs : Inv(p)

ProcStep(p) == Register(p) \/ Crash(p) \/ MainStep(p) \/ BeatStep(p)

LEMMA InitInv == ASSUME HeartbeatAssumption PROVE Init => TypeOK /\ ThreadInv
  <1> SUFFICES ASSUME HeartbeatAssumption, Init PROVE TypeOK /\ ThreadInv
    OBVIOUS
  <1>1. TypeOK
    BY DEF HeartbeatAssumption, Init, TypeOK, Statuses, MainPCs, BeatPCs
  <1>2. ThreadInv
    BY DEF HeartbeatAssumption, Init, ThreadInv, Inv, Local, InTransit, StopHeeded, Beating, Dead
  <1> QED BY <1>1, <1>2

-----------------------------------------------------------------------------
(* Type correctness *)

\* What a write of the heartbeat thread, successful or not, does to its process.
LEMMA WriteEffect ==
    ASSUME TypeOK, NEW p \in Procs, BeatWrite(p) \/ BeatFail(p)
    PROVE  /\ beat[p] = "writing"
           /\ \E b \in {"waiting", "done"}, l \in BOOLEAN, f \in BOOLEAN :
                  /\ beat' = [beat EXCEPT ![p] = b]
                  /\ lost' = [lost EXCEPT ![p] = l]
                  /\ failed' = [failed EXCEPT ![p] = f]
                  /\ b = "done" => l \/ last[p]
                  /\ \/ row.owner = p /\ row' = [row EXCEPT !.status = seen[p]]
                     \/ row.owner # p /\ row' = row
                     \/ f /\ row' = row
           /\ seen' = [seen EXCEPT ![p] = "starting"]
           /\ last' = [last EXCEPT ![p] = FALSE]
           /\ UNCHANGED <<main, shared, wake, stopping>>
  <1> USE DEF TypeOK
  <1>1. CASE BeatFail(p)
    <2>1. lost' = [lost EXCEPT ![p] = lost[p]]
      BY <1>1 DEF BeatFail
    <2> DEFINE b == IF last[p] THEN "done" ELSE "waiting"
    <2>2. beat' = [beat EXCEPT ![p] = b] /\ b \in {"waiting", "done"} /\ (b = "done" => last[p])
      BY <1>1 DEF BeatFail, BeatGoto
    <2>3. failed' = [failed EXCEPT ![p] = TRUE] /\ row' = row
      BY <1>1 DEF BeatFail
    <2>4. lost[p] \in BOOLEAN
      OBVIOUS
    <2> HIDE DEF b
    <2>5. \E x \in {"waiting", "done"}, l \in BOOLEAN, f \in BOOLEAN :
              /\ beat' = [beat EXCEPT ![p] = x]
              /\ lost' = [lost EXCEPT ![p] = l]
              /\ failed' = [failed EXCEPT ![p] = f]
              /\ x = "done" => l \/ last[p]
              /\ \/ row.owner = p /\ row' = [row EXCEPT !.status = seen[p]]
                 \/ row.owner # p /\ row' = row
                 \/ f /\ row' = row
      BY <2>1, <2>2, <2>3, <2>4
    <2> QED BY <1>1, <2>5 DEF BeatFail, NextRound, sharedVars
  <1>2. CASE BeatWrite(p)
    <2>1. failed' = [failed EXCEPT ![p] = FALSE]
      BY <1>2 DEF BeatWrite
    <2>2. CASE UpdateStatus(p) /\ BeatGoto(p, IF last[p] THEN "done" ELSE "waiting") /\ UNCHANGED lost
      <3>1. lost' = [lost EXCEPT ![p] = lost[p]] /\ lost[p] \in BOOLEAN
        BY <2>2
      <3> QED BY <1>2, <2>1, <2>2, <3>1 DEF BeatWrite, UpdateStatus, BeatGoto, NextRound, sharedVars
    <2>3. CASE row.owner # p /\ lost' = [lost EXCEPT ![p] = TRUE] /\ BeatGoto(p, "done") /\ UNCHANGED row
      BY <1>2, <2>1, <2>3 DEF BeatWrite, BeatGoto, NextRound, sharedVars
    <2> QED BY <1>2, <2>2, <2>3 DEF BeatWrite
  <1> QED BY <1>1, <1>2

LEMMA TypeStep ==
    ASSUME HeartbeatAssumption, TypeOK, ThreadInv, [Next]_vars
    PROVE  TypeOK'
  <1> USE HeartbeatAssumption DEF TypeOK, Statuses, MainPCs, BeatPCs, Goto, BeatGoto
  <1>1. ASSUME NEW p \in Procs, Register(p) \/ InsertRow(p) \/ VerifyRow(p) PROVE TypeOK'
    BY <1>1 DEF Register, InsertRow, VerifyRow, Registered, StartThread, sharedVars, beatVars
  <1>2. ASSUME NEW p \in Procs, Announce(p) \/ BecomeBusy(p) \/ BecomeIdle(p) PROVE TypeOK'
    BY <1>2 DEF Announce, BecomeBusy, BecomeIdle, SetState, beatVars
  <1>3. ASSUME NEW p \in Procs, Wake(p) PROVE TypeOK'
    <2>1. shared[p] \in {"idle", "busy", "stopped"}
      BY <1>3 DEF Wake, ThreadInv, Inv, Local
    <2>2. AfterWake[shared[p]] \in {"top", "executing", "joining"}
      BY <2>1 DEF AfterWake
    <2> QED BY <1>3, <2>2 DEF Wake, beatVars
  <1>4. ASSUME NEW p \in Procs, LoopTop(p) \/ Claim(p) \/ StopStatus(p) \/ StopFlag(p) \/ Join(p)
        PROVE  TypeOK'
    <2>1. CASE LoopTop(p) \/ Claim(p)
      BY <2>1 DEF LoopTop, Claim, sharedVars, beatVars
    <2>2. CASE StopStatus(p)
      BY <2>2 DEF StopStatus, beatVars
    <2>3. CASE StopFlag(p)
      BY <2>3 DEF StopFlag, beatVars
    <2>4. CASE Join(p)
      BY <2>4 DEF Join, sharedVars, beatVars
    <2> QED BY <1>4, <2>1, <2>2, <2>3, <2>4
  <1>5. ASSUME NEW p \in Procs, Exit(p) \/ Crash(p) PROVE TypeOK'
    <2>1. main' \in [Procs -> MainPCs] /\ UNCHANGED <<row, errors>> /\ Forget(p)
      BY <1>5 DEF Exit, Crash
    <2>2. /\ beat' \in [Procs -> BeatPCs] /\ wake' \in [Procs -> BOOLEAN]
          /\ shared' \in [Procs -> Statuses] /\ seen' \in [Procs -> Statuses]
      BY <2>1 DEF Forget
    <2>3. /\ stopping' \in [Procs -> BOOLEAN] /\ lost' \in [Procs -> BOOLEAN]
          /\ failed' \in [Procs -> BOOLEAN] /\ last' \in [Procs -> BOOLEAN]
      BY <2>1 DEF Forget
    <2> QED BY <2>1, <2>2, <2>3
  <1>6. ASSUME NEW p \in Procs, BeatWait(p) \/ BeatRead(p) \/ BeatCheck(p) PROVE TypeOK'
    <2>1. CASE BeatWait(p)
      BY <2>1 DEF BeatWait, sharedVars
    <2>2. CASE BeatRead(p)
      BY <2>2 DEF BeatRead, sharedVars
    <2>3. CASE BeatCheck(p)
      BY <2>3 DEF BeatCheck, sharedVars
    <2> QED BY <1>6, <2>1, <2>2, <2>3
  <1>7. ASSUME NEW p \in Procs, BeatWrite(p) \/ BeatFail(p) PROVE TypeOK'
    <2>1. errors' \in 0 .. MaxErrors
      BY <1>7 DEF BeatWrite, BeatFail
    <2>2. PICK b \in {"waiting", "done"}, l \in BOOLEAN, f \in BOOLEAN :
              /\ beat' = [beat EXCEPT ![p] = b]
              /\ lost' = [lost EXCEPT ![p] = l]
              /\ failed' = [failed EXCEPT ![p] = f]
              /\ row' = row \/ row' = [row EXCEPT !.status = seen[p]]
      BY <1>7, WriteEffect
    <2>3. row' \in [owner : Procs \cup {NoProc}, status : Statuses]
      BY <2>2
    <2>4. /\ seen' = [seen EXCEPT ![p] = "starting"]
          /\ last' = [last EXCEPT ![p] = FALSE]
          /\ UNCHANGED <<main, shared, wake, stopping>>
      BY <1>7, WriteEffect
    <2>5. seen' \in [Procs -> Statuses] /\ last' \in [Procs -> BOOLEAN]
      BY <2>4
    <2>6. beat' \in [Procs -> BeatPCs]
      BY <2>2
    <2>7. lost' \in [Procs -> BOOLEAN] /\ failed' \in [Procs -> BOOLEAN]
      BY <2>2, Zenon
    <2> QED BY <2>1, <2>3, <2>4, <2>5, <2>6, <2>7
  <1>8. CASE UNCHANGED vars
    BY <1>8 DEF vars
  <1> QED
    BY <1>1, <1>2, <1>3, <1>4, <1>5, <1>6, <1>7, <1>8 DEF Next, MainStep, BeatStep

-----------------------------------------------------------------------------
(* What a step does to its own process, and to the others *)

LEMMA LocalStep ==
    ASSUME TypeOK, NEW p \in Procs, ProcStep(p), Local(p)
    PROVE  Local(p)'
  <1> USE DEF TypeOK, Statuses, Local, Beating, Goto, BeatGoto
  <1>1. CASE Register(p) \/ InsertRow(p) \/ VerifyRow(p)
    BY <1>1 DEF Register, InsertRow, VerifyRow, StartThread, sharedVars, beatVars
  <1>2. CASE Announce(p) \/ BecomeBusy(p) \/ BecomeIdle(p)
    BY <1>2 DEF Announce, BecomeBusy, BecomeIdle, SetState, beatVars
  <1>3. CASE Wake(p)
    <2>1. shared[p] \in {"idle", "busy", "stopped"}
      BY <1>3 DEF Wake
    <2>2. /\ AfterWake[shared[p]] \in {"top", "executing", "joining"}
          /\ shared[p] = "stopped" => AfterWake[shared[p]] = "joining"
      BY <2>1 DEF AfterWake
    <2> QED BY <1>3, <2>2 DEF Wake, beatVars
  <1>4. CASE LoopTop(p) \/ Claim(p)
    BY <1>4 DEF LoopTop, Claim, sharedVars, beatVars
  <1>5. CASE StopStatus(p) \/ StopFlag(p)
    BY <1>5 DEF StopStatus, StopFlag, beatVars
  <1>6. CASE Join(p)
    BY <1>6 DEF Join, sharedVars, beatVars
  <1>7. CASE Exit(p) \/ Crash(p)
    BY <1>7 DEF Exit, Crash, Forget
  <1>8. CASE BeatWait(p) \/ BeatRead(p) \/ BeatCheck(p)
    BY <1>8 DEF BeatWait, BeatRead, BeatCheck, sharedVars
  <1>9. CASE BeatWrite(p) \/ BeatFail(p)
    BY <1>9, WriteEffect
  <1> QED
    BY <1>1, <1>2, <1>3, <1>4, <1>5, <1>6, <1>7, <1>8, <1>9 DEF ProcStep, MainStep, BeatStep

LEMMA TransitStep ==
    ASSUME TypeOK, NEW p \in Procs, ProcStep(p), Local(p), InTransit(p)
    PROVE  InTransit(p)'
  <1> USE DEF TypeOK, InTransit, Goto, BeatGoto
  <1>1. CASE Register(p) \/ InsertRow(p) \/ VerifyRow(p)
    BY <1>1 DEF Register, InsertRow, VerifyRow, Registered, StartThread, Local, sharedVars, beatVars
  <1>2. CASE Announce(p) \/ BecomeBusy(p) \/ BecomeIdle(p)
    BY <1>2 DEF Announce, BecomeBusy, BecomeIdle, SetState, beatVars
  <1>3. CASE Wake(p)
    <2>1. shared[p] \in {"idle", "busy", "stopped"}
      BY <1>3 DEF Wake, Local, Statuses
    <2>2. AfterWake[shared[p]] \in {"top", "executing", "joining"}
      BY <2>1 DEF AfterWake
    <2> QED BY <1>3, <2>2 DEF Wake, beatVars
  <1>4. CASE LoopTop(p) \/ Claim(p) \/ StopStatus(p) \/ StopFlag(p) \/ Join(p)
    BY <1>4 DEF LoopTop, Claim, StopStatus, StopFlag, Join, sharedVars, beatVars
  <1>5. CASE Exit(p) \/ Crash(p)
    BY <1>5 DEF Exit, Crash, Forget
  <1>6. CASE BeatWait(p) \/ BeatRead(p) \/ BeatCheck(p)
    BY <1>6 DEF BeatWait, BeatRead, BeatCheck, Local, sharedVars
  <1>7. CASE BeatWrite(p) \/ BeatFail(p)
    BY <1>7 DEF BeatWrite, BeatFail, UpdateStatus, NextRound, Local, sharedVars
  <1> QED
    BY <1>1, <1>2, <1>3, <1>4, <1>5, <1>6, <1>7 DEF ProcStep, MainStep, BeatStep

LEMMA StopStep ==
    ASSUME HeartbeatAssumption, TypeOK, NEW p \in Procs, ProcStep(p), Local(p), StopHeeded(p)
    PROVE  StopHeeded(p)'
  <1> USE HeartbeatAssumption DEF HeartbeatAssumption, TypeOK, StopHeeded, Dead, Goto, BeatGoto
  <1>1. CASE Register(p) \/ InsertRow(p) \/ VerifyRow(p)
    BY <1>1 DEF Register, InsertRow, VerifyRow, Registered, StartThread, sharedVars, beatVars
  <1>2. CASE Announce(p) \/ BecomeBusy(p) \/ BecomeIdle(p)
    BY <1>2 DEF Announce, BecomeBusy, BecomeIdle, SetState, Local, beatVars
  <1>3. CASE Wake(p) \/ LoopTop(p) \/ Claim(p) \/ StopStatus(p) \/ StopFlag(p) \/ Join(p)
    BY <1>3 DEF Wake, LoopTop, Claim, StopStatus, StopFlag, Join, sharedVars, beatVars
  <1>4. CASE Exit(p) \/ Crash(p)
    BY <1>4 DEF Exit, Crash, Forget
  <1>5. CASE BeatWait(p) \/ BeatRead(p) \/ BeatCheck(p)
    BY <1>5 DEF BeatWait, BeatRead, BeatCheck, sharedVars
  <1>6. CASE BeatWrite(p) \/ BeatFail(p)
    BY <1>6 DEF BeatWrite, BeatFail, UpdateStatus, NextRound, Local, sharedVars
  <1> QED
    BY <1>1, <1>2, <1>3, <1>4, <1>5, <1>6 DEF ProcStep, MainStep, BeatStep

\* The memory of the other processes is untouched, and the row is either
\* untouched as well or owned by the process that steps.
LEMMA Frame ==
    ASSUME TypeOK, NEW p \in Procs, ProcStep(p), NEW q \in Procs, q # p
    PROVE  /\ main'[q] = main[q] /\ beat'[q] = beat[q] /\ shared'[q] = shared[q]
           /\ wake'[q] = wake[q] /\ stopping'[q] = stopping[q] /\ lost'[q] = lost[q]
           /\ failed'[q] = failed[q] /\ seen'[q] = seen[q] /\ last'[q] = last[q]
           /\ row' = row \/ row'.owner = p
  <1> USE DEF TypeOK, Goto, BeatGoto
  <1>1. CASE Register(p) \/ InsertRow(p) \/ VerifyRow(p)
    BY <1>1 DEF Register, InsertRow, VerifyRow, Registered, StartThread, sharedVars, beatVars
  <1>2. CASE Announce(p) \/ BecomeBusy(p) \/ BecomeIdle(p)
    BY <1>2 DEF Announce, BecomeBusy, BecomeIdle, SetState, beatVars
  <1>3. CASE Wake(p) \/ LoopTop(p) \/ Claim(p) \/ StopStatus(p) \/ StopFlag(p) \/ Join(p)
    BY <1>3 DEF Wake, LoopTop, Claim, StopStatus, StopFlag, Join, sharedVars, beatVars
  <1>4. CASE Exit(p) \/ Crash(p)
    BY <1>4 DEF Exit, Crash, Forget
  <1>5. CASE BeatWait(p) \/ BeatRead(p) \/ BeatCheck(p)
    BY <1>5 DEF BeatWait, BeatRead, BeatCheck, sharedVars
  <1>6. CASE BeatWrite(p) \/ BeatFail(p)
    BY <1>6 DEF BeatWrite, BeatFail, UpdateStatus, NextRound, sharedVars
  <1> QED
    BY <1>1, <1>2, <1>3, <1>4, <1>5, <1>6 DEF ProcStep, MainStep, BeatStep

LEMMA ThreadInvStep ==
    ASSUME HeartbeatAssumption, TypeOK, ThreadInv, [Next]_vars
    PROVE  ThreadInv'
  <1>1. ASSUME NEW p \in Procs, ProcStep(p), NEW q \in Procs PROVE Inv(q)'
    <2>1. CASE q = p
      BY <1>1, <2>1, LocalStep, TransitStep, StopStep DEF ThreadInv, Inv
    <2>2. CASE q # p
      BY <1>1, <2>2, Frame DEF ThreadInv, Inv, Local, InTransit, StopHeeded, Beating
    <2> QED BY <2>1, <2>2
  <1>2. CASE UNCHANGED vars
    BY <1>2 DEF vars, ThreadInv, Inv, Local, InTransit, StopHeeded, Beating
  <1>3. [Next]_vars => (\E p \in Procs : ProcStep(p)) \/ UNCHANGED vars
    BY DEF Next, ProcStep
  <1> QED BY <1>1, <1>2, <1>3 DEF ThreadInv

LEMMA Invariance == ASSUME HeartbeatAssumption PROVE Spec => [](TypeOK /\ ThreadInv)
  <1>1. Init => TypeOK /\ ThreadInv
    BY InitInv
  <1>2. TypeOK /\ ThreadInv /\ [Next]_vars => TypeOK' /\ ThreadInv'
    BY TypeStep, ThreadInvStep
  <1> QED BY <1>1, <1>2, PTL DEF Spec

-----------------------------------------------------------------------------
(* The invariants of WorkerHeartbeat *)

\* Every variable keeps its type, for any number of processes.
THEOREM TypeCorrect == ASSUME HeartbeatAssumption PROVE Spec => []TypeOK
  BY Invariance, PTL

\* No wakeup of the heartbeat thread is lost: clearing the event before the
\* status is read is enough.
THEOREM NoUpdateLost == ASSUME HeartbeatAssumption PROVE Spec => []NoLostUpdate
  <1>1. TypeOK /\ ThreadInv => NoLostUpdate
    BY DEF ThreadInv, Inv, InTransit, NoLostUpdate
  <1> QED BY <1>1, Invariance, PTL

\* A late shutdown of a superseded process never marks its successor stopped.
THEOREM OnlyOwnerStops == ASSUME HeartbeatAssumption PROVE Spec => []StoppedByOwner
  <1>1. TypeOK /\ ThreadInv => StoppedByOwner
    BY DEF TypeOK, ThreadInv, Inv, StopHeeded, StoppedByOwner
  <1> QED BY <1>1, Invariance, PTL

\* A worker in its loop has a heartbeat thread, whatever heartbeats raised.
THEOREM HeartbeatSurvives == ASSUME HeartbeatAssumption PROVE Spec => []HeartbeatAlive
  <1>1. TypeOK /\ ThreadInv => HeartbeatAlive
    BY DEF ThreadInv, Inv, Local, Beating, HeartbeatAlive
  <1> QED BY <1>1, Invariance, PTL
=============================================================================
