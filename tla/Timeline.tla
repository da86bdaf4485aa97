------------------------------ MODULE Timeline ------------------------------
(***************************************************************************)
(* Where the shots of a film come to lie: as assemble_with_transitions     *)
(* builds it, from the lengths of the clips, and as _subtitle_entries      *)
(* computes it again for the subtitles, from the shots.  Times are counted *)
(* in quarters of a frame, which halving twice keeps whole.                *)
(***************************************************************************)
EXTENDS Integers, Sequences

CONSTANTS Pad,       \* the 0.2 seconds a subtitle keeps from both ends
          Timelines  \* sequences of shots, all of their times in quarter frames

\* A shot, as far as its place in the film goes.
TimedShot == [transition : {"crossfade", "shared_frame", "hard_cut"}, overlap : Nat, duration : Nat]

ASSUME TimelineAssumption == Pad \in Int /\ Timelines \subseteq Seq(TimedShot)

VARIABLE shots  \* the shots of the project that is rendered

\* A render reads the shots once.
TimelineInit == shots \in Timelines
TimelineSpec == TimelineInit /\ [][UNCHANGED shots]_shots

FrameTime == 4

Larger(a, b)  == IF a > b THEN a ELSE b
Smaller(a, b) == IF a < b THEN a ELSE b

\* The overlap of a shot with the one before it, as it is configured.
Configured(shot) == [crossfade    |-> Larger(FrameTime, shot.overlap),
                     shared_frame |-> shot.overlap,
                     hard_cut     |-> 0][shot.transition]

-----------------------------------------------------------------------------
(* assemble_with_transitions *)

\* The video provider makes at least two frames.
Clip(shot) == Larger(2 * FrameTime, shot.duration)

\* What a transition takes off a film of the given length and the clip after it:
\* a crossfade at most half of either.
Applied(shot, film) ==
    IF shot.transition = "crossfade"
    THEN Smaller(Configured(shot), Smaller(Clip(shot) \div 2, film \div 2))
    ELSE Configured(shot)

\* assembled_duration after the first n clips.
Assembled ==
    LET film[n \in 1 .. Len(shots)] ==
          IF n = 1 THEN Clip(shots[1])
          ELSE film[n - 1] + Clip(shots[n]) - Applied(shots[n], film[n - 1])
    IN film

\* Where clip n begins to be seen: a crossfade begins in the film before it.
Begins(n) ==
    IF n = 1 THEN 0
    ELSE IF shots[n].transition = "crossfade"
    THEN Assembled[n - 1] - Applied(shots[n], Assembled[n - 1])
    ELSE Assembled[n - 1]

-----------------------------------------------------------------------------
(* _subtitle_entries *)

\* Faulty variant: a crossfade of no frames takes none.
TimelineOverlap_Unbounded(n) ==
    IF n = 1 \/ shots[n].transition = "hard_cut" THEN 0 ELSE shots[n].overlap

\* _timeline_overlap
TimelineOverlap(n) == IF n = 1 THEN 0 ELSE Configured(shots[n])

\* timeline after the first n shots.
Elapsed ==
    LET timeline[n \in 0 .. Len(shots)] ==
          IF n = 0 THEN 0
          ELSE timeline[n - 1] + shots[n].duration - TimelineOverlap(n)
    IN timeline

ShotStart(n) ==
    Elapsed[n - 1]
        - (IF shots[n].transition = "crossfade" THEN TimelineOverlap(n) ELSE 0)

Entry(n) ==
    [from |-> ShotStart(n) + Pad,
     to   |-> ShotStart(n) + shots[n].duration - TimelineOverlap(n) - Pad]

-----------------------------------------------------------------------------

\* Every clip is as long as its shot, and no transition has to be shortened or
\* takes more than the clip has.
Fits ==
    \A n \in 1 .. Len(shots) :
        /\ Clip(shots[n]) = shots[n].duration
        /\ n > 1 => /\ Applied(shots[n], Assembled[n - 1]) = Configured(shots[n])
                    /\ Configured(shots[n]) <= shots[n].duration

\* Two computations of one timeline, by render.py and mock_pipeline.py, agree
\* where the transitions fit: a subtitle is shown while its clip is.
SubtitlesFollowClips ==
    Fits => \A n \in 1 .. Len(shots) :
                /\ ShotStart(n) = Begins(n)
                /\ Entry(n).to <= Assembled[n] - Pad
=============================================================================
