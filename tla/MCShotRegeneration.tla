------------------------- MODULE MCShotRegeneration -------------------------
(* Instances of ShotRegeneration for TLC: a shot with two regeneration jobs,  *)
(* one project render and two clients.                                        *)
EXTENDS ShotRegeneration, TLC

CONSTANTS r1, r2, k1, c1, c2,
          MaxLoad  \* bound: what the clients ask for, see Load

TwoRuns     == {r1, r2}
OneClip     == {k1}
TwoClients  == {c1, c2}
FiveCandidates == {<<r1, 1>>, <<r1, 2>>, <<r2, 1>>, <<r2, 2>>, k1}
Symmetry    == Permutations(TwoClients) \cup Permutations(TwoRuns)

\* With MaxLoad = 2: one regeneration beside two edits, or killed, cancelled or
\* retried beside one edit, with a render at any time; or two regenerations that
\* may overlap, with a render before or after them.
Submitted == {r \in Runs : job[r] # "absent"}
Retried   == {r \in Runs : attempt[r] > 1 \/ (attempt[r] = 1 /\ job[r] = "queued")}
Killed    == {r \in Runs : pc[r] = "dead"}
UnderWay  == {k \in Clips : render[k] \notin {"queued", "connected", "ended"}}
Called    == {r \in Runs : job[r] \in {"cancel_requested", "cancelled"}}
Load      == edits + Cardinality(Retried) + Cardinality(Killed) + Cardinality(Called)
                   + 2 * (Cardinality(Submitted) - 1)
LightLoad == Load <= MaxLoad /\ (Submitted = Runs => UnderWay = {})
=============================================================================
