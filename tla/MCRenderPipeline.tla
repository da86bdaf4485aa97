-------------------------- MODULE MCRenderPipeline --------------------------
(* Instances of RenderPipeline for TLC: two shots, the first with dialogue  *)
(* and lip-sync, the second continuing it.                                  *)
EXTENDS RenderPipeline

CONSTANTS r1, r2

FirstShot  == {1}
SecondShot == {2}
NoShots    == {}
BothShots  == {1, 2}
OnlyFirst  == {r1}
OnlySecond == {r2}
BothRuns   == {r1, r2}
NoRuns     == {}
=============================================================================
