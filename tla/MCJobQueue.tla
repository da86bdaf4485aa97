----------------------------- MODULE MCJobQueue -----------------------------
(* The instance of JobQueue for TLC: one job, two generations of one worker  *)
(* (the later supersedes the earlier), two requests that may retry at once.  *)
EXTENDS JobQueue

CONSTANTS j1, p1, p2, c1, c2

OneWorker  == [p \in Procs |-> "cpu"]
OneProject == [j \in Jobs |-> "film"]
=============================================================================
