------------------------- MODULE MCWorkerExecution -------------------------
(* An instance of WorkerExecution, and of Timeline, for TLC. *)
EXTENDS WorkerExecution, Timeline

CONSTANTS p1, p2

Profile(size, next) == [width |-> size, height |-> size, fps |-> size, fallback |-> next]

\* The file as shipped, and three edits of it: a new limit, a fallback
\* that asks for more, and a cycle.
Shipped   == [high |-> Profile(3, "mid"), mid |-> Profile(2, "low"),
              low |-> Profile(1, NoProfile)]
Edited    == [high |-> Profile(4, NoProfile), low |-> Profile(1, NoProfile)]
Demanding == [high |-> Profile(1, "low"), low |-> [Profile(1, NoProfile) EXCEPT !.fps = 2]]
Cyclic    == [high |-> Profile(1, "low"), low |-> Profile(1, "high")]

Files == {Shipped, Edited, Demanding, Cyclic}

\* nvidia-smi fails, misses the device, or reports too little or enough for it.
Reports == {NoProbe, [d \in {1} |-> 1], [d \in {0, 1} |-> d], [d \in {0, 1} |-> 1]}

BothWorkers == [p \in Procs |-> "worker"]
BothTools   == [p \in Procs |-> "tool"]

\* The calls that share a path.
Utilities == [p \in Procs |-> IF p = p1 THEN {"burned", "audio"} ELSE {"soft"}]

\* One worker runs the administrator's commands, the other the mock provider.
Setups == [p \in Procs |-> IF p = p1 THEN "provider" ELSE "video"]

\* Workers and tools share nothing, so one run looks at two of either.
Either == {BothWorkers, BothTools}
\* Films of three shots of two or four frames, with overlaps of none or two.
Films == [1 .. 3 -> [transition : {"crossfade", "shared_frame", "hard_cut"},
                     overlap : {0, 8}, duration : {8, 16}]]

\* The processes do not look at the shots: they run beside one film, and every
\* other film is an initial state and no more.
Shown == [n \in 1 .. 3 |-> [transition |-> "hard_cut", overlap |-> 0, duration |-> 8]]

MCInit == Init /\ TimelineInit
MCNext == Next /\ shots = Shown /\ UNCHANGED shots
MCSpec == MCInit /\ [][MCNext]_<<vars, shots>> /\ Fairness
=============================================================================
