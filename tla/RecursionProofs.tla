--------------------------- MODULE RecursionProofs ---------------------------
(***************************************************************************)
(* Proofs about the two definitions that recur over the naturals: the walk *)
(* along the fallbacks of a render profile (RenderProfiles) and the two    *)
(* computations of a timeline (Timeline).  An induction is an argument     *)
(* about the least number for which the statement fails (LeastNatural); a  *)
(* recursive function is first shown to exist, since TLA+ only chooses it. *)
(***************************************************************************)
EXTENDS RenderProfiles, Timeline, FiniteSetTheorems, WellFoundedInduction, TLAPS

\* A set of naturals that is not empty has a least element.
LEMMA LeastNatural ==
    ASSUME NEW T, T \subseteq Nat, T # {}
    PROVE  \E x \in T : \A y \in T : x <= y
  <1> DEFINE Less == OpToRel(<, Nat)
  <1>1. ASSUME NEW a \in Nat, NEW b \in Nat, a < b PROVE <<a, b>> \in Less
    BY <1>1 DEF OpToRel
  <1>2. IsWellFoundedOn(Less, Nat)
    BY NatLessThanWellFounded
  <1> HIDE DEF Less
  <1>3. PICK x \in T : \A y \in T : ~ (<<y, x>> \in Less)
    BY <1>2, WFMin, Zenon
  <1>4. ASSUME NEW y \in T PROVE ~ (y < x)
    <2>1. y < x => <<y, x>> \in Less
      BY <1>1
    <2> QED BY <1>3, <2>1
  <1>5. \A y \in T : x <= y
    BY <1>4
  <1> QED BY <1>5

-----------------------------------------------------------------------------
(* Fallback chains *)

\* Where the walk goes from a name.
After(profiles, name) ==
    IF name \in DOMAIN profiles THEN profiles[name].fallback ELSE NoProfile

\* step is the walk from name, as far as size.
IsWalk(step, profiles, name, size) ==
    step = [k \in 0 .. size |-> IF k = 0 THEN name ELSE After(profiles, step[k - 1])]

LEMMA WalkExists ==
    ASSUME NEW profiles, NEW name, NEW size \in Nat
    PROVE  \E step : IsWalk(step, profiles, name, size)
  <1> DEFINE Missing == {n \in Nat : ~ \E step : IsWalk(step, profiles, name, n)}
  <1> SUFFICES ASSUME Missing # {} PROVE FALSE
    OBVIOUS
  <1>1. PICK n \in Missing : \A m \in Missing : n <= m
    BY LeastNatural
  <1>2. n # 0
    <2>1. IsWalk([k \in 0 .. 0 |-> name], profiles, name, 0)
      BY DEF IsWalk
    <2> QED BY <1>1, <2>1
  <1>3. PICK step : IsWalk(step, profiles, name, n - 1)
    BY <1>1, <1>2
  <1> DEFINE longer == [k \in 0 .. n |-> IF k = n THEN After(profiles, step[n - 1]) ELSE step[k]]
  <1>4. IsWalk(longer, profiles, name, n)
    <2>1. ASSUME NEW k \in 0 .. n
          PROVE  longer[k] = IF k = 0 THEN name ELSE After(profiles, longer[k - 1])
      BY <1>2, <1>3 DEF IsWalk
    <2> HIDE DEF longer
    <2>2. longer = [k \in 0 .. n |-> longer[k]]
      BY DEF longer
    <2> QED BY <2>1, <2>2 DEF IsWalk
  <1> QED BY <1>1, <1>4

\* The walk satisfies the equation that defines it.
LEMMA WalkSteps ==
    ASSUME NEW profiles, NEW name, NEW size \in Nat
    PROVE  IsWalk(Walk(profiles, name, size), profiles, name, size)
  <1>1. Walk(profiles, name, size) = CHOOSE step : IsWalk(step, profiles, name, size)
    BY DEF Walk, IsWalk, After
  <1> QED BY <1>1, WalkExists
\* In a valid configuration the walk stays among the profiles until it ends, and
\* ends for good: a walk as long as there are profiles cannot avoid a cycle.
LEMMA WalkEnds ==
    ASSUME NEW size \in Nat, NEW profiles, Configuration(profiles, size),
           ValidGraph(profiles, size), NEW name \in DOMAIN profiles,
           NEW step, step = Walk(profiles, name, size)
    PROVE  \E n \in 1 .. size :
              /\ \A k \in 0 .. n - 1 : step[k] \in DOMAIN profiles
              /\ \A k \in n .. size : step[k] = NoProfile
  <1>1. /\ NoProfile \notin DOMAIN profiles
        /\ step[0] = name
        /\ \A k \in 0 .. size : k # 0 => step[k] = After(profiles, step[k - 1])
    BY WalkSteps DEF IsWalk, Configuration
  <1>2. \A n \in DOMAIN profiles : After(profiles, n) \in DOMAIN profiles \cup {NoProfile}
    BY DEF After, ValidGraph, Fallbacks
  <1>3. After(profiles, NoProfile) = NoProfile
    BY <1>1 DEF After
  <1> DEFINE Ends == {n \in 0 .. size : step[n] \notin DOMAIN profiles}
  <1>4. Ends # {}
    <2> SUFFICES ASSUME Ends = {} PROVE FALSE
      OBVIOUS
    <2> DEFINE names == [k \in 0 .. size |-> step[k]]
    <2>1. names \in [0 .. size -> DOMAIN profiles]
      OBVIOUS
    <2>2. IsFiniteSet(0 .. size) /\ Cardinality(0 .. size) = size + 1
      BY FS_Interval
    <2>3. IsFiniteSet(DOMAIN profiles) /\ Cardinality(DOMAIN profiles) < Cardinality(0 .. size)
      BY <2>2, FS_CardinalityType DEF Configuration
    <2>4. PICK i, k \in 0 .. size : i # k /\ names[i] = names[k]
      <3> HIDE DEF names
      <3> QED BY <2>1, <2>2, <2>3, FS_PigeonHole
    <2>5. ASSUME NEW a \in 0 .. size, NEW b \in 0 .. size, a < b, step[a] = step[b] PROVE FALSE
      <3>1. step[b] = NoProfile
        BY <2>5 DEF ValidGraph, Acyclic
      <3> QED BY <1>1, <3>1
    <2> QED BY <2>4, <2>5
  <1>5. PICK n \in Ends : \A m \in Ends : n <= m
    <2>1. Ends \subseteq Nat
      OBVIOUS
    <2> HIDE DEF Ends
    <2> QED BY <1>4, <2>1, LeastNatural
  <1>6. n # 0 /\ \A k \in 0 .. n - 1 : step[k] \in DOMAIN profiles
    BY <1>1, <1>5
  <1>7. step[n] = NoProfile
    <2>1. step[n - 1] \in DOMAIN profiles /\ step[n] = After(profiles, step[n - 1])
      BY <1>1, <1>5, <1>6
    <2> QED BY <1>2, <1>5, <2>1
  <1> DEFINE Resumed == {k \in n .. size : step[k] # NoProfile}
  <1>8. Resumed = {}
    <2> SUFFICES ASSUME Resumed # {} PROVE FALSE
      OBVIOUS
    <2>1. PICK k \in Resumed : \A m \in Resumed : k <= m
      <3>1. Resumed \subseteq Nat
        OBVIOUS
      <3> HIDE DEF Resumed
      <3> QED BY <3>1, LeastNatural
    <2>2. k - 1 \in n .. size /\ k - 1 \notin Resumed
      BY <1>7, <2>1
    <2> QED BY <1>1, <1>3, <2>1, <2>2
  <1>9. n \in 1 .. size /\ \A k \in n .. size : step[k] = NoProfile
    BY <1>5, <1>6, <1>8
  <1> QED BY <1>6, <1>9
LEMMA DemandingOrder ==
    ASSUME NEW a, Figures(a) \subseteq Nat, NEW b, Figures(b) \subseteq Nat,
           NEW c, Figures(c) \subseteq Nat
    PROVE  /\ AtMostAsDemanding(a, a)
           /\ AtMostAsDemanding(a, b) /\ AtMostAsDemanding(b, c) => AtMostAsDemanding(a, c)
  <1>1. /\ a.width \in Nat /\ a.height \in Nat /\ a.fps \in Nat
        /\ b.width \in Nat /\ b.height \in Nat /\ b.fps \in Nat
        /\ c.width \in Nat /\ c.height \in Nat /\ c.fps \in Nat
    BY DEF Figures
  <1> QED BY <1>1 DEF AtMostAsDemanding

\* What a captured chain is like: every profile names the next one, none twice, and
\* none asks for more than the one before it.
Captured(chain) ==
    /\ Len(chain) \in Nat \ {0}
    /\ DOMAIN chain = 1 .. Len(chain)
    /\ \A i, k \in 1 .. Len(chain) : chain[i].name = chain[k].name => i = k
    /\ \A k \in 1 .. Len(chain) :
          /\ chain[k].profile.fallback = IF k < Len(chain) THEN chain[k + 1].name ELSE NoProfile
          /\ Figures(chain[k].profile) \subseteq Nat
          /\ k < Len(chain) => AtMostAsDemanding(chain[k + 1].profile, chain[k].profile)

LEMMA ChainCaptured ==
    ASSUME NEW size \in Nat, NEW profiles, Configuration(profiles, size),
           ValidGraph(profiles, size), NEW name \in DOMAIN profiles
    PROVE  Captured(FallbackChain(profiles, name, size))
  <1> DEFINE step == Walk(profiles, name, size)
  <1> DEFINE chain == FallbackChain(profiles, name, size)
  <1>1. PICK n \in 1 .. size : /\ \A k \in 0 .. n - 1 : step[k] \in DOMAIN profiles
                               /\ \A k \in n .. size : step[k] = NoProfile
    BY WalkEnds
  <1>2. \A k \in 1 .. size : step[k] = After(profiles, step[k - 1])
    BY WalkSteps DEF IsWalk
  <1>3. \A i, k \in 0 .. size : i < k /\ step[i] = step[k] => step[k] = NoProfile
    BY DEF ValidGraph, Acyclic
  <1>4. NoProfile \notin DOMAIN profiles
    BY DEF Configuration
  <1> HIDE DEF step
  <1>5. {k \in 1 .. size : step[k - 1] # NoProfile} = 1 .. n
    BY <1>1, <1>4
  <1>6. chain = [k \in 1 .. n |-> [name |-> step[k - 1], profile |-> profiles[step[k - 1]]]]
    BY <1>5 DEF FallbackChain, step
  <1> HIDE DEF chain
  <1>7. Len(chain) = n /\ DOMAIN chain = 1 .. n
    BY <1>6
  <1>8. \A k \in 1 .. n : /\ chain[k].name = step[k - 1]
                          /\ chain[k].profile = profiles[step[k - 1]]
                          /\ step[k - 1] \in DOMAIN profiles
    BY <1>1, <1>6
  <1>9. ASSUME NEW i \in 1 .. n, NEW k \in 1 .. n, chain[i].name = chain[k].name PROVE i = k
    BY <1>3, <1>4, <1>8, <1>9
  <1>10. ASSUME NEW k \in 1 .. n
         PROVE  chain[k].profile.fallback = IF k < n THEN chain[k + 1].name ELSE NoProfile
    <2>1. step[k] = profiles[step[k - 1]].fallback
      BY <1>2, <1>8 DEF After
    <2> QED BY <1>1, <1>8, <2>1
  <1>11. ASSUME NEW k \in 1 .. n
         PROVE  Figures(chain[k].profile) \subseteq Nat
    BY <1>8 DEF Configuration
  <1>12. ASSUME NEW k \in 1 .. n, k < n
         PROVE  AtMostAsDemanding(chain[k + 1].profile, chain[k].profile)
    <2>1. /\ step[k - 1] \in DOMAIN profiles /\ step[k] \in DOMAIN profiles
          /\ step[k] = profiles[step[k - 1]].fallback
      BY <1>1, <1>2, <1>8, <1>12 DEF After
    <2>2. AtMostAsDemanding(profiles[step[k]], profiles[step[k - 1]])
      BY <1>4, <2>1 DEF ValidGraph, Fallbacks
    <2> QED BY <1>8, <1>12, <2>2
  <1>13. Captured(chain)
    BY <1>7, <1>9, <1>10, <1>11, <1>12 DEF Captured
  <1> QED BY <1>13 DEF chain

\* Whatever valid configuration a snapshot is taken from, the worker accepts it when
\* it loads the job (resolve, validate_snapshot).
THEOREM ResolvedSnapshotLoads ==
    ASSUME NEW size \in Nat, NEW profiles, Configuration(profiles, size),
           ValidGraph(profiles, size), NEW name \in DOMAIN profiles
    PROVE  ValidSnapshot(Resolve(profiles, name, size))
  BY ChainCaptured DEF Resolve, ValidSnapshot, Captured

\* No profile asks for more than any one before it in its chain: the fallbacks of a
\* valid configuration descend all the way.
THEOREM ChainDescends ==
    ASSUME NEW size \in Nat, NEW profiles, Configuration(profiles, size),
           ValidGraph(profiles, size), NEW name \in DOMAIN profiles,
           NEW chain, chain = FallbackChain(profiles, name, size),
           NEW i \in 1 .. Len(chain), NEW k \in 1 .. Len(chain), i <= k
    PROVE  AtMostAsDemanding(chain[k].profile, chain[i].profile)
  <1>1. Captured(chain)
    BY ChainCaptured
  <1> DEFINE Rising == {m \in i .. Len(chain) :
                           ~ AtMostAsDemanding(chain[m].profile, chain[i].profile)}
  <1> SUFFICES ASSUME Rising # {} PROVE FALSE
    OBVIOUS
  <1>2. PICK m \in Rising : \A l \in Rising : m <= l
    <2>1. Rising \subseteq Nat
      BY <1>1 DEF Captured
    <2> HIDE DEF Rising
    <2> QED BY <2>1, LeastNatural
  <1>3. Len(chain) \in Nat /\ m \in i .. Len(chain)
    BY <1>1, <1>2 DEF Captured
  <1>4. \A l \in 1 .. Len(chain) : Figures(chain[l].profile) \subseteq Nat
    BY <1>1 DEF Captured
  <1>5. m # i
    BY <1>2, <1>4, DemandingOrder
  <1>6. m - 1 \in i .. Len(chain) /\ m - 1 \notin Rising
    BY <1>2, <1>3, <1>5
  <1>7. AtMostAsDemanding(chain[m].profile, chain[m - 1].profile)
    BY <1>1, <1>3, <1>6 DEF Captured
  <1>8. m \in 1 .. Len(chain) /\ m - 1 \in 1 .. Len(chain)
    BY <1>3, <1>6
  <1>9. AtMostAsDemanding(chain[m].profile, chain[i].profile)
    <2> DEFINE first == chain[i].profile
               before == chain[m - 1].profile
               last == chain[m].profile
    <2>1. AtMostAsDemanding(last, before) /\ AtMostAsDemanding(before, first)
      BY <1>6, <1>7
    <2>2. Figures(last) \subseteq Nat /\ Figures(before) \subseteq Nat /\ Figures(first) \subseteq Nat
      BY <1>4, <1>8
    <2> HIDE DEF Rising, first, before, last
    <2>3. AtMostAsDemanding(last, first)
      BY <2>1, <2>2, DemandingOrder
    <2> QED BY <2>3 DEF first, last
  <1> QED BY <1>2, <1>9

-----------------------------------------------------------------------------
(* The timeline *)

\* film and timeline are what Assembled and Elapsed recur to, for N shots.
IsAssembled(film, N) ==
    film = [n \in 1 .. N |-> IF n = 1 THEN Clip(shots[1])
                             ELSE film[n - 1] + Clip(shots[n]) - Applied(shots[n], film[n - 1])]

IsElapsed(timeline, N) ==
    timeline = [n \in 0 .. N |-> IF n = 0 THEN 0
                                 ELSE timeline[n - 1] + shots[n].duration - TimelineOverlap(n)]

LEMMA AssembledExists ==
    ASSUME NEW N \in Nat
    PROVE  \E film : IsAssembled(film, N)
  <1> DEFINE Missing == {n \in Nat : ~ \E film : IsAssembled(film, n)}
  <1> SUFFICES ASSUME Missing # {} PROVE FALSE
    OBVIOUS
  <1>1. PICK n \in Missing : \A m \in Missing : n <= m
    BY LeastNatural
  <1>2. n # 0
    <2>1. IsAssembled([k \in 1 .. 0 |-> 0], 0)
      BY DEF IsAssembled
    <2> QED BY <1>1, <2>1
  <1>3. PICK film : IsAssembled(film, n - 1)
    BY <1>1, <1>2
  <1> DEFINE next == IF n = 1 THEN Clip(shots[1])
                     ELSE film[n - 1] + Clip(shots[n]) - Applied(shots[n], film[n - 1])
             longer == [k \in 1 .. n |-> IF k = n THEN next ELSE film[k]]
  <1>4. IsAssembled(longer, n)
    <2>1. ASSUME NEW k \in 1 .. n
          PROVE  longer[k] = IF k = 1 THEN Clip(shots[1])
                             ELSE longer[k - 1] + Clip(shots[k]) - Applied(shots[k], longer[k - 1])
      BY <1>2, <1>3 DEF IsAssembled
    <2> HIDE DEF longer
    <2>2. longer = [k \in 1 .. n |-> longer[k]]
      BY DEF longer
    <2> QED BY <2>1, <2>2 DEF IsAssembled
  <1> QED BY <1>1, <1>4

LEMMA ElapsedExists ==
    ASSUME NEW N \in Nat
    PROVE  \E timeline : IsElapsed(timeline, N)
  <1> DEFINE Missing == {n \in Nat : ~ \E timeline : IsElapsed(timeline, n)}
  <1> SUFFICES ASSUME Missing # {} PROVE FALSE
    OBVIOUS
  <1>1. PICK n \in Missing : \A m \in Missing : n <= m
    BY LeastNatural
  <1>2. n # 0
    <2>1. IsElapsed([k \in 0 .. 0 |-> 0], 0)
      BY DEF IsElapsed
    <2> QED BY <1>1, <2>1
  <1>3. PICK timeline : IsElapsed(timeline, n - 1)
    BY <1>1, <1>2
  <1> DEFINE next == timeline[n - 1] + shots[n].duration - TimelineOverlap(n)
             longer == [k \in 0 .. n |-> IF k = n THEN next ELSE timeline[k]]
  <1>4. IsElapsed(longer, n)
    <2>1. ASSUME NEW k \in 0 .. n
          PROVE  longer[k] = IF k = 0 THEN 0
                             ELSE longer[k - 1] + shots[k].duration - TimelineOverlap(k)
      BY <1>2, <1>3 DEF IsElapsed
    <2> HIDE DEF longer
    <2>2. longer = [k \in 0 .. n |-> longer[k]]
      BY DEF longer
    <2> QED BY <2>1, <2>2 DEF IsElapsed
  <1> QED BY <1>1, <1>4

\* The two computations satisfy the equations that define them.
LEMMA TimelineSteps ==
    ASSUME Len(shots) \in Nat
    PROVE  IsAssembled(Assembled, Len(shots)) /\ IsElapsed(Elapsed, Len(shots))
  <1>1. Assembled = CHOOSE film : IsAssembled(film, Len(shots))
    BY DEF Assembled, IsAssembled
  <1>2. Elapsed = CHOOSE timeline : IsElapsed(timeline, Len(shots))
    BY DEF Elapsed, IsElapsed
  <1> QED BY <1>1, <1>2, AssembledExists, ElapsedExists

\* A transition takes no negative time, and a film begins where its first shot does.
LEMMA ConfiguredOverlaps ==
    ASSUME TimelineAssumption, TimelineInit
    PROVE  /\ Len(shots) \in Nat /\ DOMAIN shots = 1 .. Len(shots)
           /\ \A n \in 1 .. Len(shots) :
                 /\ shots[n] \in TimedShot
                 /\ Configured(shots[n]) \in Nat /\ TimelineOverlap(n) \in Nat
                 /\ n = 1 => TimelineOverlap(n) = 0
                 /\ n # 1 => TimelineOverlap(n) = Configured(shots[n])
                 /\ shots[n].transition = "hard_cut" => Configured(shots[n]) = 0
  <1>1. shots \in Seq(TimedShot)
    BY DEF TimelineAssumption, TimelineInit
  <1>2. ASSUME NEW n \in 1 .. Len(shots) PROVE Configured(shots[n]) \in Nat
    <2>1. /\ shots[n].transition \in {"crossfade", "shared_frame", "hard_cut"}
          /\ shots[n].overlap \in Nat
      <3>1. shots[n] \in TimedShot
        BY <1>1
      <3> QED BY <3>1 DEF TimedShot
    <2>2. Larger(FrameTime, shots[n].overlap) \in Nat
      BY <2>1 DEF Larger, FrameTime
    <2> QED BY <2>1, <2>2 DEF Configured
  <1>3. ASSUME NEW n \in 1 .. Len(shots), shots[n].transition = "hard_cut"
        PROVE  Configured(shots[n]) = 0
    BY <1>3 DEF Configured
  <1>4. ASSUME NEW n \in 1 .. Len(shots)
        PROVE  /\ shots[n] \in TimedShot
               /\ TimelineOverlap(n) = IF n = 1 THEN 0 ELSE Configured(shots[n])
    BY <1>1 DEF TimelineOverlap
  <1>5. Len(shots) \in Nat /\ DOMAIN shots = 1 .. Len(shots)
    BY <1>1
  <1> QED BY <1>2, <1>3, <1>4, <1>5

\* Where the transitions fit, the film is as long as the subtitles take it to be,
\* after every shot.
LEMMA SameLength ==
    ASSUME TimelineAssumption, TimelineInit, Fits, NEW n \in 1 .. Len(shots)
    PROVE  Assembled[n] = Elapsed[n] /\ Elapsed[n] \in Int /\ Elapsed[n - 1] \in Int
  <1> DEFINE N == Len(shots)
  <1>1. N \in Nat
    BY ConfiguredOverlaps
  <1>2. \A k \in 1 .. N :
           Assembled[k] = IF k = 1 THEN Clip(shots[1])
                          ELSE Assembled[k - 1] + Clip(shots[k]) - Applied(shots[k], Assembled[k - 1])
    BY <1>1, TimelineSteps DEF IsAssembled
  <1>3. /\ Elapsed[0] = 0
        /\ \A k \in 1 .. N : Elapsed[k] = Elapsed[k - 1] + shots[k].duration - TimelineOverlap(k)
    BY <1>1, TimelineSteps DEF IsElapsed
  <1>4. \A k \in 1 .. N : shots[k].duration \in Nat /\ TimelineOverlap(k) \in Nat
    BY ConfiguredOverlaps DEF TimedShot
  <1> DEFINE Untyped == {k \in 0 .. N : Elapsed[k] \notin Int}
  <1>5. Untyped = {}
    <2> SUFFICES ASSUME Untyped # {} PROVE FALSE
      OBVIOUS
    <2>1. PICK k \in Untyped : \A m \in Untyped : k <= m
      <3>1. Untyped \subseteq Nat
        OBVIOUS
      <3> HIDE DEF Untyped
      <3> QED BY <3>1, LeastNatural
    <2>2. k \in 1 .. N /\ k - 1 \notin Untyped
      BY <1>1, <1>3, <2>1
    <2>3. Elapsed[k - 1] \in Int
      BY <1>1, <2>2
    <2>4. shots[k].duration \in Int /\ TimelineOverlap(k) \in Int
      BY <1>4, <2>2
    <2>5. Elapsed[k] = Elapsed[k - 1] + shots[k].duration - TimelineOverlap(k)
      BY <1>3, <2>2
    <2>6. Elapsed[k] \in Int
      <3>1. \A a, b, c \in Int : a + b - c \in Int
        OBVIOUS
      <3> QED BY <2>3, <2>4, <2>5, <3>1
    <2> QED BY <2>1, <2>6
  <1> DEFINE Apart == {k \in 1 .. N : Assembled[k] # Elapsed[k]}
  <1>6. Apart = {}
    <2> SUFFICES ASSUME Apart # {} PROVE FALSE
      OBVIOUS
    <2>1. PICK k \in Apart : \A m \in Apart : k <= m
      <3>1. Apart \subseteq Nat
        OBVIOUS
      <3> HIDE DEF Apart
      <3> QED BY <3>1, LeastNatural
    <2>2. k \in 1 .. N /\ Clip(shots[k]) = shots[k].duration
      BY DEF Fits
    <2>3. CASE k = 1
      <3>1. Elapsed[1] = shots[1].duration
        BY <1>3, <1>4, <2>2, <2>3, ConfiguredOverlaps
      <3> QED BY <1>2, <2>1, <2>2, <2>3, <3>1
    <2>4. CASE k # 1
      <3>1. Assembled[k - 1] = Elapsed[k - 1]
        BY <1>1, <2>1, <2>2, <2>4
      <3>2. Applied(shots[k], Assembled[k - 1]) = Configured(shots[k])
        BY <2>2, <2>4 DEF Fits
      <3>3. Configured(shots[k]) = TimelineOverlap(k)
        BY <2>2, <2>4, ConfiguredOverlaps
      <3> QED BY <1>2, <1>3, <2>1, <2>2, <2>4, <3>1, <3>2, <3>3
    <2> QED BY <2>3, <2>4
  <1>7. n \in 0 .. N /\ n - 1 \in 0 .. N
    BY <1>1
  <1> QED BY <1>5, <1>6, <1>7

\* Where every transition fits, the subtitles of a shot are shown while its clip is,
\* in films of any number of shots (assemble_with_transitions, _subtitle_entries).
THEOREM SubtitlesAgree ==
    ASSUME TimelineAssumption
    PROVE  TimelineSpec => []SubtitlesFollowClips
  <1>1. ASSUME TimelineInit, Fits, NEW n \in 1 .. Len(shots)
        PROVE  ShotStart(n) = Begins(n) /\ Entry(n).to <= Assembled[n] - Pad
    <2> DEFINE dur == shots[n].duration
               over == TimelineOverlap(n)
               crossfade == shots[n].transition = "crossfade"
    <2>1. Elapsed[n] = Elapsed[n - 1] + dur - over /\ Elapsed[0] = 0
      BY <1>1, TimelineSteps, ConfiguredOverlaps DEF IsElapsed
    <2>2. dur \in Nat /\ over \in Nat /\ (n = 1 => over = 0) /\ (n # 1 => over = Configured(shots[n]))
      BY <1>1, ConfiguredOverlaps DEF TimedShot
    <2>3. /\ Assembled[n] = Elapsed[n] /\ Elapsed[n] \in Int /\ Elapsed[n - 1] \in Int
          /\ n # 1 => Assembled[n - 1] = Elapsed[n - 1]
      <3>1. n # 1 => n - 1 \in 1 .. Len(shots)
        BY ConfiguredOverlaps, <1>1
      <3> QED BY <1>1, <3>1, SameLength
    <2>4. n # 1 => Applied(shots[n], Assembled[n - 1]) = over
      BY <1>1, <2>2 DEF Fits
    <2>5. ShotStart(n) = Elapsed[n - 1] - (IF crossfade THEN over ELSE 0)
      BY DEF ShotStart
    <2>6. Begins(n) = IF n = 1 THEN 0 ELSE IF crossfade THEN Elapsed[n - 1] - over ELSE Elapsed[n - 1]
      BY <2>3, <2>4 DEF Begins
    <2>7. ShotStart(n) \in Int /\ ShotStart(n) <= Elapsed[n - 1]
      BY <2>2, <2>3, <2>5
    <2>8. Entry(n).to = ShotStart(n) + dur - over - Pad
      BY DEF Entry
    <2> HIDE DEF dur, over, crossfade
    <2>9. ShotStart(n) = Begins(n)
      BY <2>1, <2>2, <2>3, <2>5, <2>6
    <2>10. Entry(n).to <= Assembled[n] - Pad
      BY <2>1, <2>2, <2>3, <2>7, <2>8 DEF TimelineAssumption
    <2> QED BY <2>9, <2>10
  <1>2. TimelineInit => SubtitlesFollowClips
    BY <1>1 DEF SubtitlesFollowClips
  <1>3. TimelineInit /\ [UNCHANGED shots]_shots => TimelineInit'
    BY DEF TimelineInit
  <1> QED BY <1>2, <1>3, PTL DEF TimelineSpec

\* Every shot is as long as a clip must be, and twice as long as the transition on
\* either of its ends is.
Roomy ==
    \A n \in 1 .. Len(shots) :
        /\ 2 * FrameTime <= shots[n].duration
        /\ n # 1 => /\ 2 * Configured(shots[n]) <= shots[n].duration
                    /\ 2 * Configured(shots[n]) <= shots[n - 1].duration

\* A transition with room on both sides is applied as it is configured.
LEMMA AppliedInFull ==
    ASSUME NEW shot \in TimedShot, NEW film \in Int, Configured(shot) \in Nat,
           2 * Configured(shot) <= shot.duration, 2 * Configured(shot) <= film
    PROVE  Applied(shot, film) = Configured(shot)
  <1>1. shot.duration \in Nat
    BY DEF TimedShot
  <1>2. Clip(shot) \in Nat /\ shot.duration <= Clip(shot)
    BY <1>1 DEF Clip, Larger, FrameTime
  <1>3. \A a \in Nat, b \in Int : 2 * a <= b => a <= b \div 2 /\ b \div 2 \in Int
    OBVIOUS
  <1>4. /\ Configured(shot) <= Clip(shot) \div 2 /\ Clip(shot) \div 2 \in Int
        /\ Configured(shot) <= film \div 2 /\ film \div 2 \in Int
    BY <1>1, <1>2, <1>3
  <1>5. \A a, b, c \in Int : a <= b /\ a <= c => Smaller(a, Smaller(b, c)) = a
    BY DEF Smaller
  <1> QED BY <1>4, <1>5 DEF Applied

\* Then the film never gets shorter than its last clip, whatever the transitions take.
LEMMA FilmHoldsClip ==
    ASSUME TimelineAssumption, TimelineInit, Roomy, NEW n \in 1 .. Len(shots)
    PROVE  Assembled[n] \in Int /\ shots[n].duration <= Assembled[n]
  <1> DEFINE N == Len(shots)
             Short == {k \in 1 .. N : ~ (Assembled[k] \in Int /\ shots[k].duration <= Assembled[k])}
  <1> SUFFICES ASSUME Short # {} PROVE FALSE
    OBVIOUS
  <1>1. N \in Nat
    BY ConfiguredOverlaps
  <1>2. PICK k \in Short : \A m \in Short : k <= m
    <2>1. Short \subseteq Nat
      OBVIOUS
    <2> HIDE DEF Short
    <2> QED BY <2>1, LeastNatural
  <1>3. k \in 1 .. N /\ shots[k] \in TimedShot /\ shots[k].duration \in Nat
    BY ConfiguredOverlaps DEF TimedShot
  <1>4. Clip(shots[k]) = shots[k].duration
    <2>1. 2 * FrameTime <= shots[k].duration
      BY <1>3 DEF Roomy
    <2> QED BY <1>3, <2>1 DEF Clip, Larger, FrameTime
  <1>5. Assembled[k] = IF k = 1 THEN Clip(shots[1])
                       ELSE Assembled[k - 1] + Clip(shots[k]) - Applied(shots[k], Assembled[k - 1])
    BY <1>1, <1>3, TimelineSteps DEF IsAssembled
  <1>6. k # 1
    BY <1>2, <1>3, <1>4, <1>5
  <1> DEFINE film == Assembled[k - 1]
             over == Configured(shots[k])
  <1>7. k - 1 \in 1 .. N /\ shots[k - 1].duration \in Nat
    <2>1. k - 1 \in 1 .. N
      BY <1>1, <1>3, <1>6
    <2>2. shots[k - 1] \in TimedShot
      BY <2>1, ConfiguredOverlaps
    <2> QED BY <2>1, <2>2 DEF TimedShot
  <1>8. film \in Int /\ shots[k - 1].duration <= film
    BY <1>1, <1>2, <1>6, <1>7
  <1>9. /\ over \in Nat /\ 2 * over <= shots[k].duration /\ 2 * over <= shots[k - 1].duration
    BY <1>3, <1>6, ConfiguredOverlaps DEF Roomy
  <1>10. 2 * over <= film
    BY <1>7, <1>8, <1>9
  <1>11. Applied(shots[k], film) = over
    BY <1>3, <1>8, <1>9, <1>10, AppliedInFull
  <1>12. Assembled[k] = film + shots[k].duration - over
    BY <1>4, <1>5, <1>6, <1>11
  <1>13. \A a \in Nat, b \in Int, c \in Nat : 2 * a <= b => b + c - a \in Int /\ c <= b + c - a
    OBVIOUS
  <1>14. Assembled[k] \in Int /\ shots[k].duration <= Assembled[k]
    BY <1>3, <1>8, <1>9, <1>10, <1>12, <1>13
  <1> QED BY <1>2, <1>14

\* What the subtitles rest on can be read off the shots: it is enough that no
\* transition is longer than half of the shots it joins.
THEOREM RoomSuffices ==
    ASSUME TimelineAssumption, TimelineInit, Roomy
    PROVE  Fits
  <1> SUFFICES ASSUME NEW n \in 1 .. Len(shots)
               PROVE  /\ Clip(shots[n]) = shots[n].duration
                      /\ n > 1 => /\ Applied(shots[n], Assembled[n - 1]) = Configured(shots[n])
                                  /\ Configured(shots[n]) <= shots[n].duration
    BY DEF Fits
  <1>1. shots[n] \in TimedShot /\ shots[n].duration \in Nat /\ Configured(shots[n]) \in Nat
    BY ConfiguredOverlaps DEF TimedShot
  <1>2. Clip(shots[n]) = shots[n].duration
    <2>1. 2 * FrameTime <= shots[n].duration
      BY DEF Roomy
    <2> QED BY <1>1, <2>1 DEF Clip, Larger, FrameTime
  <1>3. ASSUME n > 1
        PROVE  /\ Applied(shots[n], Assembled[n - 1]) = Configured(shots[n])
               /\ Configured(shots[n]) <= shots[n].duration
    <2>1. n - 1 \in 1 .. Len(shots) /\ shots[n - 1].duration \in Nat
      BY <1>3, ConfiguredOverlaps DEF TimedShot
    <2>2. /\ 2 * Configured(shots[n]) <= shots[n].duration
          /\ 2 * Configured(shots[n]) <= shots[n - 1].duration
      BY <1>3 DEF Roomy
    <2>3. Assembled[n - 1] \in Int /\ shots[n - 1].duration <= Assembled[n - 1]
      BY <2>1, FilmHoldsClip
    <2>4. 2 * Configured(shots[n]) <= Assembled[n - 1]
      BY <1>1, <2>1, <2>2, <2>3
    <2>5. Applied(shots[n], Assembled[n - 1]) = Configured(shots[n])
      BY <1>1, <2>2, <2>3, <2>4, AppliedInFull
    <2> QED BY <1>1, <2>2, <2>5
  <1> QED BY <1>2, <1>3
=============================================================================
