--------------------------- MODULE RenderProfiles ---------------------------
(***************************************************************************)
(* Render profiles, their fallback chains and the execution snapshot a job *)
(* carries in its payload (config/render_profiles.py).  A configuration    *)
(* maps profile names to profiles; codecs are left out.                    *)
(***************************************************************************)
EXTENDS Naturals, Sequences, FiniteSets

CONSTANT NoProfile  \* fallback_profile is None

Figures(profile) == {profile.width, profile.height, profile.fps}

\* What the schema of the file asks of a configuration of at most size profiles.
Configuration(profiles, size) ==
    /\ IsFiniteSet(DOMAIN profiles)
    /\ Cardinality(DOMAIN profiles) <= size
    /\ NoProfile \notin DOMAIN profiles
    /\ \A n \in DOMAIN profiles : Figures(profiles[n]) \subseteq Nat

\* fallback is no more demanding than profile, in any of the three figures.
AtMostAsDemanding(fallback, profile) ==
    /\ fallback.width <= profile.width
    /\ fallback.height <= profile.height
    /\ fallback.fps <= profile.fps

\* Where the walk from a name along the fallbacks stands after k steps.
Walk(profiles, name, length) ==
    LET step[k \in 0 .. length] ==
          IF k = 0 THEN name
          ELSE IF step[k - 1] \in DOMAIN profiles THEN profiles[step[k - 1]].fallback
          ELSE NoProfile
    IN step

Fallbacks(profiles) == {n \in DOMAIN profiles : profiles[n].fallback # NoProfile}

\* As many steps as there are profiles, given as a bound by the caller.
Acyclic(profiles, size) ==
    \A name \in DOMAIN profiles :
        LET step == Walk(profiles, name, size)
        IN \A i, k \in 0 .. size : i < k /\ step[i] = step[k] => step[k] = NoProfile

\* validate_profile_graph
ValidGraph(profiles, size) ==
    /\ \A n \in Fallbacks(profiles) :
          /\ profiles[n].fallback \in DOMAIN profiles
          /\ AtMostAsDemanding(profiles[profiles[n].fallback], profiles[n])
    /\ Acyclic(profiles, size)

\* fallback_chain of a valid configuration, with the profiles captured: the
\* names before the walk ends, which a valid configuration never resumes.
FallbackChain(profiles, name, size) ==
    LET step    == Walk(profiles, name, size)
        visited == {k \in 1 .. size : step[k - 1] # NoProfile}
    IN [k \in visited |-> [name |-> step[k - 1], profile |-> profiles[step[k - 1]]]]

\* RenderProfileExecution.resolve; effective is the place of effective_profile
\* in the chain, history the fallback records.
Resolve(profiles, name, size) ==
    [chain |-> FallbackChain(profiles, name, size), effective |-> 1, history |-> <<>>]

Effective(execution)   == execution.chain[execution.effective]
HasFallback(execution) == execution.effective < Len(execution.chain)

\* Faulty variant: it jumps to the end of the chain.
Advance_ToLast(execution, job_attempt) ==
    LET target == Len(execution.chain) IN
    [execution EXCEPT
        !.effective = target,
        !.history = Append(@, [from |-> Effective(execution).name,
                               to |-> execution.chain[target].name,
                               attempt |-> job_attempt])]

\* The fallback record of execute_with_oom_fallback and advance.
Advance(execution, job_attempt) ==
    LET target == execution.effective + 1 IN
    [execution EXCEPT
        !.effective = target,
        !.history = Append(@, [from |-> Effective(execution).name,
                               to |-> execution.chain[target].name,
                               attempt |-> job_attempt])]

\* validate_snapshot, run on every snapshot read from a payload.
ValidSnapshot(execution) ==
    LET chain == execution.chain IN
    /\ execution.effective \in 1 .. Len(chain)
    /\ \A i, k \in 1 .. Len(chain) : chain[i].name = chain[k].name => i = k
    /\ Len(execution.history) = execution.effective - 1
    /\ \A k \in 1 .. Len(chain) :
          chain[k].profile.fallback = IF k < Len(chain) THEN chain[k + 1].name ELSE NoProfile
    /\ \A k \in 1 .. Len(execution.history) :
          /\ execution.history[k].from = chain[k].name
          /\ execution.history[k].to = chain[k + 1].name
=============================================================================
