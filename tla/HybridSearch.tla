---------------------------- MODULE HybridSearch ----------------------------
(***************************************************************************)
(* run_optimize_hybrid without a storage file: discovery in a core and an  *)
(* adaptive branch, refinement around the best seeds, a last polish, and   *)
(* the choice of the winner.  A parameter set is one integer parameter     *)
(* with a step and the adaptive flag.  Left out are the trials that raise:  *)
(* their results have ERROR_SCORE and the sampled values alone, without the *)
(* flag that a branch fixes; and the parameters that the core branch fixes  *)
(* at their defaults and its seeds carry into phase 2.                     *)
(***************************************************************************)
EXTENDS Scoring, FiniteSets, SequencesExt

CONSTANTS
    Bases,          \* the integer parameter of the space: low, high, step
    Splits,         \* trials of the core and of the adaptive branch of phase 1
    Radius,         \* local_radius and phase3_radius, in per cent
    BranchSeeds,    \* values of phase2_top_core and phase2_top_adaptive
    SeedCap,        \* phase2_seed_cap
    Scorers,        \* the ScorerConfigs of the three phases
    Reports         \* the metrics a parameter set may have

VARIABLES
    base,       \* the integer parameter
    truth,      \* the metrics of each parameter set that was tried
    core, adaptive, refined, polished,  \* results of the phases, best first
    seeds,      \* the seeds of phase 2, best first
    spaces,     \* the local spaces with their seeds, as they are searched
    phase

hybridVars == <<base, truth, core, adaptive, refined, polished, seeds, spaces, phase>>

Base == [low : Int, high : Int, step : Nat \ {0}]
ASSUME BasesAssumption == Bases \subseteq Base
ASSUME SearchAssumption ==
    /\ \A split \in Splits : /\ split.core \in Nat /\ split.adaptive \in Nat
                              /\ split.core + split.adaptive > 0
    /\ Radius \in Nat /\ BranchSeeds \subseteq Nat /\ SeedCap \in Nat \ {0}
    /\ Scorers \in [1..3 -> ScorerConfig] /\ Reports \subseteq Metrics

Lattice(s) == {x \in s.low..s.high : (x - s.low) % s.step = 0}
Params(s, flags) == [x : Lattice(s), adaptive : flags]

Smallest(a, b) == IF a < b THEN a ELSE b
Largest(a, b) == IF a > b THEN a ELSE b
Up(a, b) == -((-a) \div b)          \* ceil(a / b)

\* _make_local_space for an integer parameter.  Mutant: the bounds are not
\* brought back to the lattice of the base.
Span(b, center) == Largest(b.step, Up(Largest(center, -center) * Radius, 100))
UnsnappedSpace(b, center) ==
    [low |-> Largest(b.low, center - Span(b, center)),
     high |-> Smallest(b.high, center + Span(b, center)), step |-> b.step]
LocalSpace(b, center) ==
    LET low == Largest(b.low, center - Span(b, center))
        high == Smallest(b.high, center + Span(b, center))
        first == b.low + Up(low - b.low, b.step) * b.step
        last == b.low + ((high - b.low) \div b.step) * b.step
    IN IF first > last THEN [low |-> center, high |-> center, step |-> b.step]
                       ELSE [low |-> first, high |-> last, step |-> b.step]

\* A study of a phase: what it tried, ranked by that phase's gates.
Result(p, m, scorer) == [params |-> p, metrics |-> m, score |-> Score(m, scorer)]
Results(trials, known, scorer) == Ranked([i \in DOMAIN trials |->
    Result(trials[i], known[trials[i]], scorer)])
Known(trials) ==
    LET fresh == Range(trials) \ DOMAIN truth
    IN {[p \in DOMAIN truth \cup fresh |-> IF p \in fresh THEN f[p] ELSE truth[p]] :
            f \in [fresh -> Reports]}

NoBase == [low |-> 0, high |-> 0, step |-> 1]
InitHybrid ==
    /\ base = NoBase
    /\ truth = <<>>
    /\ core = <<>> /\ adaptive = <<>> /\ refined = <<>> /\ polished = <<>>
    /\ seeds = <<>>
    /\ spaces = <<>>
    /\ phase = "start"

StartHybrid ==
    /\ phase = "start"
    /\ base' \in Bases
    /\ phase' = "discovery"
    /\ UNCHANGED <<truth, core, adaptive, refined, polished, seeds, spaces>>

\* Phase 1.
Discover(split) ==
    \E a \in [1..split.core -> Params(base, {FALSE})], b \in [1..split.adaptive -> Params(base, {TRUE})] :
        \E known \in Known(a \o b) :
            /\ phase = "discovery"
            /\ truth' = known
            /\ core' = Results(a, known, Scorers[1])
            /\ adaptive' = Results(b, known, Scorers[1])
            /\ phase' = "seeds"
            /\ UNCHANGED <<base, refined, polished, seeds, spaces>>

\* _dedup_candidates and _pick_seed_candidates.
Deduplicated(s) ==
    Kept(s, {i \in DOMAIN s : \A j \in 1..i - 1 : s[j].params # s[i].params})
Top(s, n) == SubSeq(s, 1, Smallest(n, Len(s)))

PickSeeds(n) ==
    /\ phase = "seeds"
    /\ seeds' = Top(Ranked(Deduplicated(Top(core, n) \o Top(adaptive, n))), SeedCap)
    /\ phase' = "refinement"
    /\ UNCHANGED <<base, truth, core, adaptive, refined, polished, spaces>>

\* Phase 2, one seed after the other; the flag keeps the value of its seed.
Refine ==
    LET seed == seeds[Len(spaces) + 1]
        space == LocalSpace(base, seed.params.x)
    IN /\ phase = "refinement"
       /\ Len(spaces) < Len(seeds)
       /\ \E p \in Params(space, {seed.params.adaptive}) : \E known \in Known(<<p>>) :
              /\ truth' = known
              /\ refined' = refined \o Results(<<p>>, known, Scorers[2])
       /\ spaces' = Append(spaces, [space |-> space, seed |-> seed.params])
       /\ UNCHANGED <<base, core, adaptive, polished, seeds, phase>>

\* Phase 3, around the best of phase 2, or of phase 1 if that had no seeds.
Phase2Results == IF refined = <<>> THEN Top(Ranked(core \o adaptive), 1) ELSE Ranked(refined)
Polish ==
    LET seed == Phase2Results[1]
        space == LocalSpace(base, seed.params.x)
    IN /\ phase = "refinement"
       /\ Len(spaces) = Len(seeds)
       /\ \E p \in Params(space, {seed.params.adaptive}) : \E known \in Known(<<p>>) :
              /\ truth' = known
              /\ polished' = Results(<<p>>, known, Scorers[3])
       /\ refined' = Phase2Results
       /\ spaces' = Append(spaces, [space |-> space, seed |-> seed.params])
       /\ phase' = "selection"
       /\ UNCHANGED <<base, core, adaptive, seeds>>

\* The winner, without a target band: the best score of all phases, each under
\* its own gates.
Candidates == Ranked(polished \o refined \o core \o adaptive)
Winner == Candidates[1]

NextHybrid == \/ StartHybrid
              \/ \E split \in Splits : Discover(split)
              \/ \E n \in BranchSeeds : PickSeeds(n)
              \/ Refine \/ Polish
-----------------------------------------------------------------------------
(* Properties.                                                             *)

\* Each seed is searched once and in its own neighbourhood: a part of the base
\* space, on its lattice, that holds the seed and is never empty.  No candidate
\* that its own phase refused wins over one that any phase let through.
Around(s) == /\ s.seed.x \in Lattice(s.space)
             /\ Lattice(s.space) \subseteq Lattice(base)
             /\ s.space.high \in Lattice(s.space)
SearchedAroundSeeds ==
    /\ \A i \in DOMAIN spaces : Around(spaces[i])
    /\ \A i, j \in DOMAIN seeds : i # j => seeds[i].params # seeds[j].params
    /\ phase = "selection" /\ (\E i \in DOMAIN Candidates : Candidates[i].score > Invalid) =>
           \E k \in 1..3 : /\ Passes(Winner.metrics, Scorers[k])
                           /\ Winner.score = Score(Winner.metrics, Scorers[k])
=============================================================================
