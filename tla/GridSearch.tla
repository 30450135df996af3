----------------------------- MODULE GridSearch -----------------------------
(* GridSearch with its thread pool: the combinations go to the pool a chunk  *)
(* at a time and end in any order.                                           *)
EXTENDS Scoring, FiniteSets

CONSTANTS
    Grids,          \* two lists of values, which may repeat one
    ChunkSize,      \* chunk_size
    TrialMetrics,   \* what a backtest may report
    Gates           \* the ScorerConfig

ASSUME ChunkAssumption == ChunkSize \in Nat \ {0}
ASSUME MetricsAssumption == TrialMetrics \subseteq Metrics /\ Gates \in ScorerConfig

Values(list) == {list[i] : i \in DOMAIN list}
ASSUME GridsAssumption ==
    \A g \in Grids : g.first \in Seq(Values(g.first)) /\ g.second \in Seq(Values(g.second))

VARIABLES
    grid,       \* the two lists
    next,       \* the first combination not yet submitted
    submitted,  \* combinations in the pool
    results,    \* self.results
    failed      \* self.failed_params

gridVars == <<grid, next, submitted, results, failed>>

\* itertools.product
Product(g) ==
    [k \in 1..Len(g.first) * Len(g.second) |->
        <<g.first[(k - 1) \div Len(g.second) + 1], g.second[((k - 1) % Len(g.second)) + 1]>>]

\* _dedup_combinations.  Mutant: neighbours alone are compared.
Unlike(s, k) == k = 1 \/ s[k - 1] # s[k]
Unseen(s, k) == \A j \in 1..k - 1 : s[j] # s[k]
Combinations(g) ==
    LET all == Product(g) IN Kept(all, {k \in DOMAIN all : Unseen(all, k)})

NoGrid == [first |-> <<>>, second |-> <<>>]
InitGrid ==
    /\ grid = NoGrid
    /\ next = 1
    /\ submitted = {}
    /\ results = <<>>
    /\ failed = <<>>

StartGrid ==
    /\ grid = NoGrid
    /\ grid' \in Grids
    /\ UNCHANGED <<next, submitted, results, failed>>

\* The last combination of the chunk that begins at k.
ChunkEnd(k) == IF k + ChunkSize - 1 < Len(Combinations(grid)) THEN k + ChunkSize - 1
                                                            ELSE Len(Combinations(grid))

\* _run_parallel: the next chunk when all of the last has ended.
Submit ==
    /\ submitted = {}
    /\ next <= Len(Combinations(grid))
    /\ submitted' = {Combinations(grid)[k] : k \in next..ChunkEnd(next)}
    /\ next' = ChunkEnd(next) + 1
    /\ UNCHANGED <<grid, results, failed>>

\* A future has ended, with a result or an exception.
Complete(params, m) ==
    /\ params \in submitted
    /\ submitted' = submitted \ {params}
    /\ results' = Append(results, [params |-> params, metrics |-> m, score |-> Score(m, Gates)])
    /\ UNCHANGED <<grid, next, failed>>

Fail(params) ==
    /\ params \in submitted
    /\ submitted' = submitted \ {params}
    /\ failed' = Append(failed, params)
    /\ UNCHANGED <<grid, next, results>>

\* _sort_results, and best_params.
Sorted == grid # NoGrid /\ submitted = {} /\ next > Len(Combinations(grid))
Ranking == Ranked(results)

NextGrid ==
    \/ StartGrid
    \/ Submit
    \/ \E params \in submitted : Fail(params) \/ \E m \in TrialMetrics : Complete(params, m)
-----------------------------------------------------------------------------
(* Properties.                                                             *)

\* When the search ends every combination was tried once, it is in the results
\* or in the failures, and the best is a trial that passed the gates if any did:
\* no refused trial outranks a valid one, down to a return of -100 %.  (Weights or
\* returns that put a valid trial below INVALID_SCORE would break this.)
Tried(params) == Cardinality({i \in DOMAIN results : results[i].params = params})
                 + Cardinality({i \in DOMAIN failed : failed[i] = params})
EachTriedOnce ==
    Sorted =>
        /\ \A a \in Values(grid.first), b \in Values(grid.second) : Tried(<<a, b>>) = 1
        /\ results # <<>> =>
               \/ Passes(Ranking[1].metrics, Gates)
               \/ \A i \in DOMAIN results : ~Passes(results[i].metrics, Gates)
=============================================================================
