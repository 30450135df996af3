----------------------------- MODULE MCResearch -----------------------------
(* Research for TLC: few trials, rows, lattices and records, chosen so that a  *)
(* study is resumed half-way, windows are shorter than the embargo, local    *)
(* spaces meet the ends of the base, and dips begin, end and stay.           *)
EXTENDS Research

Reported(trades, return, sharpe, dd) ==
    [trades |-> trades, return |-> return, factor |-> 1, win |-> 50,
     sharpe |-> sharpe, sortino |-> 0, dd |-> dd]

\* A good trial, one that lost everything, one with too few trades, one with none.
Good == Reported(200, 20, 15, 10)
Ruined == Reported(200, -100, -10, 100)
Few == Reported(40, 50, 30, 5)
None == Reported(0, 0, 0, 0)

SomeMetrics == {Good, Ruined, Few}
FinalGates == Scorer(120)
SomeScores == {Error, 10000}

\* Repeated values, in and out of order; two or three chunks.
SomeGrids == {[first |-> <<1, 2, 1>>, second |-> <<1, 2>>], [first |-> <<1, 1, 2>>, second |-> <<3>>],
              [first |-> <<1>>, second |-> <<1, 2, 2, 3, 1>>]}

\* Every small plan alone, and four that follow one another on one storage file:
\* more or fewer windows, another mode, more rows.
Stored(rows, number, mode) ==
    [rows |-> rows, windows |-> number, anchored |-> mode, train |-> 5, embargo |-> 1,
     chain |-> FALSE, stored |-> TRUE]
SomePlans ==
    [rows : 2..13, windows : {2, 3}, anchored : BOOLEAN, train : {5, 7},
     embargo : {0, 1, 3}, chain : BOOLEAN, stored : {FALSE}]
    \cup {Stored(6, 2, TRUE), Stored(9, 2, TRUE), Stored(8, 2, FALSE), Stored(8, 3, TRUE)}

\* Lattices whose ends are and are not a multiple of the step apart.
SomeBases == {[low |-> 10, high |-> 30, step |-> 10], [low |-> 5, high |-> 24, step |-> 7],
              [low |-> 0, high |-> 3, step |-> 2]}
SomeSplits == {[core |-> 2, adaptive |-> 1], [core |-> 2, adaptive |-> 0],
               [core |-> 0, adaptive |-> 1]}
\* The weights of the program, and the gates its defaults give for 120 trades.
HybridScorer(minTrades) == [Scorer(minTrades) EXCEPT !.drawdown = 3, !.bonus = 1]
ThreeScorers == <<HybridScorer(40), HybridScorer(60), HybridScorer(120)>>
HybridReports == {Good, Ruined, None}

\* An account below zero too.
SomeEquities == {-1, 1, 2, 3}
=============================================================================
