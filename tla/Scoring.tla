------------------------------ MODULE Scoring -------------------------------
(* calculate_score and the ranking the searches share.  A score is in ten-   *)
(* thousandths; ratios and weights are in tenths, returns and drawdowns in   *)
(* per cent.                                                                 *)
EXTENDS Ordering

Invalid == -200000          \* INVALID_SCORE
Error == -1000000           \* ERROR_SCORE

\* The metrics of a backtest that count, and the gates and weights of a ScorerConfig.
Metrics == [trades : Nat, return : Int, factor : Int, win : Nat, sharpe : Int, sortino : Int,
            dd : Nat]
ScorerConfig == [minTrades : Nat, minReturn : Int, minFactor : Int, minWin : Int,
                 drawdown : Nat, turnover : Nat, bonus : Nat, cap : Nat]

\* ScorerConfig with its defaults, apart from the gate on the trades.
Scorer(minTrades) == [minTrades |-> minTrades, minReturn |-> -999, minFactor |-> -999,
                      minWin |-> 0, drawdown |-> 5, turnover |-> 0, bonus |-> 0, cap |-> 1]

\* The hard gates, in their order.
Passes(m, c) == /\ m.trades >= c.minTrades
                /\ m.return >= c.minReturn
                /\ m.factor >= c.minFactor
                /\ m.win >= c.minWin

BaseScore(m) == IF m.sharpe > 0 THEN 1000 * m.sharpe
           ELSE IF m.sortino > 0 THEN 900 * m.sortino
           ELSE 1000 * m.return

\* calculate_score
Score(m, c) ==
    IF m.trades < c.minTrades THEN Invalid - 10000
    ELSE IF m.return < c.minReturn THEN Invalid - 20000
    ELSE IF m.factor < c.minFactor THEN Invalid - 40000
    ELSE IF m.win < c.minWin THEN Invalid - 80000
    ELSE LET thousands == IF m.trades < 1000 * c.cap THEN m.trades ELSE 1000 * c.cap
         IN BaseScore(m) - 100 * c.drawdown * m.dd - c.turnover * m.trades + c.bonus * thousands

\* list.sort(key=score, reverse=True), which keeps the order of equals.
Ranked(s) ==
    LET Before(i, j) == s[i].score > s[j].score \/ (s[i].score = s[j].score /\ i < j)
        order == InOrder(DOMAIN s, {p \in (DOMAIN s) \X (DOMAIN s) : Before(p[1], p[2])})
    IN [i \in DOMAIN s |-> s[order[i]]]
=============================================================================
