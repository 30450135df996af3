---------------------------- MODULE CurveMetrics ----------------------------
(***************************************************************************)
(* The scans over an equity curve and the trades of a backtest: one pass   *)
(* each, with a peak or a counter that is carried along.  Equity is a small *)
(* integer, and may fall below zero, as the tracker only warns of it; a     *)
(* drawdown is a fraction of its peak.                                     *)
(***************************************************************************)
EXTENDS Integers, Sequences, FiniteSets

CONSTANTS
    Equities,       \* what the account may be worth
    Longest,        \* bound: records of a curve
    Threshold       \* calculate_all_drawdowns: the least drawdown, in per cent

ASSUME EquitiesAssumption == Equities \subseteq Int
ASSUME ThresholdAssumption == Threshold \in Int

VARIABLES
    curve,      \* the equity column; here a record for each closed trade
    peak,       \* _peak_equity
    pnls        \* P&L of the closed trades

curveVars == <<curve, peak, pnls>>

InitCurve ==
    /\ curve = <<>>
    /\ peak = 0
    /\ pnls = <<>>

\* SimpleEquityTracker.record, of the capital and then after each closed trade;
\* a bar without one adds a record that the scans treat like any other.  The account
\* raises ValueError unless the capital is positive.
Record(equity) ==
    /\ Len(curve) < Longest
    /\ curve = <<>> => equity > 0
    /\ curve' = Append(curve, equity)
    /\ peak' = IF equity > peak THEN equity ELSE peak
    /\ pnls' = IF curve = <<>> THEN pnls ELSE Append(pnls, equity - curve[Len(curve)])

NextCurve == \E equity \in Equities : Record(equity)
-----------------------------------------------------------------------------
(* The scans, as functions of the position they have reached.              *)

\* max(...), 0 of nothing
Greatest(set) == IF set = {} THEN 0 ELSE CHOOSE x \in set : \A y \in set : y <= x

\* equity.cummax() at position i
Peak(e, i) == Greatest({e[k] : k \in 1..i})

\* A drop from a peak, and which of two is deeper, without fractions.
Drop(e, i) == [loss |-> Peak(e, i) - e[i], of |-> Peak(e, i)]
Deeper(a, b) == a.loss * b.of > b.loss * a.of
AtLeast(d, percent) == 100 * d.loss >= percent * d.of

\* MaximumDrawdown.calculate_with_info: idxmin is the first of the deepest
\* positions, idxmax the first of the highest before it.
Trough(e) == CHOOSE t \in DOMAIN e :
                 /\ \A i \in DOMAIN e : ~Deeper(Drop(e, i), Drop(e, t))
                 /\ \A i \in 1..t - 1 : Deeper(Drop(e, t), Drop(e, i))
Highest(e, i) == CHOOSE k \in 1..i : e[k] = Peak(e, i) /\ \A j \in 1..k - 1 : e[j] # e[k]
Recovery(e) == LET after == {i \in Trough(e)..Len(e) : e[i] >= Peak(e, Trough(e))}
               IN IF after = {} THEN 0 ELSE CHOOSE i \in after : \A j \in after : i <= j

\* MaximumDrawdown.calculate_all_drawdowns, one position at a time.  Mutant: a
\* small dip is not left when it has recovered.
NoScan == [inside |-> FALSE, from |-> 0, trough |-> 0, found |-> {}]
Keeping(s, e, end) ==
    IF AtLeast(Drop(e, s.trough), Threshold)
    THEN [s EXCEPT !.found = @ \cup {[from |-> s.from, trough |-> s.trough, end |-> end]}]
    ELSE s
LeavingKept(s, e, i) == LET k == Keeping(s, e, i) IN [k EXCEPT !.inside = k.found = s.found]
Leaving(s, e, i) == [Keeping(s, e, i) EXCEPT !.inside = FALSE]
ScanStep(s, e, i) ==
    IF ~s.inside
    THEN IF Drop(e, i).loss > 0
         THEN [s EXCEPT !.inside = TRUE, !.from = IF i > 1 THEN i - 1 ELSE 1, !.trough = i]
         ELSE s
    ELSE LET t == IF Deeper(Drop(e, i), Drop(e, s.trough)) THEN [s EXCEPT !.trough = i] ELSE s
         IN IF Drop(e, i).loss = 0 THEN Leaving(t, e, i) ELSE t
Scan(e) == LET scan[i \in 0..Len(e)] == IF i = 0 THEN NoScan ELSE ScanStep(scan[i - 1], e, i)
           IN scan[Len(e)]
Drawdowns(e) == IF Scan(e).inside THEN Keeping(Scan(e), e, 0).found ELSE Scan(e).found

\* DrawdownMetric._calculate_underwater_periods and LongestDrawdown.
Counting(c, e, i) ==
    IF Drop(e, i).loss > 0 THEN [c EXCEPT !.now = @ + 1]
    ELSE IF c.now > 0 THEN [now |-> 0, periods |-> Append(c.periods, c.now)]
    ELSE c
Periods(e) ==
    LET count[i \in 0..Len(e)] == IF i = 0 THEN [now |-> 0, periods |-> <<>>]
                                  ELSE Counting(count[i - 1], e, i)
        c == count[Len(e)]
    IN IF c.now > 0 THEN Append(c.periods, c.now) ELSE c.periods
LongestUnder(e) == Greatest({Periods(e)[i] : i \in DOMAIN Periods(e)})

\* _consecutive_stats
Streak(c, p) ==
    LET wins == IF p > 0 THEN c.wins + 1 ELSE 0
        losses == IF p < 0 THEN c.losses + 1 ELSE 0
    IN [wins |-> wins, losses |-> losses,
        maxWins |-> Greatest({c.maxWins, wins}), maxLosses |-> Greatest({c.maxLosses, losses})]
Streaks(t) ==
    LET streak[i \in 0..Len(t)] ==
            IF i = 0 THEN [wins |-> 0, losses |-> 0, maxWins |-> 0, maxLosses |-> 0]
            ELSE Streak(streak[i - 1], t[i])
    IN streak[Len(t)]

\* sum(...) of the trades at the positions K, after each trade
Sums(t, K) == LET sum[i \in 0..Len(t)] ==
                      IF i = 0 THEN 0 ELSE sum[i - 1] + (IF i \in K THEN t[i] ELSE 0)
              IN sum
Sum(t, K) == Sums(t, K)[Len(t)]

\* calculate_trade_metrics: counts and sums; the rates, factors and averages are
\* quotients of these.  A trade that breaks even is neither won nor lost.
Winners(t) == {i \in DOMAIN t : t[i] > 0}
Losers(t) == {i \in DOMAIN t : t[i] < 0}
TradeMetrics(t) ==
    [trades |-> Len(t), wins |-> Cardinality(Winners(t)), losses |-> Cardinality(Losers(t)),
     netProfit |-> Sum(t, Winners(t)), netLoss |-> -Sum(t, Losers(t))]

\* What the permutation of one simulation of MonteCarlo.run may be.  It draws
\* n_simulations of them at random, the backtest's own order seldom among them, so
\* only what holds of each can be said of a result.
Shuffled(t) ==
    {[i \in DOMAIN t |-> t[draw[i]]] :
        draw \in {f \in [DOMAIN t -> DOMAIN t] : \A i, j \in DOMAIN t : f[i] = f[j] => i = j}}
\* _build_equity_curve, and whether _max_drawdown_pct is above ruin_threshold_pct.
Rebuilt(capital, t) == [i \in 1..Len(t) + 1 |-> capital + Sums(t, DOMAIN t)[i - 1]]
Ruinous(d) == 100 * d.loss > Threshold * d.of
IsRuined(e) == \E i \in DOMAIN e : Ruinous(Drop(e, i))
-----------------------------------------------------------------------------
(* What they should compute.                                               *)

Below(i) == \E j \in 1..i : curve[j] > curve[i]
\* Positions under an earlier one, as stretches that cannot be made longer.
Dips == {d \in {<<a, b>> : a, b \in DOMAIN curve} :
            /\ d[1] <= d[2]
            /\ \A i \in d[1]..d[2] : Below(i)
            /\ d[1] > 1 => ~Below(d[1] - 1)
            /\ d[2] < Len(curve) => ~Below(d[2] + 1)}
Fall(j, i) == [loss |-> curve[j] - curve[i], of |-> curve[j]]
Deepest(from, to) == {i \in from..to : \A k \in from..to : ~Deeper(Drop(curve, k), Drop(curve, i))}
Runs(K) == {n \in DOMAIN pnls : \E k \in 1..Len(pnls) - n + 1 : k..k + n - 1 \subseteq K}

\* No fall from a record above zero to one that is not below zero is worse than the
\* maximum drawdown, which is itself a fall; the list of drawdowns is the dips that
\* reach the threshold, each with its deepest record, and its worst entry is the
\* maximum; the longest drawdown is the longest dip; the tracker's running peak gives
\* the drawdown of the last record.  (Below zero a fall from a lower peak is the
\* greater fraction, and the scan looks at the highest alone.)
DrawdownsAreDips ==
    Len(curve) >= 2 =>
        /\ \A i, j \in DOMAIN curve :
               j <= i /\ curve[j] > 0 /\ curve[i] >= 0 =>
                   ~Deeper(Fall(j, i), Drop(curve, Trough(curve)))
        /\ Drop(curve, Trough(curve)) = Fall(Highest(curve, Trough(curve)), Trough(curve))
        /\ {[from |-> d[1] - 1, end |-> IF d[2] = Len(curve) THEN 0 ELSE d[2] + 1] :
                d \in {x \in Dips : \E i \in x[1]..x[2] : AtLeast(Drop(curve, i), Threshold)}}
           = {[from |-> d.from, end |-> d.end] : d \in Drawdowns(curve)}
        /\ \A d \in Drawdowns(curve) :
               d.trough \in Deepest(d.from + 1, IF d.end = 0 THEN Len(curve) ELSE d.end - 1)
        /\ AtLeast(Drop(curve, Trough(curve)), Threshold) /\ Drop(curve, Trough(curve)).loss > 0 =>
               \E d \in Drawdowns(curve) : d.trough = Trough(curve) /\ d.end = Recovery(curve)
        /\ LongestUnder(curve) = Greatest({d[2] - d[1] + 1 : d \in Dips})
        /\ Drop(curve, Len(curve)) = [loss |-> peak - curve[Len(curve)], of |-> peak]

\* The longest streaks are the longest runs of winning and of losing trades.
StreaksAreRuns ==
    /\ Streaks(pnls).maxWins = Greatest(Runs(Winners(pnls)))
    /\ Streaks(pnls).maxLosses = Greatest(Runs(Losers(pnls)))

\* The trades tell the curve's story: what was won less what was lost is what the
\* account grew by.  Every simulation ends where the backtest did, whatever it draws,
\* and is a ruin if the backtest ended with a loss beyond the threshold: then
\* ruin_probability is 100.  (That the backtest was ruined on the way need not show.)
TradesMakeTheCurve ==
    LET m == TradeMetrics(pnls)
        final == curve[Len(curve)]
    IN  curve # <<>> =>
        /\ m.netProfit - m.netLoss = final - curve[1]
        /\ m.wins + m.losses = Cardinality({i \in DOMAIN pnls : curve[i] # curve[i + 1]})
        /\ Rebuilt(curve[1], pnls) = curve
        /\ \A t \in Shuffled(pnls) :
               /\ Rebuilt(curve[1], t)[Len(curve)] = final
               /\ Threshold <= 100 /\ Ruinous(Fall(1, Len(curve))) => IsRuined(Rebuilt(curve[1], t))

\* The scans over a backtest's curve and trades compute what they are named for.
ScansAreRight == DrawdownsAreDips /\ StreaksAreRuns /\ TradesMakeTheCurve
=============================================================================
