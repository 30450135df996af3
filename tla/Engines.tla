------------------------------ MODULE Engines ------------------------------
(***************************************************************************)
(* Both backtest engines on the same bars with the same signals, as        *)
(* run_backtest --compare-engines runs them.  DataPreprocessor decides     *)
(* which bars there are: those that have ticks, auction bars included.     *)
(***************************************************************************)
EXTENDS EventBacktester, Sequences

CONSTANTS
    Datasets,    \* the sequences of bar times to run on
    Shapes,      \* the [open, high, low, close] a bar may have
    Signals,     \* what the strategy may answer: [kind, ord, price, sl, tp]
    WarmupBars   \* warmup_bars

BarRecord == [t : Nat, open : Nat, high : Nat, low : Nat, close : Nat]

ASSUME EnginesAssumption ==
    /\ WarmupBars \in Nat
    /\ Datasets \subseteq Seq(Nat)
    /\ Shapes \subseteq [open : Nat, high : Nat, low : Nat, close : Nat]
    /\ Signals \subseteq [kind : {"hold", "exit", "long", "short"}, ord : {"MARKET", "LIMIT"},
                          price : Nat, sl : Nat, tp : Nat]
    /\ NoBar \notin BarRecord

VARIABLES
    times,   \* the timestamps of the data
    n,       \* bars processed, one more when the run is over
    ahead    \* the prices of the next bar

feed == <<times, n, ahead>>
allVars == <<loopVars, eventVars, feed>>

BInit ==
    /\ LoopInit
    /\ EventInit
    /\ times \in Datasets
    /\ n = 0
    /\ ahead \in Shapes

BarAt(i, shape) ==
    [t |-> times[i], open |-> shape.open, high |-> shape.high, low |-> shape.low,
     close |-> shape.close]

\* The engines look one bar ahead: the loop at its time, the event engine at
\* its open.  A strategy that is the same function of the bar answers both.
Bar ==
    /\ n < Len(times)
    /\ n' = n + 1
    /\ ahead' \in (IF n' < Len(times) THEN Shapes ELSE {ahead})
    /\ UNCHANGED times
    /\ LET next == IF n' < Len(times) THEN BarAt(n' + 1, ahead') ELSE NoBar
       IN \E sig \in Signals :
              /\ LoopBar(BarAt(n', ahead), next, sig, n < WarmupBars)
              /\ EventBar(BarAt(n', ahead), next, sig, n < WarmupBars)

\* The data ends: the last bar's close is the price of what is still open.
End ==
    /\ n = Len(times)
    /\ n' = n + 1
    /\ LoopEnd(ahead.close)
    /\ EventEnd(ahead.close)
    /\ UNCHANGED <<times, ahead>>

BNext == Bar \/ End

BSpec == BInit /\ [][BNext]_allVars

-----------------------------------------------------------------------------
(* Properties.                                                             *)

\* In either engine an entry waits only while the account is flat, so its fill never
\* meets a position: the loop's pending order over bars that stop, close and reset
\* the account, the event engine's queued one until the next bar takes it.
PendingOnlyFlat ==
    /\ pending # NoOrder => account.pos = 0
    /\ queued # NoOrder => eventAccount.pos = 0

\* In either engine the cash is the capital, the P&L of the recorded trades and
\* the commission of the open one: close_position books it twice, in the
\* portfolio and in the trade.
CashIsPnl ==
    \A a \in {account, eventAccount} : a.cash = Capital + a.realized - a.fee

\* Once a day's losses pass the limit neither engine is in a trade again before
\* the next day, with whatever orders were waiting.
LossStopsDay ==
    [][\A i \in {1, 2} :
           LET a == <<account, eventAccount>>[i]
               b == <<account', eventAccount'>>[i]
           IN a.lossHit /\ b.day = a.day => b.pos = 0 /\ b.trades = a.trades]_allVars

\* The loop is flat before a bar that opens outside trading hours, though an
\* order may still have been filled on the bar before it.
FlatIntoAuction ==
    n < Len(times) /\ ~IsTradingHours(times[n + 1]) => account.pos = 0

\* An auction bar ends the day for both engines: no position, no order left.
AuctionEndsDay ==
    n \in 1..Len(times) /\ ShouldCloseEod(times[n]) =>
        /\ account.pos = 0 /\ pending = NoOrder
        /\ eventAccount.pos = 0 /\ queued = NoOrder
=============================================================================
