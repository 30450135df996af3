------------------------------ MODULE Account ------------------------------
(***************************************************************************)
(* AccountState and the components it is made of (PortfolioState,          *)
(* Position, TradeRecorder, RiskManager), as operators on one record: what *)
(* both backtest engines do to the account on a bar.  Prices are whole     *)
(* points; 0 stands for "no price", as `signal.stop_loss or None` reads it.*)
(***************************************************************************)
EXTENDS Positions, VN30Session

CONSTANTS
    Capital,     \* initial_capital
    Multiplier,  \* contract_multiplier: money per point and contract
    Leverage,    \* 1 / margin_rate
    FeeRate,     \* contract_multiplier * commission_rate
    Slip,        \* points of FixedSlippage
    RiskPct,     \* PercentRiskSizer.risk_per_trade_pct
    MinSize,     \* PercentRiskSizer.min_size
    MaxSize,     \* PercentRiskSizer.max_size
    LossPct,     \* max_daily_loss_pct, 0 if disabled
    Trail        \* points the trailing stop keeps, 0 if disabled

ASSUME AccountAssumption ==
    /\ {Capital, Multiplier, Leverage, MinSize} \subseteq Nat \ {0}
    /\ {FeeRate, Slip, RiskPct, LossPct, Trail} \subseteq Nat
    /\ MaxSize \in Nat /\ MaxSize >= MinSize

NoPrice == 0

\* AccountState.reset.  pos, entry, sl and tp are Position's; fee is the commission
\* the open trade has paid so far; realized and trades sum up TradeRecorder's
\* closed trades.
NewAccount ==
    [cash |-> Capital, equity |-> Capital, pos |-> 0, entry |-> NoPrice,
     sl |-> NoPrice, tp |-> NoPrice, fee |-> 0, dailyPnl |-> 0, lossHit |-> FALSE,
     day |-> -1, realized |-> 0, trades |-> 0]

Larger(a, b) == IF a >= b THEN a ELSE b
Distance(a, b) == Larger(a - b, b - a)
Fee(price, q) == price * q * FeeRate

\* FixedSlippage.calculate: buying dearer, selling cheaper.
Slipped(price, side) == IF price <= 0 THEN price ELSE price + Signed(side, Slip)

\* PercentRiskSizer.calculate_size.
Size(equity, price, sl) ==
    IF sl = NoPrice \/ price = sl THEN MinSize
    ELSE LET risked == (equity * RiskPct) \div (100 * Distance(price, sl) * Multiplier)
         IN Larger(MinSize, Smaller(risked, MaxSize))

\* RiskManager.max_affordable_quantity with no position open.
Affordable(cash, price) ==
    IF price <= 0 \/ cash <= 0 THEN 0 ELSE (cash * Leverage) \div (price * Multiplier)

\* RiskManager.update_daily.
NewDay(a, t) ==
    IF a.day = t \div MinutesPerDay THEN a
    ELSE [a EXCEPT !.day = t \div MinutesPerDay, !.dailyPnl = 0, !.lossHit = FALSE]

-----------------------------------------------------------------------------
(* Orders.  limit is NoPrice for a market order.                           *)

\* Sizes a signal to the account, 0 if no order is to be made of it.  Mutant:
\* an open position is no obstacle.
EntrySizeAnyway(a, sig, bar) ==
    LET price == IF sig.price > 0 THEN sig.price ELSE bar.close
    IN Smaller(Size(a.equity, price, sig.sl), Affordable(a.cash, price))
EntrySize(a, sig, bar) ==
    LET price == IF sig.price > 0 THEN sig.price ELSE bar.close
    IN IF a.pos # 0 THEN 0
       ELSE Smaller(Size(a.equity, price, sig.sl), Affordable(a.cash, price))

\* The price an order gets on a bar, NoPrice if its limit is not reached.
FillPrice(o, bar) ==
    IF o.limit = NoPrice THEN bar.open
    ELSE IF o.side = "BUY" THEN
        IF bar.low > o.limit THEN NoPrice ELSE Smaller(bar.open, o.limit)
    ELSE IF bar.high < o.limit THEN NoPrice ELSE Larger(bar.open, o.limit)

\* Position.open and TradeRecorder.open_trade, after the commission is paid.
OpenPosition(a, o, q, price) ==
    [a EXCEPT !.cash = @ - Fee(price, q), !.pos = Signed(o.side, q), !.entry = price,
              !.sl = o.sl, !.tp = o.tp, !.fee = Fee(price, q)]

-----------------------------------------------------------------------------
(* Closing.                                                                *)

Gross(a, price) == (price - a.entry) * a.pos * Multiplier

\* RiskManager.record_trade_pnl, with the equity of the last bar.
RecordPnl(a, pnl) ==
    [a EXCEPT !.dailyPnl = @ + pnl,
              !.lossHit = @ \/ (LossPct > 0 /\ (a.dailyPnl + pnl) * 100 < -(LossPct * a.equity))]

\* AccountState.close_position at a price slippage was already applied to.
\* Mutant: the trade forgets the commission paid at the entry.
SettledWithoutEntryFee(a, price) == Gross(a, price) - Fee(price, Magnitude(a.pos))
Settled(a, price) == Gross(a, price) - (a.fee + Fee(price, Magnitude(a.pos)))

Forgotten(a) ==
    [a EXCEPT !.pos = 0, !.entry = NoPrice, !.sl = NoPrice, !.tp = NoPrice, !.fee = 0]

Closed(a, price) ==
    Forgotten([RecordPnl(a, Settled(a, price)) EXCEPT
                  !.cash = @ - Fee(price, Magnitude(a.pos)) + Gross(a, price),
                  !.realized = @ + Settled(a, price),
                  !.trades = @ + 1])

ClosedAtMarket(a, price) == Closed(a, Slipped(price, ExitSide(a.pos)))

\* Has the price reached a level against, or in favour of, the position?
Stopped(a, price) == a.sl # NoPrice /\ (IF a.pos > 0 THEN price <= a.sl ELSE price >= a.sl)
Reached(a, price) == a.tp # NoPrice /\ (IF a.pos > 0 THEN price >= a.tp ELSE price <= a.tp)
Worst(a, bar) == IF a.pos > 0 THEN bar.low ELSE bar.high
Best(a, bar) == IF a.pos > 0 THEN bar.high ELSE bar.low

\* _update_trailing_stop: the stop follows the close, never away from it.
Trailed(a, close) ==
    IF Trail = 0 \/ a.sl = NoPrice THEN a
    ELSE [a EXCEPT !.sl = IF a.pos > 0 THEN Larger(@, close - Trail)
                          ELSE Smaller(@, close + Trail)]

\* AccountState.check_sl_tp: a gap at the open, then the bar's range, the stop
\* before the target in each; without slippage.
CheckSlTp(a, bar) ==
    IF a.pos = 0 THEN a
    ELSE IF Stopped(a, bar.open) \/ Reached(a, bar.open) THEN Closed(a, bar.open)
    ELSE IF Stopped(a, Worst(a, bar)) THEN Closed(a, a.sl)
    ELSE IF Reached(a, Best(a, bar)) THEN Closed(a, a.tp)
    ELSE Trailed(a, bar.close)

\* AccountState.update_equity.
Mark(a, close) == [a EXCEPT !.equity = a.cash + Gross(a, close)]
=============================================================================
