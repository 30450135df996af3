--------------------------- MODULE EventBacktester ---------------------------
(***************************************************************************)
(* EventDrivenBacktester.run with SimBrokerT1: the same bar by way of the  *)
(* event bus.  The bus delivers MARKET, SIGNAL, ORDER and FILL events one  *)
(* after the other, each to one handler, and is empty when emit returns.   *)
(* A bar emits one MARKET event at most, so one order is queued at most.   *)
(***************************************************************************)
EXTENDS Backtester

VARIABLES
    eventAccount,   \* the engine's AccountState
    queued          \* SimBrokerT1._pending_orders

eventVars == <<eventAccount, queued>>

EventInit ==
    /\ eventAccount = NewAccount
    /\ queued = NoOrder

-----------------------------------------------------------------------------
\* AccountHandler.on_fill: the fill becomes the position, in the order's own size.
OnFill(a, o, price) == OpenPosition(a, o, o.qty, price)

\* SimBroker.on_order, for the order update_bar takes from the queue.
Filled(a, o, bar) ==
    IF o = NoOrder \/ FillPrice(o, bar) = NoPrice THEN a
    ELSE OnFill(a, o, Slipped(FillPrice(o, bar), o.side))

\* Closing at the end of the day looks at this bar alone and pays the next open.
EodPrice(bar, next) == IF next = NoBar THEN bar.close ELSE next.open

\* StrategyHandler.on_market: every signal but a hold is passed on.
Signalled(sig) == sig.kind # "hold"

\* RiskHandler.on_signal on an exit.
ExitSignal(a, sig, bar) ==
    IF sig.kind = "exit" /\ a.pos # 0 THEN ClosedAtMarket(a, bar.close) ELSE a

EventBar(bar, next, sig, warm) ==
    LET daily == NewDay(Filled(eventAccount, queued, bar), bar.t)
        checked == IF warm THEN daily ELSE CheckSlTp(daily, bar)
        closing == checked.pos # 0 /\ ~warm /\ ShouldCloseEod(bar.t)
        after == IF closing THEN ClosedAtMarket(checked, EodPrice(bar, next)) ELSE checked
        asks == Asks(after, bar.t) /\ ~warm /\ Signalled(sig)
    IN /\ eventAccount' = Mark(IF asks THEN ExitSignal(after, sig, bar) ELSE after, bar.close)
       /\ queued' = IF asks THEN OrderFrom(after, sig, bar) ELSE NoOrder

EventEnd(close) ==
    /\ eventAccount' = IF eventAccount.pos # 0
                       THEN Mark(ClosedAtMarket(eventAccount, close), close) ELSE eventAccount
    /\ UNCHANGED queued
=============================================================================
