----------------------------- MODULE Backtester -----------------------------
(***************************************************************************)
(* Backtester.run: one bar of the procedural backtest engine.  The bar     *)
(* itself, the one after it and the strategy's signal come from outside.   *)
(***************************************************************************)
EXTENDS Account

CONSTANTS
    NoOrder,     \* "no order pending"
    NoBar,       \* "no bar follows"
    Ttl,         \* order_ttl_bars, 0 = no expiry
    Cutoff,      \* entry_cutoff_seconds, in minutes
    AllowLate    \* allow_late_entry

ASSUME BacktesterAssumption ==
    /\ {Ttl, Cutoff} \subseteq Nat
    /\ AllowLate \in BOOLEAN

VARIABLES
    account,   \* the engine's AccountState
    pending,   \* pending_order
    age        \* pending_order_age

loopVars == <<account, pending, age>>

LoopInit ==
    /\ account = NewAccount
    /\ pending = NoOrder
    /\ age = 0

-----------------------------------------------------------------------------
\* AccountState.create_order for an entry signal.
OrderFrom(a, sig, bar) ==
    IF sig.kind \in {"long", "short"} /\ EntrySize(a, sig, bar) > 0
    THEN [side |-> IF sig.kind = "long" THEN "BUY" ELSE "SELL",
          qty |-> EntrySize(a, sig, bar),
          limit |-> IF sig.ord = "LIMIT" THEN sig.price ELSE NoPrice,
          sl |-> sig.sl, tp |-> sig.tp, created |-> bar.t]
    ELSE NoOrder

\* The size execute_order gives an order: the margin is tested again at the
\* slipped price.
AffordedSize(a, o, bar) == Smaller(o.qty, Affordable(a.cash, Slipped(FillPrice(o, bar), o.side)))

Executes(a, o, bar) == FillPrice(o, bar) # NoPrice /\ AffordedSize(a, o, bar) > 0

\* Stage 1, in this order.  Mutant: a session's end does not cancel the order.
FateAcrossSessions(a, bar, warm) ==
    IF pending = NoOrder \/ warm THEN "untouched"
    ELSE IF Ttl > 0 /\ age >= Ttl THEN "expired"
    ELSE IF Executes(a, pending, bar) THEN "filled"
    ELSE "kept"
Fate(a, bar, warm) ==
    IF pending = NoOrder \/ warm THEN "untouched"
    ELSE IF ShouldCancelPendingEntry(pending.created, bar.t) THEN "canceled"
    ELSE IF Ttl > 0 /\ age >= Ttl THEN "expired"
    ELSE IF Executes(a, pending, bar) THEN "filled"
    ELSE "kept"

\* Stage 3: the next bar is outside trading hours, or this one is past them.
\* Mutant: only this bar is looked at.
ClosesPastBar(bar, next) == ShouldCloseEod(bar.t)
ClosesAtBar(bar, next) ==
    \/ next # NoBar /\ ~IsTradingHours(next.t)
    \/ ShouldCloseEod(bar.t)

\* Stage 4: may the strategy be asked?  Mutant: the daily loss does not matter.
AsksRegardless(a, t) == ~ShouldSkipSignal(t) /\ ~IsEntryBlocked(t, Cutoff, AllowLate)
Asks(a, t) ==
    /\ ~ShouldSkipSignal(t)
    /\ ~a.lossHit
    /\ ~IsEntryBlocked(t, Cutoff, AllowLate)

\* Stages 0 to 5.  Only entry signals are acted upon, and an order made while
\* another is pending is dropped.
LoopBar(bar, next, sig, warm) ==
    LET daily == NewDay(account, bar.t)
        fate == Fate(daily, bar, warm)
        price == Slipped(FillPrice(pending, bar), pending.side)
        tried == IF fate = "filled"
                 THEN OpenPosition(daily, pending, AffordedSize(daily, pending, bar), price)
                 ELSE daily
        checked == CheckSlTp(tried, bar)
        closing == checked.pos # 0 /\ ~warm /\ ClosesAtBar(bar, next)
        after == IF closing THEN ClosedAtMarket(checked, bar.close) ELSE checked
        left == IF closing \/ fate \in {"canceled", "expired", "filled"} THEN NoOrder ELSE pending
        order == IF Asks(after, bar.t) /\ ~warm THEN OrderFrom(after, sig, bar) ELSE NoOrder
    IN /\ account' = Mark(after, bar.close)
       /\ pending' = IF left = NoOrder THEN order ELSE left
       /\ age' = IF left = NoOrder THEN 0 ELSE IF fate = "kept" THEN age + 1 ELSE age

\* "End of Backtest".
LoopEnd(close) ==
    /\ account' = IF account.pos # 0 THEN Mark(ClosedAtMarket(account, close), close) ELSE account
    /\ UNCHANGED <<pending, age>>
=============================================================================
