----------------------------- MODULE Protection -----------------------------
(***************************************************************************)
(* The stop and the target of the live position, and paper/risk_manager.py *)
(* that watches and trails them: set by the fills Tracker books, moved by   *)
(* the bars RiskHandler sees, forgotten with the position.  What happens   *)
(* to the exit a bar asks for is OrderManager's and PaperEngine's.         *)
(***************************************************************************)
EXTENDS Tracker

CONSTANTS
    Levels,      \* the [sl, tp] entry orders ask for
    Trail,       \* trailing_atr_multiplier * atr, 0 if there is no trailing
    MaxLoss      \* money one trade may lose, 0 if not limited

\* position.stop_loss or take_profit is None.
NoLevel == 0
NoLevels == [sl |-> NoLevel, tp |-> NoLevel]

ASSUME ProtectionAssumption ==
    /\ Levels \subseteq [sl : Nat, tp : Nat]
    /\ Trail \in Nat /\ MaxLoss \in Nat

VARIABLES
    levels,   \* position.stop_loss and take_profit
    asked     \* history: the loosest stop a fill of this position asked for

protected == <<vars, levels, asked>>

PrInit == TInit /\ levels = NoLevels /\ asked = NoLevel

-----------------------------------------------------------------------------
\* For position p, is stop a no looser than stop b?
NoLooser(p, a, b) == IF p > 0 THEN a >= b ELSE a <= b
Loosest(p, a, b) == IF NoLooser(p, a, b) THEN b ELSE a

\* record_open on a flat account takes the order's levels over; a later fill
\* replaces those it brings, trailed or not.
Taken(new) ==
    [sl |-> IF new.sl # NoLevel THEN new.sl ELSE levels.sl,
     tp |-> IF new.tp # NoLevel THEN new.tp ELSE levels.tp]

OpenProtected(s, q, price, new) ==
    /\ OpenTrade(s, q, price)
    /\ levels' = new
    /\ asked' = new.sl

ScaleProtected(s, q, price, new) ==
    /\ ScaleIn(s, q, price)
    /\ levels' = Taken(new)
    /\ asked' = IF new.sl = NoLevel THEN asked
                ELSE IF asked = NoLevel THEN new.sl ELSE Loosest(pos, asked, new.sl)

PartProtected(k, price) == CloseInPart(k, price) /\ UNCHANGED <<levels, asked>>

\* close_position resets the position.
CloseProtected(price) ==
    /\ CloseInFull(price)
    /\ levels' = NoLevels
    /\ asked' = NoLevel

\* sync_position adopts the broker's position without a stop or a target.
SyncProtected ==
    /\ Sync
    /\ levels' = NoLevels
    /\ asked' = NoLevel

-----------------------------------------------------------------------------
\* get_exit_trigger: the stop before the target, then the loss of the trade,
\* which update_unrealized has just marked at the close.
StopLoss(low, high) ==
    levels.sl # NoLevel /\ (IF pos > 0 THEN low <= levels.sl ELSE high >= levels.sl)
TakeProfit(low, high) ==
    levels.tp # NoLevel /\ (IF pos > 0 THEN high >= levels.tp ELSE low <= levels.tp)
MaxTradeLoss(unrealized) == MaxLoss # 0 /\ -unrealized > MaxLoss
ExitTrigger(low, high, unrealized) ==
    StopLoss(low, high) \/ TakeProfit(low, high) \/ MaxTradeLoss(unrealized)

\* apply_trailing_stop.  Mutant: the stop follows the close both ways.
TrailedBothWays(close) ==
    IF Trail = 0 \/ levels.sl = NoLevel THEN levels
    ELSE [levels EXCEPT !.sl = IF pos > 0 THEN close - Trail ELSE close + Trail]
Trailed(close) ==
    LET moved == IF pos > 0 THEN close - Trail ELSE close + Trail
    IN  IF Trail # 0 /\ levels.sl # NoLevel /\ ~NoLooser(pos, levels.sl, moved)
        THEN [levels EXCEPT !.sl = moved] ELSE levels

\* One bar: BarHandler marks the account; RiskHandler, unless BarHandler has just
\* sent a deferred exit, asks for an exit or trails the stop.
BarProtected(low, high, close, newDay) ==
    /\ Bar(close, newDay)
    /\ levels' = IF pos = 0 \/ ExitTrigger(low, high, upnl') THEN levels ELSE Trailed(close)
    /\ UNCHANGED asked

BarWithDeferredExit(close, newDay) == Bar(close, newDay) /\ UNCHANGED <<levels, asked>>

PrNext ==
    \/ SyncProtected
    \/ \E s \in Side, q \in 1..MaxPos, price \in Prices, new \in Levels :
           OpenProtected(s, q, price, new) \/ ScaleProtected(s, q, price, new)
    \/ \E k \in 1..MaxPos, price \in Prices : PartProtected(k, price)
    \/ \E price \in Prices : CloseProtected(price)
    \/ \E low, high, close \in Prices, newDay \in BOOLEAN :
           low <= close /\ close <= high /\ BarProtected(low, high, close, newDay)
    \/ \E close \in Prices, newDay \in BOOLEAN : BarWithDeferredExit(close, newDay)

PrSpec == PrInit /\ [][PrNext]_protected
-----------------------------------------------------------------------------
(* Properties.                                                             *)

\* A position has the stop its own fills asked for, or a tighter one, whatever
\* later fills bring, parts are closed and bars trail; a position the broker
\* had before the start has none, and no stop outlives its position.
StopIsItsOwn ==
    IF pos = 0 \/ asked = NoLevel THEN levels.sl = NoLevel
    ELSE levels.sl # NoLevel /\ NoLooser(pos, levels.sl, asked)
=============================================================================
