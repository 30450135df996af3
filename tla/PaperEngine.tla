---------------------------- MODULE PaperEngine ----------------------------
(***************************************************************************)
(* PaperEngine._on_bar and the three handlers it runs, over the order      *)
(* manager as OrderDesk describes it: the deferred exit, the risk and      *)
(* force-flat triggers, the strategy's signals, and shutdown.  One step is *)
(* one bar: the pipeline runs without awaiting.                            *)
(***************************************************************************)
EXTENDS OrderDesk, VN30Session

CONSTANT Settings   \* the configurations and markets the engine may be started in

\* mode, --freq, and the PAPER_* settings; margins in minutes.  calm is the
\* market's: every bucket has a tick, orders are settled before the next bar,
\* exits are neither refused, rejected nor canceled; in a rough market none of
\* this is so, and nobody stops the engine.
Setting == [mode : {"live", "dry", "sim"},
            freq : Nat \ {0},
            forceFlat : BOOLEAN,        \* force_flat_on_session_close
            preclose : Nat,             \* force_flat_preclose_seconds
            lastCandle : BOOLEAN,       \* force_flat_on_last_candle
            cutoff : Nat,               \* entry_cutoff_seconds
            late : BOOLEAN,             \* allow_late_entry, which lifts the cutoff
            defer : BOOLEAN,            \* defer_exit_outside_session
            closeOnShutdown : BOOLEAN,
            calm : BOOLEAN]

ASSUME EngineAssumption == Settings \subseteq Setting

VARIABLES
    config,     \* the configuration, fixed at the start
    next,       \* start time of the bar that is due
    deferred,   \* _deferred_exit_reason is set
    phase       \* running; stopping: _running is off, the feed not yet; stopped

vars == <<desk, config, next, deferred, phase>>

-----------------------------------------------------------------------------
(* The bars of a Monday.                                                   *)

\* Ticks are floored to their bucket.  RedisFeed drops those outside trading
\* hours, so a bucket may start before the session does; the replayed data has
\* the auction's ticks, but no bucket that starts outside the session.
BucketStarts == [f \in {c.freq : c \in Settings} |->
    {t - (t % f) : t \in {u \in 0..MinutesPerDay - 1 : IsTradingHours(u)}}]
ReplayedStarts == [f \in {c.freq : c \in Settings} |->
    {b \in {t - (t % f) : t \in {u \in 0..MinutesPerDay - 1 : SessionOf(u) # "closed"}} :
        SessionOf(b) # "closed"}]

Bars == IF config.mode = "sim" THEN ReplayedStarts[config.freq] ELSE BucketStarts[config.freq]

FirstBar == CHOOSE b \in Bars : \A c \in Bars : b <= c
Later(b) == {c \in Bars : c > b}
Following(b) ==
    IF Later(b) = {} THEN FirstBar ELSE CHOOSE c \in Later(b) : \A d \in Later(b) : c <= d

PInit ==
    /\ config \in Settings
    /\ dryRun = (config.mode # "live")
    /\ pos = 0
    /\ entering = {}
    /\ exiting = 0
    /\ next = FirstBar
    /\ deferred = FALSE
    /\ phase = "running"

-----------------------------------------------------------------------------
(* Submitting, from whichever handler.                                     *)

\* place_order may fail: submit_exit logs it and returns None.
ExitRefused ==
    /\ ~dryRun /\ ~config.calm
    /\ exiting = 0 /\ pos # 0
    /\ UNCHANGED desk

\* submit_exit while an exit is in progress or when flat.
ExitNotNeeded ==
    /\ exiting > 0 \/ pos = 0
    /\ UNCHANGED desk

SubmitExit == Exit \/ ExitDry \/ ExitRefused \/ ExitNotNeeded

\* _submit_exit_or_defer.  Exits also go out during ATC.  Mutant: they do not.
CanExitInHours(t) == IsTradingHours(t)
CanExitNow(t) == IsTradingHours(t) \/ IsAtc(t)

SubmitExitOrDefer(t) ==
    \/ CanExitNow(t) /\ SubmitExit /\ deferred' = FALSE
    \/ ~CanExitNow(t) /\ deferred' = (deferred \/ config.defer) /\ UNCHANGED desk

-----------------------------------------------------------------------------
(* The pipeline, one alternative per way through it.                       *)

\* BarHandler: the deferred exit goes out with the first bar in hours, and
\* the reason is cleared.  Mutant: it is kept.
DeferredExitIsDue(t) == deferred /\ IsTradingHours(t)

DeferredExitKept(t) ==
    /\ DeferredExitIsDue(t)
    /\ SubmitExit
    /\ UNCHANGED deferred
DeferredExit(t) ==
    /\ DeferredExitIsDue(t)
    /\ SubmitExit
    /\ deferred' = FALSE

\* _check_force_flat: does any of its four reasons apply?
MustForceFlat(t) ==
    /\ config.forceFlat
    /\ \/ IsAtc(t)
       \/ ForceCloses(t, config.preclose)
       \/ config.lastCandle /\ ClosesOutside(t, config.freq)
       \/ ~IsTradingHours(t)

\* RiskHandler on a stop loss, take profit or maximum loss, which the bar's
\* prices may trigger at any time a position is open.
RiskExit(t) ==
    /\ ~DeferredExitIsDue(t)
    /\ pos # 0
    /\ SubmitExitOrDefer(t)

\* RiskHandler with no such trigger.
ForcedExit(t) ==
    /\ ~DeferredExitIsDue(t)
    /\ pos # 0
    /\ MustForceFlat(t)
    /\ SubmitExitOrDefer(t)

\* The bar reaches SignalHandler.
ReachesSignals(t) ==
    /\ ~DeferredExitIsDue(t)
    /\ pos = 0 \/ ~MustForceFlat(t)

\* HOLD, a skipped signal, a blocked entry, or an order that was refused.
NoSignal(t) ==
    /\ ReachesSignals(t)
    /\ UNCHANGED <<desk, deferred>>

SignalExit(t) ==
    /\ ReachesSignals(t)
    /\ ~ShouldSkipSignal(t)
    /\ pos # 0
    /\ SubmitExit
    /\ UNCHANGED deferred

\* LONG or SHORT: a working entry is no reason not to send another.
SignalEntry(t) ==
    /\ ReachesSignals(t)
    /\ ~ShouldSkipSignal(t)
    /\ ~IsEntryBlocked(t, config.cutoff, config.late)
    /\ \/ \E o \in Orders, s \in Side, q \in 1..MaxQty : Enter(o, s, q)
       \/ \E s \in Side, q \in 1..MaxQty : EnterDry(s, q)
    /\ UNCHANGED deferred

Settled == exiting = 0 /\ entering = {}

\* The feed calls _on_bar until it is unsubscribed, whatever _running says.
OnBar ==
    /\ phase # "stopped"
    /\ config.calm => Settled
    /\ \/ DeferredExit(next)
       \/ RiskExit(next)
       \/ ForcedExit(next)
       \/ NoSignal(next)
       \/ SignalExit(next)
       \/ SignalEntry(next)
    /\ next' = Following(next)
    /\ UNCHANGED <<config, phase>>

\* A bucket in which no trade ticked is never emitted.
EmptyBucket ==
    /\ ~config.calm
    /\ phase # "stopped"
    /\ config.calm => Settled
    /\ next' = Following(next)
    /\ UNCHANGED <<desk, config, deferred, phase>>

-----------------------------------------------------------------------------
\* What becomes of the orders at the broker.
Outcome ==
    /\ \/ \E e \in entering : \E k \in 1..e.left : EntryFills(e, k)
       \/ \E e \in entering : EntryDropped(e)
       \/ \E k \in 1..exiting : ExitFills(k)
       \/ ~config.calm /\ ExitDropped
    /\ UNCHANGED <<config, next, deferred, phase>>

\* stop(): _running is cleared first; unsubscribing and closing the feed await.
StopBegins ==
    /\ config.calm
    /\ phase = "running"
    /\ phase' = "stopping"
    /\ UNCHANGED <<desk, config, next, deferred>>

\* The rest of stop() runs without awaiting.
StopEnds ==
    /\ phase = "stopping"
    /\ IF config.closeOnShutdown /\ pos # 0 THEN SubmitExit ELSE UNCHANGED desk
    /\ phase' = "stopped"
    /\ UNCHANGED <<config, next, deferred>>

PNext == OnBar \/ EmptyBucket \/ Outcome \/ StopBegins \/ StopEnds

PSpec == PInit /\ [][PNext]_vars

\* The market assumed: the day goes on, and of the bars that must force flat
\* some day one has a tick and its exit is accepted.  What becomes of an
\* accepted exit is left open: it may rest at its limit for ever.
ForcedBarTaken == OnBar /\ MustForceFlat(next) /\ (exiting' > 0 \/ pos' = 0)

PFairness == WF_vars(OnBar \/ EmptyBucket) /\ SF_vars(ForcedBarTaken)

PFairSpec == PSpec /\ PFairness
-----------------------------------------------------------------------------
(* Properties.                                                             *)

\* The settings that keep a calm day flat: the end of the session is recognised
\* on its last bar, and no entry is left to fill after it.  (Replayed entries
\* fill at once, so there a bar of the auction that is still to come will do.)
Guarded ==
    /\ config.calm
    /\ config.forceFlat
    /\ config.lastCandle \/ config.preclose >= config.freq
    /\ \/ config.cutoff >= config.freq /\ ~config.late
       \/ config.mode = "sim" /\ \E b \in Bars : IsAtc(b)

\* No position is carried into the next day, in any mode, through any mix of
\* stops, signals, deferred and forced exits, of the three handlers.
FlatOvernight == [][Guarded /\ next = FirstBar /\ next' # next => pos = 0]_vars

\* The same with force_flat_on_session_close alone: "Ensures no overnight
\* positions in intraday strategies".
ForceFlatEnsures == [][config.calm /\ config.forceFlat /\ next = FirstBar /\ next' # next => pos = 0]_vars

\* In a dry run an exit that was deferred refers to a position that is still
\* open, so the bar at which it goes out does not close a later one (the
\* pairing of RiskHandler's callback with BarHandler's clearing the reason).
NoStaleDeferral == dryRun /\ deferred /\ phase # "stopped" => pos # 0

\* In a rough market, where buckets stay empty and an exit may be refused or
\* dropped any number of times, no position is left for good without an exit at
\* the broker: the session tests of RiskHandler come back to it every day.
ExitKeepsComing == ~config.calm => []<>(pos = 0 \/ exiting > 0)
=============================================================================
