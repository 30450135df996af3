---------------------------- MODULE OpeningRange ----------------------------
(***************************************************************************)
(* ORBStrategy.generate_signal with the session state of IntradayStrategy, *)
(* as the paper engine drives it: one live bar at a time with the position *)
(* of that moment, and the rows of the database when a process starts.     *)
(* A time is a day and a minute of that day.  Prices of bars are in points; *)
(* levels, entries, stops and targets in hundredths of a point, because    *)
(* the multipliers of the configuration are in tenths.                     *)
(***************************************************************************)
EXTENDS VN30Session

CONSTANTS
    Orb,        \* the fields of ORBStrategyConfig and the entry order type
    Gap,        \* gap_threshold_minutes
    Freq,       \* minutes between the starts of two bars
    Days,       \* bound: days the market is open
    Shapes      \* what a bar may look like, apart from its time

Unbounded == 1000000        \* float("inf"), the low of an empty range

Minutes == 0..MinutesPerDay - 1
Times == [day : Days, min : Minutes]
Elapsed(s, t) == MinutesPerDay * (t.day - s.day) + t.min - s.min

\* atr, atrMa, volumeMa: 0 stands for a column that is missing or not positive.
Shape == [open : Nat, high : 0..Unbounded - 1, low : 0..Unbounded - 1, close : Nat,
          atr : Nat, atrMa : Nat, volume : Nat, volumeMa : Nat, adx : Nat]

\* config/schemas/orb.py: the fields' bounds and the two model validators.
Config == [orbMinutes : 1..60, maxTrades : 1..10, ordType : {"LIMIT", "MARKET"},
           closeConfirmed : BOOLEAN, longOnly : BOOLEAN, rangeSl : BOOLEAN,
           tp : 5..100, sl : 5..100, buffer : 0..50, minRange : 0..100, maxRange : 0..200,
           volumeFilter : BOOLEAN, volumeMin : 0..10, adxFilter : BOOLEAN, adxMin : 0..60,
           adaptive : BOOLEAN, lowBelow : 1..10, highAbove : 10..30,
           lowRange : 1..10, highRange : 10..20, lowBuffer : 1..10, highBuffer : 10..20]
Validated(c) ==
    /\ c.minRange > 0 /\ c.maxRange > 0 => c.minRange < c.maxRange
    /\ ~c.rangeSl => c.tp > c.sl

ASSUME OrbAssumption == Orb \in Config /\ Validated(Orb)
ASSUME GapAssumption == Gap \in Nat /\ Gap >= 60
ASSUME FreqAssumption == Freq \in 1..60
ASSUME DaysAssumption == Days \subseteq Nat
ASSUME ShapeAssumption == Shapes \subseteq Shape

VARIABLES
    orb,        \* the strategy: current (_current_date, _current_session), lastBar,
                \* high, low (_range_high, _range_low), trades (_trades_this_session)
    warming,    \* rows the warm-up has still to feed in; nothing else runs before
    held,       \* a position is open
    working,    \* an entry order is working
    now,        \* start of the bar that is due
    rows,       \* the database: the present session's bars
    shown,      \* history: bars of the opening window the process was shown while flat
    entries     \* history: entries this process signalled, and in which session

vars == <<orb, warming, held, working, now, rows, shown, entries>>

Never == [day |-> -1, min |-> 0]
SessionKey(t) == <<t.day, SessionOf(t.min)>>
InSession(t) == SessionOf(t.min) \in {"morning", "afternoon"}

Hold == [side |-> "hold", entry |-> 0, stop |-> 0, target |-> 0]
Anew(key, t) == [current |-> key, lastBar |-> t, high |-> 0, low |-> Unbounded, trades |-> 0]
Fresh == Anew(<<-1, "none">>, Never)

-----------------------------------------------------------------------------
(* The range and its window.                                               *)

\* validate_bar; _parse_bar cannot fail on what it lets through.
ValidBar(b) == b.open > 0 /\ b.high > 0 /\ b.low > 0 /\ b.close > 0

\* _is_in_formation_window
WindowStart(t) == IF SessionOf(t.min) = "morning" THEN MorningStart ELSE AfternoonStart
InWindow(t) == t.min - WindowStart(t) < Orb.orbMinutes

\* _update_session_state and _on_session_reset.  Mutant: a gap resets the
\* count and not the range.
HasGap(s, t) == s.lastBar # Never /\ Elapsed(s.lastBar, t) > Gap
EnterSessionKeepingRange(s, t) ==
    IF s.current # SessionKey(t)
    THEN Anew(SessionKey(t), t)
    ELSE [s EXCEPT !.lastBar = t, !.trades = IF HasGap(s, t) THEN 0 ELSE s.trades]
EnterSession(s, t) ==
    IF s.current # SessionKey(t) \/ HasGap(s, t)
    THEN Anew(SessionKey(t), t)
    ELSE [s EXCEPT !.lastBar = t]

\* Steps 4 to 6 of generate_signal: is the bar one that forms the range?
Forms(s, t, holding) == ~holding /\ s.trades < Orb.maxTrades /\ InWindow(t)

\* _update_formation.  Mutant: the first bar alone is taken.
WidenOnce(s, b) == IF s.high > 0 THEN s ELSE [s EXCEPT !.high = b.high, !.low = b.low]
Widen(s, b) == [s EXCEPT !.high = IF b.high > s.high THEN b.high ELSE s.high,
                         !.low = IF b.low < s.low THEN b.low ELSE s.low]

\* generate_signal, for a valid bar in the hours, up to the end of the formation.
Absorb(s, t, b, holding) ==
    LET r == EnterSession(s, t)
    IN IF Forms(r, t, holding) THEN Widen(r, b) ELSE r

-----------------------------------------------------------------------------
(* The breakout phase.                                                     *)

\* _get_volatility_regime: multipliers of the range bounds and of the buffer.
Regime(b) ==
    IF ~Orb.adaptive \/ b.atrMa = 0 THEN [range |-> 10, buffer |-> 10]
    ELSE IF 10 * b.atr < Orb.lowBelow * b.atrMa
         THEN [range |-> Orb.lowRange, buffer |-> Orb.lowBuffer]
    ELSE IF 10 * b.atr > Orb.highAbove * b.atrMa
         THEN [range |-> Orb.highRange, buffer |-> Orb.highBuffer]
    ELSE [range |-> 10, buffer |-> 10]

\* _check_range_filters
RangePasses(r, b) ==
    /\ r.high > r.low
    /\ Orb.minRange > 0 => 100 * (r.high - r.low) >= Orb.minRange * Regime(b).range * b.atr
    /\ Orb.maxRange > 0 => 100 * (r.high - r.low) <= Orb.maxRange * Regime(b).range * b.atr

\* _check_optional_filters
OptionalPasses(b) ==
    /\ Orb.volumeFilter /\ b.volumeMa > 0 => 10 * b.volume >= Orb.volumeMin * b.volumeMa
    /\ Orb.adxFilter => b.adx >= Orb.adxMin

Buffer(b) == Orb.buffer * Regime(b).buffer * b.atr
Above(r, b) == 100 * r.high + Buffer(b)
Below(r, b) == 100 * r.low - Buffer(b)

LongBreakout(r, b) == 100 * (IF Orb.closeConfirmed THEN b.close ELSE b.high) > Above(r, b)
ShortBreakout(r, b) ==
    /\ ~Orb.longOnly
    /\ 100 * (IF Orb.closeConfirmed THEN b.close ELSE b.low) < Below(r, b)

EntryPrice(level, b) ==
    IF Orb.ordType = "LIMIT" \/ ~Orb.closeConfirmed THEN level ELSE 100 * b.close

\* _build_long_signal, _build_short_signal; a signal without room for its stop
\* or its target is a HOLD.
Long(r, b) ==
    LET entry == EntryPrice(Above(r, b), b)
    IN [side |-> "long", entry |-> entry, target |-> entry + 10 * Orb.tp * b.atr,
        stop |-> IF Orb.rangeSl THEN 100 * r.low ELSE entry - 10 * Orb.sl * b.atr]
Short(r, b) ==
    LET entry == EntryPrice(Below(r, b), b)
    IN [side |-> "short", entry |-> entry, target |-> entry - 10 * Orb.tp * b.atr,
        stop |-> IF Orb.rangeSl THEN 100 * r.high ELSE entry + 10 * Orb.sl * b.atr]
Roomy(s) == IF s.side = "long" THEN s.stop < s.entry /\ s.entry < s.target
                               ELSE s.target < s.entry /\ s.entry < s.stop

\* Step 5 again, for the bars after the window.
TradesLeft(r) == r.trades < Orb.maxTrades

Breakout(r, t, b, holding) ==
    IF \/ holding \/ ~TradesLeft(r) \/ InWindow(t) \/ b.atr = 0
       \/ ~RangePasses(r, b) \/ ~OptionalPasses(b)
    THEN Hold
    ELSE IF LongBreakout(r, b) THEN (IF Roomy(Long(r, b)) THEN Long(r, b) ELSE Hold)
    ELSE IF ShortBreakout(r, b) THEN (IF Roomy(Short(r, b)) THEN Short(r, b) ELSE Hold)
    ELSE Hold
-----------------------------------------------------------------------------
(* The market's bars and the process.                                      *)

\* The bar after t, on the next day when the hours are over.  Bars outside the
\* hours are not given to the strategy (SignalHandler).
At(d, m) == [day |-> d, min |-> m]
Opens(d) == At(d, MorningStart)
Following(t) ==
    LET u == At(t.day, t.min + Freq)
    IN IF InSession(u) THEN u
       ELSE IF u.min <= AfternoonStart THEN At(t.day, AfternoonStart)
       ELSE Opens(t.day + 1)

\* rows keeps the present session alone: an earlier one ends in the reset.  Of
\* a row past the window only the time matters, for warm-up has no ATR column.
Row(t, b) == IF InWindow(t) THEN [time |-> t, high |-> b.high, low |-> b.low]
                            ELSE [time |-> t, high |-> 1, low |-> 1]
OfSession(set, t) == {r \in set : SessionKey(r.time) = SessionKey(t)}
NoEntries == [session |-> Fresh.current, count |-> 0]

Init ==
    /\ orb = Fresh
    /\ warming = {}
    /\ held = FALSE
    /\ working = FALSE
    /\ now \in {Opens(d) : d \in Days}
    /\ rows = {}
    /\ shown = {}
    /\ entries = NoEntries

Open == warming = {} /\ now.day \in Days

\* A live bar: SignalHandler asks the strategy with the position of the moment.
\* The guards after the signal may still refuse the entry; it is counted.
Counted(r, s) == IF s = Hold THEN r ELSE [r EXCEPT !.trades = @ + 1]

Bar(b) ==
    LET r == Absorb(orb, now, b, held)
        s == Breakout(r, now, b, held)
    IN /\ Open
       /\ ValidBar(b)
       /\ orb' = Counted(r, s)
       /\ working' \in (IF s = Hold THEN {working} ELSE {working, TRUE})
       /\ rows' = OfSession(rows, now) \cup {Row(now, b)}
       /\ shown' = OfSession(shown, now) \cup
                       (IF InWindow(now) /\ ~held THEN {Row(now, b)} ELSE {})
       /\ entries' = [session |-> SessionKey(now),
                      count |-> (IF entries.session = SessionKey(now) THEN entries.count ELSE 0)
                                + (IF s = Hold THEN 0 ELSE 1)]
       /\ now' = Following(now)
       /\ UNCHANGED <<warming, held>>

\* A bar with a missing or impossible field is answered with HOLD and forgotten.
InvalidBar(b) ==
    /\ Open
    /\ ~ValidBar(b)
    /\ now' = Following(now)
    /\ UNCHANGED <<orb, warming, held, working, rows, shown, entries>>

\* A bucket without a trade, or one the feed lost and the database has.
NoBar ==
    /\ Open
    /\ now' = Following(now)
    /\ \/ UNCHANGED rows
       \/ \E b \in Shapes : ValidBar(b) /\ rows' = OfSession(rows, now) \cup {Row(now, b)}
    /\ UNCHANGED <<orb, warming, held, working, shown, entries>>

\* What becomes of the entry, and of the position, between two bars.
EntryFills == working /\ working' = FALSE /\ held' = TRUE
EntryEnds == working /\ working' = FALSE /\ UNCHANGED held
PositionCloses == held /\ held' = FALSE /\ UNCHANGED working

Market ==
    /\ warming = {}
    /\ EntryFills \/ EntryEnds \/ PositionCloses
    /\ UNCHANGED <<orb, warming, now, rows, shown, entries>>

\* A new process: nothing of the old strategy is kept (save_state is never
\* called).  The rows are those of the database, or none when it fails.
Restart ==
    /\ warming = {}
    /\ orb' = Fresh
    /\ warming' \in {rows, {}}
    /\ shown' = {}
    /\ entries' = NoEntries
    /\ UNCHANGED <<held, working, now, rows>>

\* _warmup_strategy, row by row.  Reconciliation comes later, so the tracker is
\* flat whatever the broker holds.  Mutant: it comes first.
ReconciledFirst == held
HeldInWarmup == FALSE

Warm ==
    \E r \in warming :
        /\ \A s \in warming : Elapsed(r.time, s.time) >= 0
        /\ orb' = Absorb(orb, r.time, r, HeldInWarmup)
        /\ warming' = warming \ {r}
        /\ shown' = OfSession(shown, r.time) \cup (IF InWindow(r.time) THEN {r} ELSE {})
        /\ UNCHANGED <<held, working, now, rows, entries>>

Next == \/ \E b \in Shapes : Bar(b) \/ InvalidBar(b)
        \/ NoBar
        \/ Market
        \/ Restart
        \/ Warm

Spec == Init /\ [][Next]_vars
-----------------------------------------------------------------------------
(* Properties.                                                             *)

Spans(s, set) ==
    /\ \A r \in set : r.high <= s.high /\ s.low <= r.low
    /\ \E r \in set : r.high = s.high
    /\ \E r \in set : r.low = s.low

\* An entry is always measured against a range of its own session: the span of
\* the opening bars the process has seen while flat, of which there is at least
\* one, whatever gaps, positions, days and restarts went before.
RangeOfThisSession == [][orb'.trades > orb.trades => Spans(orb', shown')]_vars

\* A process never signals more than max_trades_per_session entries in one
\* session.  A gap resets the count in mid-session, but the range with it, and
\* a gap longer than the window leaves no bar to form another.
SessionLimit == entries.count <= Orb.maxTrades

\* A warm-up with the session's rows rebuilds the whole opening range, also
\* when a position is open.
LongGap(set) == \E r \in set :
    LET before == {s \in set : Elapsed(s.time, r.time) > 0}
    IN before # {} /\ \A s \in before : Elapsed(s.time, r.time) > Gap
WindowRows == {r \in rows : InWindow(r.time)}
RestartRestores ==
    [][warming # {} /\ warming' = {} /\ WindowRows # {} /\ ~LongGap(rows)
        => Spans(orb', WindowRows)]_vars
=============================================================================
