--------------------------- MODULE BarAggregator ---------------------------
(***************************************************************************)
(* src/paper/bar_aggregator.py, data_quality.py, bar_fallback.py and       *)
(* feeds/redis_feed.py: quotes and a one-second clock poll share the bar   *)
(* being formed; a bar built from too few quotes is repaired from the      *)
(* database, once shortly before its bucket closes and once when emitted.  *)
(*                                                                         *)
(* Time is counted in slots, Freq slots to a bucket.  A tick carries the   *)
(* time it is received (datetime.now()), so a late quote belongs to the    *)
(* bucket it arrives in, while the database files the trade under the one  *)
(* it was made in, at once.  A bar in the history is its bucket number; buckets of  *)
(* earlier days are negative.  Volume is left out.  `_current_bucket is    *)
(* not None` and `_has_live_trade` are one condition: start_bar and        *)
(* seed_current_live_bar set both, _reset_accumulators clears both.        *)
(***************************************************************************)
EXTENDS Integers, Sequences

CONSTANTS
  Prices,       \* prices a trade can have
  Freq,         \* slots in a bucket
  Buckets,      \* number of buckets the clock runs through (a bound)
  Stale,        \* stale_trade_seconds, in slots
  MinUpdates,   \* min_live_updates
  Preclose,     \* preclose_fetch_seconds, in slots
  Warmup,       \* atr_period + 1
  Older,        \* how many bars of earlier days the warm-up load may return
  Closed,       \* slots outside the trading hours
  MaxTrades     \* trades in the market (a bound)

ASSUME BarAssumption ==
  /\ Prices \subseteq Int /\ Prices # {}
  /\ Freq \in Nat \ {0} /\ Buckets \in Nat \ {0}
  /\ Stale \in Nat /\ MinUpdates \in Nat /\ Preclose \in Nat
  /\ Warmup \in Nat \ {0} /\ Older \subseteq Nat
  /\ Closed \subseteq Nat /\ MaxTrades \in Nat

VARIABLES
  now,      \* the wall clock
  db,       \* what the database has of each bucket
  trades,   \* trades made so far
  quotes,   \* quotes on their way from Redis, in order
  feed,     \* "down", "read" (rows loaded), "loaded" (seeded) or "on" (subscribed)
  bar,      \* the bar being formed; while "read", the row to be seeded
  history,  \* _history
  last      \* the bar last handed to the engine

vars == <<now, db, trades, quotes, feed, bar, history, last>>

NoBar == [bucket |-> -100]

Bucket(t) == t \div Freq
End(b)    == (b + 1) * Freq

Ohlc(p) == [open |-> p, high |-> p, low |-> p, close |-> p]

Hi(a, b) == IF a > b THEN a ELSE b
Lo(a, b) == IF a < b THEN a ELSE b

\* The database's bar of a bucket after one more trade.
Extend(k, p) == [k EXCEPT !.high = Hi(@, p), !.low = Lo(@, p), !.close = p]

-----------------------------------------------------------------------------
(* Data quality *)

\* get_quality_reasons: every reason not to trust the live bar k at time t.
Reasons(k, t) ==
  {r \in {"too_few_updates", "large_internal_gap", "start_gap", "end_gap"} :
     \/ r = "too_few_updates"    /\ k.count < MinUpdates
     \/ r = "large_internal_gap" /\ k.gap > Stale
     \/ r = "start_gap"          /\ k.first - k.bucket * Freq > Stale
     \/ r = "end_gap"            /\ t - k.latest > Stale}

\* Mutant: merge_db_bar takes the database's range instead of the wider one.
MergeReplacing(k, d, rs) ==
  IF rs = {} THEN k
  ELSE [k EXCEPT !.open  = IF "start_gap" \in rs THEN d.open ELSE @,
                 !.close = IF "end_gap" \in rs THEN d.close ELSE @,
                 !.high  = d.high, !.low = d.low]

\* Mutant: merge_db_bar repairs the open and the close only.
MergeNarrow(k, d, rs) ==
  IF rs = {} THEN k
  ELSE [k EXCEPT !.open  = IF "start_gap" \in rs THEN d.open ELSE @,
                 !.close = IF "end_gap" \in rs THEN d.close ELSE @]

\* merge_db_bar: the live bar k repaired with the database's bar d.
Merge(k, d, rs) ==
  IF rs = {} THEN k
  ELSE [k EXCEPT !.open  = IF "start_gap" \in rs THEN d.open ELSE @,
                 !.close = IF "end_gap" \in rs THEN d.close ELSE @,
                 !.high  = Hi(@, d.high),
                 !.low   = Lo(@, d.low)]

\* maybe_merge_db_bar; d is the provider's answer, NoBar when it has none.
MaybeMerge(k, t, d) == IF d = NoBar THEN k ELSE Merge(k, d, Reasons(k, t))

\* The fallback provider finds the bucket's trades, or fails.
Answers(b) == {NoBar, db[b]}

-----------------------------------------------------------------------------
(* The aggregator *)

\* start_bar; `seen` records, for the properties, the ticks taken into the bar.
StartBar(p) ==
  [bucket |-> Bucket(now), open |-> p, high |-> p, low |-> p, close |-> p,
   first |-> now, latest |-> now, count |-> 1, gap |-> 0, merged |-> FALSE,
   seen |-> {p}]

\* on_tick, the tick of the bucket being formed.
Accumulate(k, p) ==
  [k EXCEPT !.high = Hi(@, p), !.low = Lo(@, p), !.close = p,
            !.gap = Hi(@, now - k.latest), !.latest = now,
            !.count = @ + 1, !.seen = @ \cup {p}]

\* The live bar a database row makes.
Seed(b) ==
  [bucket |-> b, open |-> db[b].open, high |-> db[b].high,
   low |-> db[b].low, close |-> db[b].close,
   first |-> b * Freq, latest |-> b * Freq, count |-> 1, gap |-> 0,
   merged |-> FALSE, seen |-> {}]

\* _trim_history
Trim(h) == IF Len(h) > 5 * Warmup THEN SubSeq(h, Len(h) - 5 * Warmup + 1, Len(h))
           ELSE h

\* Mutant: _emit_bar returns before the append while the indicators are cold.
EmitCold(k, d) ==
  LET whole == MaybeMerge(k, End(k.bucket), d)
  IN IF Len(history) + 1 < Warmup THEN UNCHANGED <<history, last>>
     ELSE /\ history' = Trim(Append(history, k.bucket))
          /\ last' = whole

\* _emit_bar: repair, keep, and hand on once the indicators are warm (a failing
\* pipeline hands on the raw bar).
Emit(k, d) ==
  LET whole == MaybeMerge(k, End(k.bucket), d)
  IN /\ history' = Trim(Append(history, k.bucket))
     /\ last' = IF Len(history') < Warmup THEN last ELSE whole

\* Mutant: check_time emits without _reset_accumulators.
CheckTimeNoReset ==
  /\ feed = "on" /\ bar # NoBar
  /\ \E e \in Answers(bar.bucket) :
       IF Bucket(now) # bar.bucket
       THEN Emit(bar, e) /\ UNCHANGED bar
       ELSE UNCHANGED <<bar, history, last>>
  /\ UNCHANGED <<now, db, trades, quotes, feed>>

\* Mutant: check_time repairs and leaves the emission to the next bucket's first tick.
CheckTimeNoEmit ==
  /\ feed = "on" /\ bar # NoBar
  /\ \E d \in Answers(bar.bucket) :
       bar' = [MaybeMerge(bar, now, d) EXCEPT !.merged = TRUE]
  /\ UNCHANGED <<now, db, trades, quotes, feed, history, last>>

\* check_time, before the close: one repair with the database's bar d.
Preclosed(d) ==
  LET reasons == Reasons(bar, now)
  IN IF /\ End(bar.bucket) - now <= Preclose
        /\ ~bar.merged /\ reasons # {} /\ d # NoBar
     THEN [Merge(bar, d, reasons) EXCEPT !.merged = TRUE]
     ELSE bar

\* check_time, called by the polling loop: repair before the close, then emit a
\* bucket the clock has left.
CheckTime ==
  /\ feed = "on" /\ bar # NoBar
  /\ \E d, e \in Answers(bar.bucket) :
       IF Bucket(now) # bar.bucket
       THEN Emit(Preclosed(d), e) /\ bar' = NoBar
       ELSE bar' = Preclosed(d) /\ UNCHANGED <<history, last>>
  /\ UNCHANGED <<now, db, trades, quotes, feed>>

\* on_tick: the first tick of a new bucket emits the old one.
OnTick(p) ==
  \/ /\ bar = NoBar
     /\ bar' = StartBar(p)
     /\ UNCHANGED <<history, last>>
  \/ /\ bar # NoBar /\ bar.bucket # Bucket(now)
     /\ \E d \in Answers(bar.bucket) : Emit(bar, d)
     /\ bar' = StartBar(p)
  \/ /\ bar # NoBar /\ bar.bucket = Bucket(now)
     /\ bar' = Accumulate(bar, p)
     /\ UNCHANGED <<history, last>>

\* RedisFeed._on_quote: a quote outside the trading hours is dropped.
Quote ==
  /\ feed = "on" /\ quotes # <<>> /\ Bucket(now) < Buckets
  /\ quotes' = Tail(quotes)
  /\ IF now \in Closed THEN UNCHANGED <<bar, history, last>>
     ELSE OnTick(Head(quotes))
  /\ UNCHANGED <<now, db, trades, feed>>

-----------------------------------------------------------------------------
(* Start and stop *)

\* The rows of today the warm-up load returns, the unfinished bucket included:
\* each bucket with trades once, in order.
Filed == {b \in 0 .. Buckets - 1 : db[b] # NoBar}
Rows == {s \in UNION {[1..n -> Filed] : n \in 0 .. Buckets} :
           /\ \A b \in Filed : \E i \in DOMAIN s : s[i] = b
           /\ \A i \in 1 .. Len(s) - 1 : s[i] < s[i + 1]}

\* preload_history of the rows s, n bars of earlier days first.
Preloaded(n, s) == Trim([i \in 1..n |-> i - n - 1] \o s)

\* load_with_cache, preload_history and extract_incomplete_bar: every row goes into
\* the history, the last one is kept to be seeded.
Load ==
  /\ feed = "down"
  /\ \E n \in Older, s \in Rows : history' = Preloaded(n, s)
  /\ \/ Filed = {} /\ bar' = NoBar
     \/ \E b \in Filed : (\A c \in Filed : c <= b) /\ bar' = Seed(b)
  /\ feed' = "read"
  /\ UNCHANGED <<now, db, trades, quotes, last>>

\* Mutant: the bucket is not compared with the clock's.
SeedUnchecked ==
  /\ feed = "read"
  /\ feed' = "loaded"
  /\ UNCHANGED <<now, db, trades, quotes, bar, history, last>>

\* seed_current_live_bar: the row becomes the live bar if the clock, which has gone
\* on since the rows were read, is still in its bucket.
SeedCurrent ==
  /\ feed = "read"
  /\ feed' = "loaded"
  /\ bar' = IF bar.bucket = Bucket(now) THEN bar ELSE NoBar
  /\ UNCHANGED <<now, db, trades, quotes, history, last>>

\* RedisFeed.subscribe: quotes arrive from here on.
Subscribe ==
  /\ feed = "loaded"
  /\ feed' = "on"
  /\ UNCHANGED <<now, db, trades, quotes, bar, history, last>>

\* unsubscribe and the end of the process: the bar being formed is lost.
Stop ==
  /\ feed # "down"
  /\ feed' = "down" /\ bar' = NoBar /\ history' = <<>> /\ quotes' = <<>>
  /\ UNCHANGED <<now, db, trades, last>>

-----------------------------------------------------------------------------
(* The market, Redis and the clock *)

\* A trade is made; the database files it, a subscriber is sent a quote.
Trade(p) ==
  /\ trades < MaxTrades /\ now \notin Closed /\ Bucket(now) < Buckets - 1
  /\ trades' = trades + 1
  /\ db' = [db EXCEPT ![Bucket(now)] =
                        IF @ = NoBar THEN Ohlc(p) ELSE Extend(@, p)]
  /\ quotes' = IF feed = "on" THEN Append(quotes, p) ELSE quotes
  /\ UNCHANGED <<now, feed, bar, history, last>>

\* Redis publishes without acknowledgement: a quote may be lost.
Lose ==
  /\ quotes # <<>>
  /\ quotes' = Tail(quotes)
  /\ UNCHANGED <<now, db, trades, feed, bar, history, last>>

Pass ==
  /\ now < Buckets * Freq
  /\ now' = now + 1
  /\ UNCHANGED <<db, trades, quotes, feed, bar, history, last>>

-----------------------------------------------------------------------------
Init ==
  /\ now = 0 /\ db = [b \in 0 .. Buckets - 1 |-> NoBar] /\ trades = 0
  /\ quotes = <<>> /\ feed = "down" /\ bar = NoBar /\ history = <<>>
  /\ last = NoBar

Next ==
  \/ CheckTime \/ Quote \/ Load \/ SeedCurrent \/ Subscribe \/ Stop
  \/ \E p \in Prices : Trade(p)
  \/ Lose \/ Pass

\* The polling loop calls check_time every second and the clock goes on.
BarSpec == Init /\ [][Next]_vars /\ WF_vars(CheckTime) /\ WF_vars(Pass)
-----------------------------------------------------------------------------
(* Properties *)

\* A bar's range covers every tick taken into it, whatever was merged from the
\* database before or after the tick (merge_db_bar, check_time, on_tick).
TicksInside ==
  \A k \in {bar, last} \ {NoBar} : \A p \in k.seen : k.low <= p /\ p <= k.high

\* A bar's open and close lie in its range: a repair that takes an open or a
\* close from the database widens the range too.
WellFormed ==
  \A k \in {bar, last} \ {NoBar} :
    k.low <= k.open /\ k.open <= k.high /\ k.low <= k.close /\ k.close <= k.high

\* The bars handed to the engine are of later and later buckets, over restarts
\* too: the poll and a quote never both emit a bucket, and a seeded bar is never
\* one already handed on.
OncePerBucket ==
  [][last' # last => last'.bucket > last.bucket]_vars

\* The history is in order; a bucket is in it twice at most for the one bucket
\* that was preloaded unfinished and then seeded.
HistoryInOrder ==
  /\ \A i \in 1 .. Len(history) - 1 : history[i] <= history[i + 1]
  /\ \A i, j \in 1 .. Len(history) - 1 :
       history[i] = history[i + 1] /\ history[j] = history[j + 1] => i = j

\* A bar being formed is never dropped: it enters the history in the step that
\* ends it, unless the process stops.
NoBarDropped ==
  [][feed = "on" /\ bar # NoBar /\ bar'.bucket # bar.bucket =>
       \/ feed' = "down"
       \/ history' # <<>> /\ history'[Len(history')] = bar.bucket]_vars

\* Once subscribed, every bucket with a bar is closed, even when no further quote
\* comes: the poll closes what no tick does.
BucketsClose ==
  \A b \in 0 .. Buckets - 1 : feed = "on" /\ bar.bucket = b ~> bar.bucket # b
=============================================================================
