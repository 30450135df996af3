------------------------ MODULE BarAggregatorProofs ------------------------
(***************************************************************************)
(* Theorems about BarAggregator for any prices, bucket length, thresholds, *)
(* trading hours and warm-up: bars are well formed, cover their ticks and  *)
(* are handed on once per bucket.                                          *)
(***************************************************************************)
EXTENDS BarAggregator, TLAPS

\* An OHLC bar whose open and close lie in its range.
Ohlcs == [open : Int, high : Int, low : Int, close : Int]
Sound(k) == k.low <= k.open /\ k.open <= k.high /\ k.low <= k.close /\ k.close <= k.high

\* A live bar, without the bounds of the model.
Live == [bucket : 0 .. Buckets - 1, open : Int, high : Int, low : Int, close : Int,
         first : Int, latest : Int, count : Int, gap : Int,
         merged : BOOLEAN, seen : SUBSET Int]
Whole(k) == k \in Live /\ Sound(k) /\ \A p \in k.seen : k.low <= p /\ p <= k.high

\* The inductive invariant: every bar is whole, so is what the database holds,
\* and the last bar handed on is of an earlier bucket than the forming one, which
\* is not later than the clock's.
BarInv ==
  /\ now \in Nat
  /\ \A b \in 0 .. Buckets - 1 : db[b] = NoBar \/ (db[b] \in Ohlcs /\ Sound(db[b]))
  /\ db = [b \in 0 .. Buckets - 1 |-> db[b]]
  /\ quotes \in Seq(Prices)
  /\ bar = NoBar \/ Whole(bar)
  /\ last = NoBar \/ Whole(last)
  /\ last.bucket < Bucket(now)
  /\ bar # NoBar /\ feed # "read" => last.bucket < bar.bucket /\ bar.bucket <= Bucket(now)

LEMMA BucketFacts ==
  ASSUME NEW t \in Nat
  PROVE  /\ Bucket(t) \in Nat
         /\ Bucket(t) <= Bucket(t + 1)
BY BarAssumption DEF Bucket

LEMMA LiveIsNoNoBar == \A k \in Live : k # NoBar /\ k.bucket \in Nat /\ k.bucket > -100
BY BarAssumption DEF Live, NoBar

\* Repairing a whole bar with a sound one keeps it whole, and its bucket.
LEMMA MergeKeepsWhole ==
  ASSUME NEW k, Whole(k), NEW d \in Ohlcs, Sound(d), NEW rs
  PROVE  Whole(Merge(k, d, rs)) /\ Merge(k, d, rs).bucket = k.bucket
<1>1. /\ Hi(k.high, d.high) \in Int /\ Lo(k.low, d.low) \in Int
      /\ Hi(k.high, d.high) >= k.high /\ Hi(k.high, d.high) >= d.high
      /\ Lo(k.low, d.low) <= k.low /\ Lo(k.low, d.low) <= d.low
  BY DEF Whole, Live, Ohlcs, Hi, Lo
<1> DEFINE o == IF "start_gap" \in rs THEN d.open ELSE k.open
           c == IF "end_gap" \in rs THEN d.close ELSE k.close
           h == Hi(k.high, d.high)
           l == Lo(k.low, d.low)
           w == [k EXCEPT !.open = o, !.close = c, !.high = h, !.low = l]
<1>2. o \in {k.open, d.open} /\ c \in {k.close, d.close}
  OBVIOUS
<1>3. Merge(k, d, rs) = k \/ Merge(k, d, rs) = w
  BY DEF Merge
<1>4. /\ k \in Live /\ o \in Int /\ c \in Int
      /\ l <= o /\ o <= h /\ l <= c /\ c <= h
  BY <1>1, <1>2 DEF Whole, Sound, Live, Ohlcs
<1>5. \A p \in k.seen : p \in Int /\ k.low <= p /\ p <= k.high
  BY DEF Whole, Live
<1>6. \A p \in k.seen : l <= p /\ p <= h
  <2> SUFFICES ASSUME NEW p \in k.seen PROVE l <= p /\ p <= h
    OBVIOUS
  <2>1. k.low \in Int /\ k.high \in Int
    BY <1>4 DEF Live
  <2> QED BY <1>1, <1>5, <2>1
<1> HIDE DEF o, c, h, l
<1>7. /\ w.open = o /\ w.close = c /\ w.high = h /\ w.low = l /\ w.seen = k.seen
      /\ w.bucket = k.bucket
  BY <1>4 DEF Live
<1>8. w \in Live
  BY <1>1, <1>4 DEF Live, h, l
<1> QED BY <1>3, <1>4, <1>6, <1>7, <1>8 DEF Whole, Sound

LEMMA MaybeMergeKeepsWhole ==
  ASSUME NEW k, Whole(k), NEW t, NEW d, d = NoBar \/ (d \in Ohlcs /\ Sound(d))
  PROVE  Whole(MaybeMerge(k, t, d)) /\ MaybeMerge(k, t, d).bucket = k.bucket
BY MergeKeepsWhole DEF MaybeMerge

LEMMA AnswerFacts ==
  ASSUME BarInv, NEW b \in 0 .. Buckets - 1, NEW d \in Answers(b)
  PROVE  d = NoBar \/ (d \in Ohlcs /\ Sound(d))
BY DEF BarInv, Answers

\* Emitting hands on a whole bar of the same bucket, or nothing.
LEMMA EmitFacts ==
  ASSUME NEW k, Whole(k), NEW d, d = NoBar \/ (d \in Ohlcs /\ Sound(d)), Emit(k, d)
  PROVE  last' = last \/ (Whole(last') /\ last'.bucket = k.bucket)
BY MaybeMergeKeepsWhole DEF Emit

LEMMA StartFacts ==
  ASSUME NEW p \in Prices, now \in Nat, Bucket(now) < Buckets
  PROVE  Whole(StartBar(p)) /\ StartBar(p).bucket = Bucket(now)
<1>1. p \in Int /\ Bucket(now) \in 0 .. Buckets - 1
  BY BarAssumption, BucketFacts
<1>2. StartBar(p) \in Live
  BY <1>1 DEF StartBar, Live
<1> QED BY <1>1, <1>2 DEF StartBar, Whole, Sound

LEMMA AccumulateFacts ==
  ASSUME NEW k, Whole(k), NEW p \in Int, now \in Nat
  PROVE  Whole(Accumulate(k, p)) /\ Accumulate(k, p).bucket = k.bucket
<1> DEFINE h == Hi(k.high, p)
           l == Lo(k.low, p)
           g == Hi(k.gap, now - k.latest)
           u == [k EXCEPT !.high = h, !.low = l, !.close = p]
           v == [u EXCEPT !.gap = g, !.latest = now, !.count = k.count + 1]
           w == [v EXCEPT !.seen = k.seen \cup {p}]
<1>1. /\ h \in Int /\ l \in Int /\ g \in Int
      /\ h >= k.high /\ h >= p /\ l <= k.low /\ l <= p
      /\ k \in Live /\ k.count + 1 \in Int /\ k.seen \cup {p} \subseteq Int
  BY DEF Whole, Live, Hi, Lo
<1>2. \A q \in k.seen \cup {p} : l <= q /\ q <= h
  <2> SUFFICES ASSUME NEW q \in k.seen PROVE l <= q /\ q <= h
    BY <1>1
  <2>1. q \in Int /\ k.low <= q /\ q <= k.high /\ k.low \in Int /\ k.high \in Int
    BY DEF Whole, Live
  <2> QED BY <1>1, <2>1
<1>3. Accumulate(k, p) = w
  BY DEF Accumulate
<1>4. l <= k.open /\ k.open <= h
  BY <1>1 DEF Whole, Sound, Live
<1> HIDE DEF h, l, g
<1>5. /\ u \in Live /\ u.open = k.open /\ u.high = h /\ u.low = l /\ u.close = p
      /\ u.bucket = k.bucket
  BY <1>1 DEF Live
<1> HIDE DEF u
<1>6. /\ v \in Live /\ v.open = u.open /\ v.high = h /\ v.low = l /\ v.close = p
      /\ v.bucket = k.bucket
  <2>1. now \in Int /\ g \in Int /\ k.count + 1 \in Int
    BY <1>1
  <2> DEFINE c == k.count + 1
  <2> HIDE DEF c
  <2>2. v = [u EXCEPT !.gap = g, !.latest = now, !.count = c]
    BY DEF v, c
  <2>3. c \in Int
    BY <2>1 DEF c
  <2> QED BY <1>5, <2>1, <2>2, <2>3 DEF Live
<1> HIDE DEF v
<1>7. /\ w \in Live /\ w.open = k.open /\ w.high = h /\ w.low = l /\ w.close = p
      /\ w.seen = k.seen \cup {p} /\ w.bucket = k.bucket
  BY <1>1, <1>5, <1>6 DEF Live
<1> QED BY <1>1, <1>2, <1>3, <1>4, <1>7 DEF Whole, Sound

LEMMA SeedFacts ==
  ASSUME NEW b \in 0 .. Buckets - 1, db[b] \in Ohlcs, Sound(db[b])
  PROVE  Whole(Seed(b)) /\ Seed(b).bucket = b
<1>1. b * Freq \in Int
  BY BarAssumption
<1>2. Seed(b) \in Live
  BY <1>1 DEF Seed, Live, Ohlcs
<1> QED BY <1>2 DEF Seed, Whole, Sound, Ohlcs

LEMMA InitBarInv == Init => BarInv
BY BarAssumption, BucketFacts DEF Init, BarInv, NoBar

LEMMA LastBucketInt == BarInv => last.bucket \in Int
BY DEF BarInv, NoBar, Whole, Live

\* What an action that emits, or keeps, the last bar must show.
LEMMA HandedOn ==
  ASSUME BarInv, NEW k, Whole(k), last.bucket < k.bucket, k.bucket < Bucket(now),
         last' = last \/ (Whole(last') /\ last'.bucket = k.bucket)
  PROVE  /\ last' = NoBar \/ Whole(last')
         /\ last'.bucket <= k.bucket
         /\ last' # last => last'.bucket > last.bucket
<1>1. last.bucket \in Int /\ (last = NoBar \/ Whole(last))
  BY LastBucketInt DEF BarInv
<1>2. k.bucket \in Int
  BY DEF Whole, Live
<1>3. CASE last' = last
  BY <1>1, <1>2, <1>3
<1>4. CASE Whole(last') /\ last'.bucket = k.bucket
  BY <1>1, <1>2, <1>4
<1> QED BY <1>3, <1>4

LEMMA PreclosedFacts ==
  ASSUME Whole(bar), NEW d, d = NoBar \/ (d \in Ohlcs /\ Sound(d))
  PROVE  Whole(Preclosed(d)) /\ Preclosed(d).bucket = bar.bucket
<1> DEFINE k == Merge(bar, d, Reasons(bar, now))
<1>1. CASE Preclosed(d) = bar
  BY <1>1
<1>2. CASE d # NoBar /\ Preclosed(d) = [k EXCEPT !.merged = TRUE]
  <2>1. Whole(k) /\ k.bucket = bar.bucket
    BY <1>2, MergeKeepsWhole
  <2> HIDE DEF k
  <2> QED BY <1>2, <2>1 DEF Whole, Live, Sound
<1> QED BY <1>1, <1>2 DEF Preclosed

LEMMA CheckTimeKeeps ==
  BarInv /\ CheckTime => BarInv' /\ (last' # last => last'.bucket > last.bucket)
<1> SUFFICES ASSUME BarInv, CheckTime
             PROVE  BarInv' /\ (last' # last => last'.bucket > last.bucket)
  OBVIOUS
<1>1. /\ Whole(bar) /\ bar.bucket \in 0 .. Buckets - 1
      /\ last.bucket < bar.bucket /\ bar.bucket <= Bucket(now)
      /\ UNCHANGED <<now, db, quotes>> /\ Bucket(now) \in Nat
      /\ feed = "on" /\ feed' = "on"
  BY BucketFacts DEF CheckTime, BarInv, Whole, Live
<1>2. PICK d \in Answers(bar.bucket), e \in Answers(bar.bucket) :
        IF Bucket(now) # bar.bucket
        THEN Emit(Preclosed(d), e) /\ bar' = NoBar
        ELSE bar' = Preclosed(d) /\ UNCHANGED <<history, last>>
  BY DEF CheckTime
<1>3. /\ d = NoBar \/ (d \in Ohlcs /\ Sound(d))
      /\ e = NoBar \/ (e \in Ohlcs /\ Sound(e))
  BY <1>1, AnswerFacts
<1>4. Whole(Preclosed(d)) /\ Preclosed(d).bucket = bar.bucket
  BY <1>1, <1>3, PreclosedFacts
<1>5. CASE Bucket(now) # bar.bucket
  <2>1. last' = last \/ (Whole(last') /\ last'.bucket = bar.bucket)
    BY <1>2, <1>3, <1>4, <1>5, EmitFacts
  <2>2. /\ last' = NoBar \/ Whole(last')
        /\ last'.bucket <= bar.bucket
        /\ last' # last => last'.bucket > last.bucket
    BY <1>1, <1>5, <2>1, HandedOn
  <2>3. last'.bucket \in Int
    BY <2>2 DEF NoBar, Whole, Live
  <2> QED BY <1>1, <1>2, <1>5, <2>2, <2>3 DEF BarInv, Bucket
<1>6. CASE Bucket(now) = bar.bucket
  BY <1>1, <1>2, <1>4, <1>6 DEF BarInv, Bucket
<1> QED BY <1>5, <1>6

LEMMA QuoteKeeps ==
  BarInv /\ Quote => BarInv' /\ (last' # last => last'.bucket > last.bucket)
<1> SUFFICES ASSUME BarInv, Quote
             PROVE  BarInv' /\ (last' # last => last'.bucket > last.bucket)
  OBVIOUS
<1> DEFINE p == Head(quotes)
<1>1. /\ quotes' \in Seq(Prices) /\ p \in Prices /\ p \in Int
      /\ UNCHANGED <<now, db>> /\ now \in Nat /\ Bucket(now) < Buckets
      /\ feed = "on" /\ feed' = "on"
  BY BarAssumption DEF Quote, BarInv
<1>2. Whole(StartBar(p)) /\ StartBar(p).bucket = Bucket(now) /\ Bucket(now) \in Nat
  BY <1>1, StartFacts, BucketFacts
<1>3. bar # NoBar =>
        /\ Whole(bar) /\ bar.bucket \in 0 .. Buckets - 1
        /\ last.bucket < bar.bucket /\ bar.bucket <= Bucket(now)
  BY <1>1 DEF BarInv, Whole, Live
<1>4. last.bucket \in Int
  BY LastBucketInt
<1> HIDE DEF p
<1>5. CASE UNCHANGED <<bar, history, last>>
  BY <1>1, <1>5 DEF BarInv, Bucket
<1>6. CASE bar = NoBar /\ bar' = StartBar(p) /\ last' = last
  BY <1>1, <1>2, <1>6 DEF BarInv, Bucket
<1>7. CASE /\ bar # NoBar /\ bar.bucket # Bucket(now) /\ bar' = StartBar(p)
           /\ \E d \in Answers(bar.bucket) : Emit(bar, d)
  <2>1. PICK d \in Answers(bar.bucket) : Emit(bar, d)
    BY <1>7
  <2>2. d = NoBar \/ (d \in Ohlcs /\ Sound(d))
    BY <1>3, <1>7, AnswerFacts
  <2>3. last' = last \/ (Whole(last') /\ last'.bucket = bar.bucket)
    BY <1>3, <1>7, <2>1, <2>2, EmitFacts
  <2>4. last.bucket < bar.bucket /\ bar.bucket < Bucket(now)
    BY <1>2, <1>3, <1>7
  <2>5. /\ last' = NoBar \/ Whole(last')
        /\ last'.bucket <= bar.bucket
        /\ last' # last => last'.bucket > last.bucket
    BY <1>3, <1>7, <2>3, <2>4, HandedOn
  <2>6. last'.bucket \in Int
    BY <2>5 DEF NoBar, Whole, Live
  <2> QED BY <1>1, <1>2, <1>3, <1>7, <2>4, <2>5, <2>6 DEF BarInv, Bucket
<1>8. CASE bar # NoBar /\ bar' = Accumulate(bar, p) /\ last' = last
  <2>1. Whole(bar') /\ bar'.bucket = bar.bucket
    BY <1>1, <1>3, <1>8, AccumulateFacts
  <2> QED BY <1>1, <1>3, <1>8, <2>1 DEF BarInv, Bucket
<1> QED BY <1>5, <1>6, <1>7, <1>8 DEF Quote, OnTick, p

LEMMA LoadKeeps == BarInv /\ Load => BarInv' /\ last' = last
<1> SUFFICES ASSUME BarInv, Load PROVE BarInv' /\ last' = last
  OBVIOUS
<1>1. UNCHANGED <<now, db, quotes, last>> /\ feed' = "read"
  BY DEF Load
<1>2. CASE bar' = NoBar
  BY <1>1, <1>2 DEF BarInv, Bucket
<1>3. CASE \E b \in Filed : bar' = Seed(b)
  <2>1. PICK b \in Filed : bar' = Seed(b)
    BY <1>3
  <2>2. Whole(bar')
    BY <2>1, SeedFacts DEF BarInv, Filed
  <2> QED BY <1>1, <2>2 DEF BarInv, Bucket
<1> QED BY <1>2, <1>3 DEF Load

LEMMA SeedCurrentKeeps == BarInv /\ SeedCurrent => BarInv' /\ last' = last
<1> SUFFICES ASSUME BarInv, SeedCurrent PROVE BarInv' /\ last' = last
  OBVIOUS
<1>1. UNCHANGED <<now, db, quotes, last>> /\ feed' = "loaded" /\ Bucket(now) \in Nat
  BY BucketFacts DEF SeedCurrent, BarInv
<1>2. CASE bar' = NoBar
  BY <1>1, <1>2 DEF BarInv, Bucket
<1>3. CASE bar' = bar /\ bar.bucket = Bucket(now)
  BY <1>1, <1>3 DEF BarInv, Bucket
<1> QED BY <1>2, <1>3 DEF SeedCurrent

LEMMA ExtendFacts ==
  ASSUME NEW k \in Ohlcs, Sound(k), NEW p \in Int
  PROVE  Extend(k, p) \in Ohlcs /\ Sound(Extend(k, p))
<1> DEFINE h == Hi(k.high, p)
           l == Lo(k.low, p)
           w == [k EXCEPT !.high = h, !.low = l, !.close = p]
<1>1. /\ h \in Int /\ l \in Int /\ l <= p /\ p <= h
      /\ l <= k.open /\ k.open <= h
  BY DEF Ohlcs, Sound, Hi, Lo
<1>2. Extend(k, p) = w
  BY DEF Extend
<1> HIDE DEF h, l
<1>3. w \in Ohlcs /\ w.open = k.open /\ w.high = h /\ w.low = l /\ w.close = p
  BY <1>1 DEF Ohlcs
<1> QED BY <1>1, <1>2, <1>3 DEF Sound

LEMMA TradeKeeps == \A p \in Prices : BarInv /\ Trade(p) => BarInv' /\ last' = last
<1> SUFFICES ASSUME NEW p \in Prices, BarInv, Trade(p) PROVE BarInv' /\ last' = last
  OBVIOUS
<1>1. /\ p \in Int /\ UNCHANGED <<now, feed, bar, last>> /\ quotes' \in Seq(Prices)
      /\ Bucket(now) \in Nat /\ Bucket(now) < Buckets - 1
  BY BarAssumption, BucketFacts DEF Trade, BarInv
<1> DEFINE old == db[Bucket(now)]
           new == IF old = NoBar THEN Ohlc(p) ELSE Extend(old, p)
<1>2. Bucket(now) \in 0 .. Buckets - 1
  BY <1>1, BarAssumption
<1>3. old = NoBar \/ (old \in Ohlcs /\ Sound(old))
  BY <1>2 DEF BarInv
<1>4. new \in Ohlcs /\ Sound(new)
  <2>1. CASE old = NoBar
    BY <1>1, <2>1 DEF Ohlc, Ohlcs, Sound
  <2>2. CASE old # NoBar
    BY <1>1, <1>3, <2>2, ExtendFacts
  <2> QED BY <2>1, <2>2
<1>5. db' = [db EXCEPT ![Bucket(now)] = new]
  BY DEF Trade
<1> HIDE DEF old, new
<1>6. /\ \A b \in 0 .. Buckets - 1 : db'[b] = IF b = Bucket(now) THEN new ELSE db[b]
      /\ db' = [b \in 0 .. Buckets - 1 |-> db'[b]]
  BY <1>2, <1>5 DEF BarInv
<1>7. \A b \in 0 .. Buckets - 1 : db'[b] = NoBar \/ (db'[b] \in Ohlcs /\ Sound(db'[b]))
  BY <1>4, <1>6 DEF BarInv
<1> QED BY <1>1, <1>6, <1>7 DEF BarInv, Bucket

LEMMA OtherKeeps ==
  BarInv /\ (Subscribe \/ Stop \/ Lose \/ Pass \/ UNCHANGED vars) => BarInv' /\ last' = last
<1> SUFFICES ASSUME BarInv PROVE
      (Subscribe \/ Stop \/ Lose \/ Pass \/ UNCHANGED vars) => BarInv' /\ last' = last
  OBVIOUS
<1>1. CASE Subscribe \/ UNCHANGED vars
  BY <1>1 DEF BarInv, Bucket, Subscribe, vars
<1>2. CASE Stop
  BY <1>2 DEF BarInv, Bucket, Stop
<1>3. CASE Lose
  BY <1>3 DEF BarInv, Bucket, Lose
<1>4. CASE Pass
  <2>1. /\ now' = now + 1 /\ now \in Nat /\ UNCHANGED <<db, quotes, feed, bar, last>>
    BY <1>4 DEF Pass, BarInv
  <2>4. now + 1 \in Nat
    BY <2>1
  <2>5. /\ Bucket(now) \in Nat /\ Bucket(now + 1) \in Nat
        /\ Bucket(now) <= Bucket(now + 1)
    BY <2>1, <2>4, BucketFacts
  <2>2. /\ last.bucket \in Int /\ last.bucket < Bucket(now)
        /\ bar # NoBar /\ feed # "read" => bar.bucket \in Int /\ bar.bucket <= Bucket(now)
    BY LastBucketInt DEF BarInv, Whole, Live
  <2>3. last.bucket < Bucket(now') /\ (bar # NoBar /\ feed # "read" => bar.bucket <= Bucket(now'))
    BY <2>1, <2>2, <2>5
  <2> QED BY <2>1, <2>3 DEF BarInv, Bucket
<1> QED BY <1>1, <1>2, <1>3, <1>4

LEMMA StepKeeps ==
  BarInv /\ [Next]_vars => BarInv' /\ (last' # last => last'.bucket > last.bucket)
BY CheckTimeKeeps, QuoteKeeps, LoadKeeps, SeedCurrentKeeps, TradeKeeps, OtherKeeps DEF Next

LEMMA BarInvAlways == BarSpec => []BarInv
<1>1. BarInv /\ [Next]_vars => BarInv'
  BY StepKeeps
<1> QED BY InitBarInv, <1>1, PTL DEF BarSpec

\* A bar's range covers every tick taken into it, over any interleaving of
\* quotes, polls and repairs (BarAggregator.on_tick, check_time, merge_db_bar).
THEOREM RangeHoldsTicks == BarSpec => []TicksInside
<1>1. BarInv => TicksInside
  BY DEF BarInv, TicksInside, Whole
<1> QED BY BarInvAlways, <1>1, PTL

\* A bar's open and close lie in its range, repaired or not (merge_db_bar).
THEOREM BarsWellFormed == BarSpec => []WellFormed
<1>1. BarInv => WellFormed
  BY DEF BarInv, WellFormed, Whole, Sound
<1> QED BY BarInvAlways, <1>1, PTL

\* Bars are handed to the engine once per bucket and in order, over restarts,
\* late quotes and polls (BarAggregator._emit_bar, seed_current_live_bar).
THEOREM BarsOnceInOrder == BarSpec => OncePerBucket
<1>1. BarInv /\ [Next]_vars => [last' # last => last'.bucket > last.bucket]_vars
  BY StepKeeps
<1> QED BY BarInvAlways, <1>1, PTL DEF BarSpec, OncePerBucket

-----------------------------------------------------------------------------
(* The history *)

\* A history of integers in order, without a repetition, or with one at most.
Rising(h) == h \in Seq(Int) /\ \A i \in 1 .. Len(h) - 1 : h[i] < h[i + 1]
OneRepeat(h) ==
  /\ h \in Seq(Int)
  /\ \A i \in 1 .. Len(h) - 1 : h[i] <= h[i + 1]
  /\ \A i, j \in 1 .. Len(h) - 1 : h[i] = h[i + 1] /\ h[j] = h[j + 1] => i = j

\* Every bar of the history is of an earlier bucket than b.
Below(h, b) == \A i \in 1 .. Len(h) : h[i] < b

\* The database has no bar of a bucket to come.  The history is without a
\* repetition while the row to be seeded is its last bar or the seeded bar is
\* being formed; only when that one is emitted a bucket is repeated, and from
\* then on the bar being formed is later than the whole history.
HistInv ==
  /\ \A b \in 0 .. Buckets - 1 : db[b] # NoBar => b <= Bucket(now)
  /\ history \in Seq(Int)
  /\ feed \in {"down", "read", "loaded", "on"}
  /\ feed = "down" => history = <<>>
  /\ feed = "read" =>
       /\ Rising(history)
       /\ bar = NoBar => Below(history, Bucket(now))
       /\ bar # NoBar => bar.bucket <= Bucket(now) /\ Below(history, bar.bucket + 1)
  /\ feed \in {"loaded", "on"} =>
       /\ bar = NoBar => OneRepeat(history) /\ Below(history, Bucket(now))
       /\ bar # NoBar =>
            \/ OneRepeat(history) /\ Below(history, bar.bucket)
            \/ Rising(history) /\ Below(history, bar.bucket + 1)

LEMMA RisingIsOneRepeat == ASSUME NEW h, Rising(h) PROVE OneRepeat(h)
<1>1. \A i \in 1 .. Len(h) - 1 : h[i] \in Int /\ h[i + 1] \in Int /\ h[i] < h[i + 1]
  BY DEF Rising
<1> QED BY <1>1 DEF OneRepeat, Rising

LEMMA BelowMore ==
  ASSUME NEW h \in Seq(Int), NEW b \in Int, NEW c \in Int, b <= c, Below(h, b)
  PROVE  Below(h, c)
BY DEF Below

\* Where an appended bar stands.
LEMMA AppendAt ==
  ASSUME NEW h \in Seq(Int), NEW b \in Int
  PROVE  LET k == Append(h, b)
         IN /\ k \in Seq(Int) /\ Len(k) = Len(h) + 1 /\ k[Len(h) + 1] = b
            /\ \A i \in 1 .. Len(h) : k[i] = h[i]
OBVIOUS

\* A later bar leaves the history as it is; the last one again is the repetition.
LEMMA AppendLater ==
  ASSUME NEW h, OneRepeat(h), NEW b \in Int, Below(h, b)
  PROVE  OneRepeat(Append(h, b)) /\ Below(Append(h, b), b + 1)
<1> DEFINE k == Append(h, b)
<1>1. /\ k \in Seq(Int) /\ Len(k) = Len(h) + 1 /\ k[Len(h) + 1] = b
      /\ \A i \in 1 .. Len(h) : k[i] = h[i]
      /\ Len(h) \in Nat /\ \A i \in 1 .. Len(h) : h[i] \in Int /\ h[i] < b
  BY AppendAt DEF OneRepeat, Below
<1> HIDE DEF k
<1>2. \A i \in 1 .. Len(k) - 1 :
        \/ i = Len(h) /\ k[i] < k[i + 1]
        \/ i \in 1 .. Len(h) - 1 /\ k[i] = h[i] /\ k[i + 1] = h[i + 1]
  BY <1>1
<1>3. \A i \in 1 .. Len(k) - 1 : k[i] <= k[i + 1]
  BY <1>1, <1>2 DEF OneRepeat
<1>4. \A i \in 1 .. Len(k) - 1 : k[i] = k[i + 1] =>
        i \in 1 .. Len(h) - 1 /\ h[i] = h[i + 1]
  BY <1>1, <1>2
<1>5. \A i \in 1 .. Len(k) : k[i] < b + 1
  BY <1>1
<1> QED BY <1>1, <1>3, <1>4, <1>5 DEF OneRepeat, Below, k

LEMMA AppendAgain ==
  ASSUME NEW h, Rising(h), NEW b \in Int, Below(h, b + 1)
  PROVE  OneRepeat(Append(h, b)) /\ Below(Append(h, b), b + 1)
<1> DEFINE k == Append(h, b)
<1>1. /\ k \in Seq(Int) /\ Len(k) = Len(h) + 1 /\ k[Len(h) + 1] = b
      /\ \A i \in 1 .. Len(h) : k[i] = h[i]
      /\ Len(h) \in Nat /\ \A i \in 1 .. Len(h) : h[i] \in Int /\ h[i] <= b
  BY AppendAt DEF Rising, Below
<1> HIDE DEF k
<1>2. \A i \in 1 .. Len(k) - 1 :
        \/ i = Len(h) /\ k[i] <= k[i + 1]
        \/ i \in 1 .. Len(h) - 1 /\ k[i] < k[i + 1]
  BY <1>1 DEF Rising
<1>3. \A i \in 1 .. Len(k) - 1 : k[i] <= k[i + 1]
  BY <1>1, <1>2
<1>4. \A i \in 1 .. Len(k) - 1 : k[i] = k[i + 1] => i = Len(h)
  BY <1>1, <1>2
<1>5. \A i \in 1 .. Len(k) : k[i] < b + 1
  BY <1>1
<1> QED BY <1>1, <1>3, <1>4, <1>5 DEF OneRepeat, Below, k

\* Trimming keeps the end of the history, hence everything said of it.
LEMMA TrimAt ==
  ASSUME NEW h \in Seq(Int)
  PROVE  /\ Trim(h) \in Seq(Int)
         /\ \E m \in Nat : /\ Len(Trim(h)) = Len(h) - m
                           /\ \A i \in 1 .. Len(Trim(h)) : Trim(h)[i] = h[i + m]
         /\ h # <<>> => Trim(h) # <<>> /\ Trim(h)[Len(Trim(h))] = h[Len(h)]
<1> DEFINE m == Len(h) - 5 * Warmup
<1>0. Warmup \in Nat /\ Warmup > 0 /\ Len(h) \in Nat /\ m \in Int
  BY BarAssumption
<1>1. CASE m <= 0
  <2>1. Trim(h) = h
    BY <1>0, <1>1 DEF Trim
  <2> QED BY <1>0, <2>1
<1>2. CASE m > 0
  <2> DEFINE s == SubSeq(h, m + 1, Len(h))
  <2>1. Trim(h) = s
    BY <1>0, <1>2 DEF Trim
  <2>2. m < Len(h) /\ m \in Nat
    BY <1>0, <1>2
  <2> HIDE DEF m
  <2>3. /\ s \in Seq(Int) /\ Len(s) = Len(h) - m
        /\ \A i \in 1 .. Len(s) : s[i] = h[i + m]
    BY <1>0, <2>2
  <2> HIDE DEF s
  <2>5. Len(s) \in 1 .. Len(s) /\ Len(s) + m = Len(h)
    BY <1>0, <2>2, <2>3
  <2>4. s # <<>> /\ s[Len(s)] = h[Len(h)]
    BY <2>3, <2>5
  <2> QED BY <2>1, <2>2, <2>3, <2>4
<1> QED BY <1>0, <1>1, <1>2

LEMMA TrimKeeps ==
  ASSUME NEW h \in Seq(Int), NEW b \in Int
  PROVE  /\ Rising(h) => Rising(Trim(h))
         /\ OneRepeat(h) => OneRepeat(Trim(h))
         /\ Below(h, b) => Below(Trim(h), b)
<1> DEFINE t == Trim(h)
<1>1. PICK m \in Nat : Len(t) = Len(h) - m /\ \A i \in 1 .. Len(t) : t[i] = h[i + m]
  BY TrimAt
<1>2. t \in Seq(Int) /\ Len(t) \in Nat /\ Len(h) \in Nat
  BY TrimAt
<1> HIDE DEF t
<1>3. \A i \in 1 .. Len(t) - 1 :
        /\ i + m \in 1 .. Len(h) - 1 /\ t[i] = h[i + m] /\ t[i + 1] = h[(i + m) + 1]
        /\ h[i + m] \in Int /\ h[(i + m) + 1] \in Int
  <2> SUFFICES ASSUME NEW i \in 1 .. Len(t) - 1
               PROVE  /\ i + m \in 1 .. Len(h) - 1
                      /\ t[i] = h[i + m] /\ t[i + 1] = h[(i + m) + 1]
                      /\ h[i + m] \in Int /\ h[(i + m) + 1] \in Int
    OBVIOUS
  <2>1. /\ i \in 1 .. Len(t) /\ i + 1 \in 1 .. Len(t) /\ (i + 1) + m = (i + m) + 1
        /\ i + m \in 1 .. Len(h) - 1 /\ i + m \in 1 .. Len(h)
        /\ (i + m) + 1 \in 1 .. Len(h)
    BY <1>1, <1>2
  <2>2. t[i] = h[i + m] /\ t[i + 1] = h[(i + 1) + m]
    BY <1>1, <2>1
  <2> QED BY <2>1, <2>2
<1>4. \A i \in 1 .. Len(t) : i + m \in 1 .. Len(h) /\ t[i] = h[i + m]
  BY <1>1, <1>2
<1>5. Rising(h) => Rising(t)
  BY <1>2, <1>3 DEF Rising
<1>6. OneRepeat(h) => OneRepeat(t)
  <2> SUFFICES ASSUME OneRepeat(h) PROVE OneRepeat(t)
    OBVIOUS
  <2>1. \A i \in 1 .. Len(t) - 1 : t[i] <= t[i + 1]
    BY <1>3 DEF OneRepeat
  <2>2. ASSUME NEW i \in 1 .. Len(t) - 1, NEW j \in 1 .. Len(t) - 1,
               t[i] = t[i + 1], t[j] = t[j + 1]
        PROVE  i = j
    <3>1. i + m = j + m
      BY <1>3, <2>2 DEF OneRepeat
    <3> QED BY <3>1, <1>2
  <2> QED BY <1>2, <2>1, <2>2 DEF OneRepeat
<1>7. Below(h, b) => Below(t, b)
  BY <1>4 DEF Below
<1> QED BY <1>5, <1>6, <1>7 DEF t

\* The rows of a warm-up load, after any number of bars of earlier days.
LEMMA PreloadedFacts ==
  ASSUME NEW n \in Nat, NEW s \in Rows, NEW b \in Int, 0 <= b,
         \A c \in Filed : c < b
  PROVE  Rising(Preloaded(n, s)) /\ Below(Preloaded(n, s), b)
<1> DEFINE o == [i \in 1..n |-> i - n - 1]
           h == o \o s
<1>1. PICK m \in 0 .. Buckets : s \in [1..m -> Filed]
  BY DEF Rows
<1>2. m \in Nat /\ Filed \subseteq Nat /\ \A c \in Filed : c \in Int
  BY BarAssumption DEF Filed
<1>3. s \in Seq(Int) /\ Len(s) = m /\ \A i \in 1 .. m : s[i] \in Nat /\ s[i] < b
  <2> HIDE DEF Filed, Rows
  <2>1. \A i \in 1 .. m : s[i] \in Filed
    BY <1>1
  <2>4. s = [i \in 1..m |-> s[i]]
    BY <1>1
  <2>5. \A i \in 1 .. m : s[i] \in Int
    BY <1>2, <2>1
  <2>2. s \in [1..m -> Int]
    BY <2>4, <2>5
  <2>3. s \in Seq(Int) /\ Len(s) = m
    BY <1>2, <2>2
  <2> QED BY <1>2, <2>1, <2>3
<1>4. \A i \in 1 .. m - 1 : s[i] < s[i + 1]
  BY <1>3 DEF Rows
<1>5. o \in Seq(Int) /\ Len(o) = n /\ \A i \in 1 .. n : o[i] = i - n - 1
  OBVIOUS
<1> HIDE DEF o
<1>6. /\ h \in Seq(Int) /\ Len(h) = n + m
      /\ \A i \in 1 .. n : h[i] = i - n - 1
      /\ \A i \in n + 1 .. n + m : h[i] = s[i - n]
  BY <1>2, <1>3, <1>5
<1> HIDE DEF h
<1>7. \A i \in 1 .. Len(h) - 1 : h[i] < h[i + 1]
  <2> SUFFICES ASSUME NEW i \in 1 .. Len(h) - 1 PROVE h[i] < h[i + 1]
    OBVIOUS
  <2>1. CASE i < n
    BY <1>2, <1>6, <2>1
  <2>2. CASE i = n
    <3>1. i \in 1 .. n /\ i + 1 \in n + 1 .. n + m /\ (i + 1) - n = 1 /\ 1 \in 1 .. m
      BY <1>2, <1>6, <2>2
    <3> QED BY <1>3, <1>6, <2>2, <3>1
  <2>3. CASE i > n
    <3> DEFINE j == i - n
    <3>1. /\ j \in 1 .. m - 1 /\ (i + 1) - n = j + 1
          /\ i \in n + 1 .. n + m /\ i + 1 \in n + 1 .. n + m
      BY <1>2, <1>6, <2>3
    <3>2. h[i] = s[j] /\ h[i + 1] = s[j + 1]
      BY <1>6, <3>1
    <3> QED BY <1>4, <3>1, <3>2
  <2> QED BY <2>1, <2>2, <2>3, <1>2, <1>6
<1>8. \A i \in 1 .. Len(h) : h[i] < b
  <2> SUFFICES ASSUME NEW i \in 1 .. Len(h) PROVE h[i] < b
    OBVIOUS
  <2>1. CASE i <= n
    BY <1>6, <2>1
  <2>2. CASE i > n
    <3>1. i \in n + 1 .. n + m /\ i - n \in 1 .. m
      BY <1>2, <1>6, <2>2
    <3> QED BY <1>3, <1>6, <3>1
  <2> QED BY <2>1, <2>2
<1>9. Rising(h) /\ Below(h, b)
  BY <1>6, <1>7, <1>8 DEF Rising, Below
<1> QED BY <1>6, <1>9, TrimKeeps DEF Preloaded, h, o

LEMMA InitHistInv == Init => HistInv
BY DEF Init, HistInv, NoBar

\* What the emission of the bar of bucket b leaves in the history.
LEMMA EmittedHistory ==
  ASSUME NEW b \in Int, history \in Seq(Int), history' = Trim(Append(history, b)),
         \/ OneRepeat(history) /\ Below(history, b)
         \/ Rising(history) /\ Below(history, b + 1)
  PROVE  /\ history' \in Seq(Int) /\ OneRepeat(history') /\ Below(history', b + 1)
         /\ history' # <<>> /\ history'[Len(history')] = b
<1> DEFINE k == Append(history, b)
<1>1. OneRepeat(k) /\ Below(k, b + 1)
  BY AppendLater, AppendAgain
<1>2. /\ k \in Seq(Int) /\ Len(k) = Len(history) + 1 /\ k[Len(k)] = b /\ k # <<>>
  BY AppendAt
<1>3. b + 1 \in Int
  OBVIOUS
<1> HIDE DEF k
<1>4. history' = Trim(k)
  BY DEF k
<1> QED BY <1>1, <1>2, <1>3, <1>4, TrimAt, TrimKeeps

\* The bar being formed is the last one of the history after the step.
Kept == history' # <<>> /\ history'[Len(history')] = bar.bucket

LEMMA CheckTimeHist ==
  BarInv /\ HistInv /\ CheckTime =>
    HistInv' /\ (bar # NoBar /\ bar'.bucket # bar.bucket => Kept)
<1> SUFFICES ASSUME BarInv, HistInv, CheckTime
             PROVE  HistInv' /\ (bar # NoBar /\ bar'.bucket # bar.bucket => Kept)
  OBVIOUS
<1>1. /\ Whole(bar) /\ bar.bucket \in 0 .. Buckets - 1
      /\ bar.bucket <= Bucket(now) /\ UNCHANGED <<now, db>> /\ Bucket(now) \in Nat
      /\ feed = "on" /\ feed' = "on" /\ bar # NoBar
  BY BucketFacts DEF CheckTime, BarInv, Whole, Live
<1>2. PICK d \in Answers(bar.bucket), e \in Answers(bar.bucket) :
        IF Bucket(now) # bar.bucket
        THEN Emit(Preclosed(d), e) /\ bar' = NoBar
        ELSE bar' = Preclosed(d) /\ UNCHANGED <<history, last>>
  BY DEF CheckTime
<1>3. d = NoBar \/ (d \in Ohlcs /\ Sound(d))
  BY <1>1, AnswerFacts
<1>4. Whole(Preclosed(d)) /\ Preclosed(d).bucket = bar.bucket
  BY <1>1, <1>3, PreclosedFacts
<1>5. /\ history \in Seq(Int)
      /\ \/ OneRepeat(history) /\ Below(history, bar.bucket)
         \/ Rising(history) /\ Below(history, bar.bucket + 1)
  BY <1>1 DEF HistInv
<1>6. CASE Bucket(now) # bar.bucket
  <2>1. history' = Trim(Append(history, bar.bucket)) /\ bar' = NoBar
    BY <1>2, <1>4, <1>6 DEF Emit
  <2>2. /\ history' \in Seq(Int) /\ OneRepeat(history')
        /\ Below(history', bar.bucket + 1) /\ Kept
    BY <1>1, <1>5, <2>1, EmittedHistory DEF Kept
  <2>3. Below(history', Bucket(now))
    BY <1>1, <1>6, <2>2, BelowMore
  <2> QED BY <1>1, <2>1, <2>2, <2>3 DEF HistInv, Bucket
<1>7. CASE Bucket(now) = bar.bucket
  <2>1. bar' # NoBar /\ bar'.bucket = bar.bucket /\ history' = history
    BY <1>2, <1>4, <1>7, LiveIsNoNoBar DEF Whole
  <2> QED BY <1>1, <1>5, <2>1 DEF HistInv, Bucket
<1> QED BY <1>6, <1>7

LEMMA QuoteHist ==
  BarInv /\ HistInv /\ Quote =>
    HistInv' /\ (bar # NoBar /\ bar'.bucket # bar.bucket => Kept)
<1> SUFFICES ASSUME BarInv, HistInv, Quote
             PROVE  HistInv' /\ (bar # NoBar /\ bar'.bucket # bar.bucket => Kept)
  OBVIOUS
<1> DEFINE p == Head(quotes)
<1>1. /\ p \in Prices /\ p \in Int /\ UNCHANGED <<now, db>>
      /\ now \in Nat /\ Bucket(now) < Buckets /\ feed = "on" /\ feed' = "on"
  BY BarAssumption DEF Quote, BarInv
<1>2. /\ Whole(StartBar(p)) /\ StartBar(p).bucket = Bucket(now) /\ Bucket(now) \in Nat
      /\ StartBar(p) # NoBar
  BY <1>1, StartFacts, BucketFacts, LiveIsNoNoBar DEF Whole
<1>3. bar # NoBar =>
        /\ Whole(bar) /\ bar.bucket \in 0 .. Buckets - 1 /\ bar.bucket <= Bucket(now)
  BY <1>1 DEF BarInv, Whole, Live
<1>4. /\ history \in Seq(Int)
      /\ bar = NoBar => OneRepeat(history) /\ Below(history, Bucket(now))
      /\ bar # NoBar => \/ OneRepeat(history) /\ Below(history, bar.bucket)
                        \/ Rising(history) /\ Below(history, bar.bucket + 1)
  BY <1>1 DEF HistInv
<1> HIDE DEF p
<1>5. CASE UNCHANGED <<bar, history, last>>
  BY <1>1, <1>4, <1>5 DEF HistInv, Bucket
<1>6. CASE bar = NoBar /\ bar' = StartBar(p) /\ history' = history
  BY <1>1, <1>2, <1>4, <1>6 DEF HistInv, Bucket
<1>7. CASE /\ bar # NoBar /\ bar.bucket # Bucket(now) /\ bar' = StartBar(p)
           /\ \E d \in Answers(bar.bucket) : Emit(bar, d)
  <2>1. history' = Trim(Append(history, bar.bucket))
    BY <1>7 DEF Emit
  <2>2. /\ history' \in Seq(Int) /\ OneRepeat(history')
        /\ Below(history', bar.bucket + 1) /\ Kept
    BY <1>3, <1>4, <1>7, <2>1, EmittedHistory DEF Kept
  <2>3. Below(history', Bucket(now))
    BY <1>2, <1>3, <1>7, <2>2, BelowMore
  <2> QED BY <1>1, <1>2, <1>7, <2>2, <2>3 DEF HistInv, Bucket
<1>8. CASE bar # NoBar /\ bar' = Accumulate(bar, p) /\ history' = history
  <2>1. bar' # NoBar /\ bar'.bucket = bar.bucket
    BY <1>1, <1>3, <1>8, AccumulateFacts, LiveIsNoNoBar DEF Whole
  <2> QED BY <1>1, <1>4, <1>8, <2>1 DEF HistInv, Bucket
<1> QED BY <1>5, <1>6, <1>7, <1>8 DEF Quote, OnTick, p

LEMMA LoadHist == BarInv /\ HistInv /\ Load => HistInv'
<1> SUFFICES ASSUME BarInv, HistInv, Load PROVE HistInv'
  OBVIOUS
<1>1. /\ UNCHANGED <<now, db>> /\ feed' = "read" /\ Bucket(now) \in Nat
      /\ Filed \subseteq 0 .. Buckets - 1 /\ \A b \in Filed : b <= Bucket(now)
  BY BucketFacts DEF Load, Filed, BarInv, HistInv
<1>2. PICK n \in Older, s \in Rows : history' = Preloaded(n, s)
  BY DEF Load
<1>3. n \in Nat
  BY BarAssumption
<1>4. CASE Filed = {} /\ bar' = NoBar
  <2>1. Rising(history') /\ Below(history', Bucket(now))
    BY <1>1, <1>2, <1>3, <1>4, PreloadedFacts
  <2> QED BY <1>1, <1>4, <2>1 DEF HistInv, Bucket, Rising
<1>5. CASE \E b \in Filed : (\A c \in Filed : c <= b) /\ bar' = Seed(b)
  <2>1. PICK b \in Filed : (\A c \in Filed : c <= b) /\ bar' = Seed(b)
    BY <1>5
  <2>2. bar' # NoBar /\ bar'.bucket = b /\ b \in Nat /\ b <= Bucket(now)
    BY <1>1, <2>1, SeedFacts, LiveIsNoNoBar DEF BarInv, Filed, Whole
  <2>3. b + 1 \in Int /\ 0 <= b + 1 /\ \A c \in Filed : c < b + 1
    BY <1>1, <2>1, <2>2
  <2>4. Rising(history') /\ Below(history', b + 1)
    BY <1>2, <1>3, <2>3, PreloadedFacts
  <2> QED BY <1>1, <2>2, <2>4 DEF HistInv, Bucket, Rising
<1> QED BY <1>4, <1>5 DEF Load

LEMMA SeedCurrentHist == BarInv /\ HistInv /\ SeedCurrent => HistInv'
<1> SUFFICES ASSUME BarInv, HistInv, SeedCurrent PROVE HistInv'
  OBVIOUS
<1>1. /\ UNCHANGED <<now, db, history>> /\ feed = "read" /\ feed' = "loaded"
      /\ Bucket(now) \in Nat /\ Rising(history) /\ OneRepeat(history)
      /\ history \in Seq(Int)
      /\ bar = NoBar => Below(history, Bucket(now))
      /\ bar # NoBar => /\ bar.bucket \in Int /\ bar.bucket <= Bucket(now)
                        /\ Below(history, bar.bucket + 1)
  BY BucketFacts, RisingIsOneRepeat DEF SeedCurrent, BarInv, HistInv, Whole, Live
<1>2. CASE bar = NoBar
  <2>1. bar' = NoBar
    BY <1>2 DEF SeedCurrent
  <2> QED BY <1>1, <1>2, <2>1 DEF HistInv, Bucket
<1>3. CASE bar # NoBar /\ bar.bucket = Bucket(now)
  <2>1. bar' = bar
    BY <1>3 DEF SeedCurrent
  <2> QED BY <1>1, <1>3, <2>1 DEF HistInv, Bucket
<1>4. CASE bar # NoBar /\ bar.bucket # Bucket(now)
  <2>1. bar' = NoBar
    BY <1>4 DEF SeedCurrent
  <2>2. bar.bucket + 1 \in Int /\ bar.bucket + 1 <= Bucket(now)
    BY <1>1, <1>4
  <2>3. Below(history, Bucket(now))
    BY <1>1, <1>4, <2>2, BelowMore
  <2> QED BY <1>1, <2>1, <2>3 DEF HistInv, Bucket
<1> QED BY <1>2, <1>3, <1>4

LEMMA PassHist == BarInv /\ HistInv /\ Pass => HistInv'
<1> SUFFICES ASSUME BarInv, HistInv, Pass PROVE HistInv'
  OBVIOUS
<1>1. /\ now' = now + 1 /\ now \in Nat /\ now' \in Nat
      /\ UNCHANGED <<db, feed, bar, history>>
  BY DEF Pass, BarInv
<1>2. Bucket(now) \in Nat /\ Bucket(now') \in Nat /\ Bucket(now) <= Bucket(now')
  BY <1>1, BucketFacts
<1>3. history \in Seq(Int) /\ (Below(history, Bucket(now)) => Below(history, Bucket(now')))
  BY <1>2, BelowMore DEF HistInv
<1>4. \A b \in 0 .. Buckets - 1 : db[b] # NoBar => b <= Bucket(now')
  BY <1>2, BarAssumption DEF HistInv
<1>5. bar # NoBar => bar.bucket \in Int
  BY DEF BarInv, Whole, Live
<1> DEFINE t == Bucket(now')
<1>6. t \in Nat /\ Bucket(now) <= t /\ t = Bucket(now')
  BY <1>2
<1> HIDE DEF t
<1>7. CASE feed = "read"
  <2>1. bar # NoBar => bar.bucket <= t
    BY <1>2, <1>5, <1>6, <1>7 DEF HistInv
  <2> QED BY <1>1, <1>3, <1>4, <1>6, <1>7, <2>1 DEF HistInv, Bucket
<1>8. CASE feed # "read"
  BY <1>1, <1>3, <1>4, <1>6, <1>8 DEF HistInv, Bucket
<1> QED BY <1>7, <1>8

LEMMA TradeHist == \A p \in Prices : BarInv /\ HistInv /\ Trade(p) => HistInv'
<1> SUFFICES ASSUME NEW p \in Prices, BarInv, HistInv, Trade(p) PROVE HistInv'
  OBVIOUS
<1>1. /\ UNCHANGED <<now, feed, bar, history>> /\ Bucket(now) \in Nat
  BY BucketFacts DEF Trade, BarInv
<1>2. \A b \in 0 .. Buckets - 1 : b # Bucket(now) => db'[b] = db[b]
  BY DEF Trade, BarInv
<1>3. \A b \in 0 .. Buckets - 1 : db'[b] # NoBar => b <= Bucket(now)
  BY <1>1, <1>2 DEF HistInv
<1> QED BY <1>1, <1>3 DEF HistInv, Bucket

LEMMA OtherHist ==
  BarInv /\ HistInv /\ (Subscribe \/ Stop \/ Lose \/ UNCHANGED vars) => HistInv'
<1> SUFFICES ASSUME BarInv, HistInv
             PROVE  (Subscribe \/ Stop \/ Lose \/ UNCHANGED vars) => HistInv'
  OBVIOUS
<1>1. CASE Subscribe \/ Lose \/ UNCHANGED vars
  BY <1>1 DEF HistInv, Bucket, Subscribe, Lose, vars
<1>2. CASE Stop
  BY <1>2 DEF HistInv, Bucket, Stop
<1> QED BY <1>1, <1>2

LEMMA StepHist ==
  BarInv /\ HistInv /\ [Next]_vars =>
    /\ HistInv'
    /\ feed = "on" /\ bar # NoBar /\ bar'.bucket # bar.bucket => feed' = "down" \/ Kept
<1> SUFFICES ASSUME BarInv, HistInv, [Next]_vars
             PROVE  /\ HistInv'
                    /\ feed = "on" /\ bar # NoBar /\ bar'.bucket # bar.bucket =>
                         feed' = "down" \/ Kept
  OBVIOUS
<1>1. CASE CheckTime
  BY <1>1, CheckTimeHist
<1>2. CASE Quote
  BY <1>2, QuoteHist
<1>3. CASE Load
  BY <1>3, LoadHist DEF Load
<1>4. CASE SeedCurrent
  BY <1>4, SeedCurrentHist DEF SeedCurrent
<1>5. CASE \E p \in Prices : Trade(p)
  BY <1>5, TradeHist DEF Trade
<1>6. CASE Pass
  BY <1>6, PassHist DEF Pass
<1>7. CASE Subscribe \/ Stop \/ Lose \/ UNCHANGED vars
  BY <1>7, OtherHist DEF Subscribe, Stop, Lose, vars
<1> QED BY <1>1, <1>2, <1>3, <1>4, <1>5, <1>6, <1>7 DEF Next

LEMMA HistInvAlways == BarSpec => [](BarInv /\ HistInv)
<1>1. BarInv /\ HistInv /\ [Next]_vars => BarInv' /\ HistInv'
  BY StepKeeps, StepHist
<1> QED BY InitBarInv, InitHistInv, <1>1, PTL DEF BarSpec

\* The history the indicators are computed from is in order, and repeats at most
\* one bucket, the one preloaded unfinished and then seeded
\* (BarAggregator.preload_history, seed_current_live_bar, _emit_bar, _trim_history).
THEOREM HistoryAlwaysInOrder == BarSpec => []HistoryInOrder
<1>1. BarInv /\ HistInv => HistoryInOrder
  BY RisingIsOneRepeat DEF HistInv, OneRepeat, HistoryInOrder
<1> QED BY HistInvAlways, <1>1, PTL

\* A bar that was begun is never lost while the feed is on: the step that ends it
\* appends it to the history, trimmed or not (on_tick, check_time, _emit_bar).
THEOREM BarsNeverDropped == BarSpec => NoBarDropped
<1>1. BarInv /\ HistInv /\ [Next]_vars =>
        [feed = "on" /\ bar # NoBar /\ bar'.bucket # bar.bucket =>
           feed' = "down" \/ (history' # <<>> /\ history'[Len(history')] = bar.bucket)]_vars
  BY StepHist DEF Kept
<1> QED BY HistInvAlways, <1>1, PTL DEF BarSpec, NoBarDropped
=============================================================================
