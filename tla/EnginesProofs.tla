--------------------------- MODULE EnginesProofs ---------------------------
(***************************************************************************)
(* Theorems about Engines for any bars, prices, signals, sizes, fees, stop *)
(* distances and loss limits, and any warm-up.                             *)
(***************************************************************************)
EXTENDS Engines, TLAPS

Accounts ==
    [cash : Int, equity : Int, pos : Int, entry : Int, sl : Int, tp : Int, fee : Int,
     dailyPnl : Int, lossHit : BOOLEAN, day : Int, realized : Int, trades : Int]

Orders ==
    [side : Side, qty : Nat \ {0}, limit : Nat, sl : Nat, tp : Nat, created : Nat]

\* The books balance, a flat account owes no commission, and the daily loss is
\* only ever over its limit after a close.
Balanced(a) ==
    /\ a \in Accounts
    /\ a.cash = Capital + a.realized - a.fee
    /\ a.pos = 0 => a.fee = 0
    /\ a.lossHit => a.pos = 0

\* An order waits only for a flat account within its daily loss, and was made
\* on a bar of trading hours.
Waits(a, o) ==
    o # NoOrder => /\ o \in Orders
                   /\ a.pos = 0 /\ ~a.lossHit
                   /\ IsTradingHours(o.created)

Idle(a, o) == a.pos = 0 /\ o = NoOrder

BInv ==
    /\ times \in Seq(Nat) /\ n \in Nat /\ ahead \in Shapes
    /\ Balanced(account) /\ Waits(account, pending)
    /\ Balanced(eventAccount) /\ Waits(eventAccount, queued)
    /\ n <= WarmupBars => Idle(account, pending) /\ Idle(eventAccount, queued)
    /\ FlatIntoAuction
    /\ AuctionEndsDay
-----------------------------------------------------------------------------
(* Amounts and sizes.                                                      *)

LEMMA AmountFacts ==
    ASSUME NEW a \in Accounts, NEW price \in Int, NEW q \in Int
    PROVE  Fee(price, q) \in Int /\ Gross(a, price) \in Int /\ Magnitude(a.pos) \in Nat
<1>1. FeeRate \in Int /\ Multiplier \in Int
  BY AccountAssumption
<1>2. price * q \in Int
  OBVIOUS
<1>3. a.pos \in Int /\ a.entry \in Int
  BY DEF Accounts
<1>4. (price - a.entry) * a.pos \in Int
  BY <1>3
<1> QED BY <1>1, <1>2, <1>3, <1>4 DEF Fee, Gross, Magnitude

LEMMA SlippedFacts ==
    ASSUME NEW price \in Int, NEW side
    PROVE  Slipped(price, side) \in Int
BY AccountAssumption DEF Slipped, Signed

\* What can be bought is a whole number of contracts.
LEMMA QuotientFacts ==
    ASSUME NEW x \in Int, NEW y \in Nat \ {0}
    PROVE  x \div y \in Int
OBVIOUS

LEMMA ProductFacts ==
    ASSUME NEW x \in Nat \ {0}, NEW y \in Nat \ {0}
    PROVE  x * y \in Nat \ {0}
BY Z3

LEMMA AffordableFacts ==
    ASSUME NEW cash \in Int, NEW price \in Int
    PROVE  Affordable(cash, price) \in Int
<1>1. CASE price <= 0 \/ cash <= 0
  BY <1>1 DEF Affordable
<1>2. CASE price > 0 /\ cash > 0
  <2>1. Multiplier \in Nat \ {0} /\ Leverage \in Nat \ {0} /\ price \in Nat \ {0} /\ cash \in Nat \ {0}
    BY <1>2, AccountAssumption
  <2>2. price * Multiplier \in Nat \ {0} /\ cash * Leverage \in Nat \ {0}
    BY <2>1, ProductFacts
  <2>3. (cash * Leverage) \div (price * Multiplier) \in Int
    BY <2>2, QuotientFacts
  <2> QED BY <1>2, <2>3 DEF Affordable
<1> QED BY <1>1, <1>2

LEMMA SizeFacts ==
    ASSUME NEW equity \in Int, NEW price \in Int, NEW sl \in Nat
    PROVE  Size(equity, price, sl) \in Int
<1>0. MinSize \in Int /\ MaxSize \in Int /\ RiskPct \in Int /\ Multiplier \in Nat \ {0}
  BY AccountAssumption
<1>1. CASE sl = NoPrice \/ price = sl
  BY <1>0, <1>1 DEF Size
<1>2. CASE ~(sl = NoPrice \/ price = sl)
  <2> DEFINE apart == Distance(price, sl)
             risked == (equity * RiskPct) \div (100 * apart * Multiplier)
  <2>1. apart \in Nat \ {0}
    BY <1>2 DEF Distance, Larger
  <2> HIDE DEF apart
  <2>2. 100 * apart \in Nat \ {0}
    BY <2>1
  <2>3. 100 * apart * Multiplier \in Nat \ {0}
    BY <1>0, <2>2, ProductFacts
  <2>4. equity * RiskPct \in Int
    BY <1>0
  <2>5. risked \in Int
    BY <2>3, <2>4, QuotientFacts
  <2>6. Size(equity, price, sl) = Larger(MinSize, Smaller(risked, MaxSize))
    BY <1>2 DEF Size, apart
  <2> HIDE DEF risked
  <2> QED BY <1>0, <2>5, <2>6 DEF Larger, Smaller
<1> QED BY <1>1, <1>2
-----------------------------------------------------------------------------
(* What the operations on the account keep.                                *)

\* The updates as operators, so that the provers can tell one from another.
Redated(a, day, won, hit) == [a EXCEPT !.day = day, !.dailyPnl = won, !.lossHit = hit]
Traded(a, cash, pos, entry, sl, tp, fee) ==
    [a EXCEPT !.cash = cash, !.pos = pos, !.entry = entry, !.sl = sl, !.tp = tp, !.fee = fee]
Booked(a, won, hit, cash, realized, trades, none) ==
    [a EXCEPT !.dailyPnl = won, !.lossHit = hit, !.cash = cash, !.realized = realized,
              !.trades = trades, !.pos = none, !.entry = none, !.sl = none, !.tp = none,
              !.fee = none]

LEMMA RedatedFacts ==
    ASSUME NEW a \in Accounts, NEW day \in Int, NEW won \in Int, NEW hit \in BOOLEAN
    PROVE  Redated(a, day, won, hit) \in Accounts
BY DEF Accounts, Redated

LEMMA TradedFacts ==
    ASSUME NEW a \in Accounts, NEW cash \in Int, NEW pos \in Int, NEW entry \in Int,
           NEW sl \in Int, NEW tp \in Int, NEW fee \in Int
    PROVE  Traded(a, cash, pos, entry, sl, tp, fee) \in Accounts
BY DEF Accounts, Traded

LEMMA BookedFacts ==
    ASSUME NEW a \in Accounts, NEW won \in Int, NEW hit \in BOOLEAN, NEW cash \in Int,
           NEW realized \in Int, NEW trades \in Int, NEW none \in Int
    PROVE  Booked(a, won, hit, cash, realized, trades, none) \in Accounts
BY DEF Accounts, Booked

LEMMA NewDayKeeps ==
    ASSUME NEW a, Balanced(a), NEW t \in Nat
    PROVE  /\ Balanced(NewDay(a, t))
           /\ NewDay(a, t).pos = a.pos /\ NewDay(a, t).trades = a.trades
           /\ NewDay(a, t).lossHit => a.lossHit
           /\ NewDay(a, t).day = t \div MinutesPerDay
           /\ a.day = t \div MinutesPerDay => NewDay(a, t) = a
<1> DEFINE d == t \div MinutesPerDay
<1>1. d \in Int
  BY DEF MinutesPerDay
<1>2. NewDay(a, t) = IF a.day = d THEN a
                     ELSE Redated(a, d, 0, FALSE)
  BY DEF NewDay, Redated
<1> HIDE DEF d
<1>3. CASE a.day = d
  BY <1>2, <1>3 DEF d
<1>4. CASE a.day # d
  <2> DEFINE b == Redated(a, d, 0, FALSE)
  <2>1. b \in Accounts
    <3>1. 0 \in Int /\ FALSE \in BOOLEAN
      OBVIOUS
    <3> QED BY <1>1, <3>1, RedatedFacts DEF Balanced
  <2>2. /\ b.day = d /\ b.lossHit = FALSE /\ b.pos = a.pos /\ b.trades = a.trades
        /\ b.cash = a.cash /\ b.realized = a.realized /\ b.fee = a.fee
    BY DEF Balanced, Accounts, Redated
  <2>3. NewDay(a, t) = b
    BY <1>2, <1>4
  <2> HIDE DEF b
  <2> QED BY <1>4, <2>1, <2>2, <2>3 DEF Balanced, d
<1> QED BY <1>3, <1>4

LEMMA OpenKeeps ==
    ASSUME NEW a, Balanced(a), a.pos = 0, ~a.lossHit,
           NEW o \in Orders, NEW q \in Nat \ {0}, NEW price \in Int
    PROVE  /\ Balanced(OpenPosition(a, o, q, price))
           /\ ~OpenPosition(a, o, q, price).lossHit
           /\ OpenPosition(a, o, q, price).day = a.day
<1>1. Fee(price, q) \in Int
  BY AmountFacts DEF Balanced
<1>2. Signed(o.side, q) \in Int /\ Signed(o.side, q) # 0
  BY DEF Orders, Side, Signed
<1>3. o.sl \in Int /\ o.tp \in Int
  BY DEF Orders
<1> DEFINE f == Fee(price, q)
           p == Signed(o.side, q)
<1> HIDE DEF f, p
<1>4. f \in Int /\ p \in Int /\ p # 0
  BY <1>1, <1>2 DEF f, p
<1> DEFINE b == Traded(a, a.cash - f, p, price, o.sl, o.tp, f)
<1>5. b = OpenPosition(a, o, q, price)
  BY DEF OpenPosition, f, p, Traded
<1>6. b \in Accounts
  <2>1. a.cash - f \in Int
    BY <1>4 DEF Balanced, Accounts
  <2> QED BY <1>3, <1>4, <2>1, TradedFacts DEF Balanced
<1>7. /\ b.cash = a.cash - f /\ b.pos = p /\ b.fee = f /\ b.realized = a.realized
      /\ b.lossHit = a.lossHit /\ b.day = a.day
  BY DEF Balanced, Accounts, Traded
<1>8. b.cash = Capital + b.realized - b.fee
  <2>1. /\ a.cash = Capital + a.realized - a.fee /\ a.fee = 0
        /\ a.cash \in Int /\ a.realized \in Int /\ Capital \in Int
    BY AccountAssumption DEF Balanced, Accounts
  <2> HIDE DEF b
  <2> QED BY <1>4, <1>7, <2>1
<1> HIDE DEF b
<1> QED BY <1>4, <1>5, <1>6, <1>7, <1>8 DEF Balanced

\* close_position books the P&L once in the cash and once in the trade.
LEMMA ClosedKeeps ==
    ASSUME NEW a, Balanced(a), NEW price \in Int
    PROVE  /\ Balanced(Closed(a, price))
           /\ Closed(a, price).pos = 0
           /\ Closed(a, price).day = a.day
<1>1. a \in Accounts /\ a.pos \in Int /\ Magnitude(a.pos) \in Int
  BY AmountFacts DEF Balanced, Accounts
<1> DEFINE f == Fee(price, Magnitude(a.pos))
           g == Gross(a, price)
           won == Settled(a, price)
           hit == a.lossHit \/ (LossPct > 0 /\ (a.dailyPnl + won) * 100 < -(LossPct * a.equity))
<1>2. f \in Int /\ g \in Int
  BY <1>1, AmountFacts
<1>3. won = g - (a.fee + f)
  BY DEF Settled
<1> DEFINE b == Booked(a, a.dailyPnl + won, hit, a.cash - f + g, a.realized + won,
                      a.trades + 1, 0)
<1>4. Closed(a, price) = b
  BY <1>1 DEF Closed, Forgotten, RecordPnl, Accounts, Booked, NoPrice
<1>5. hit \in BOOLEAN
  BY <1>1 DEF Accounts
<1> HIDE DEF f, g, won, hit
<1>6. a.fee \in Int /\ a.cash \in Int /\ a.realized \in Int
  BY <1>1 DEF Accounts
<1>7. won \in Int /\ a.cash - f + g = Capital + (a.realized + won)
  BY <1>2, <1>3, <1>6, AccountAssumption DEF Balanced
<1>8. b \in Accounts
  <2>1. /\ a.dailyPnl + won \in Int /\ a.cash - f + g \in Int /\ a.realized + won \in Int
        /\ a.trades + 1 \in Int /\ 0 \in Int
    BY <1>1, <1>2, <1>6, <1>7 DEF Accounts
  <2> QED BY <1>1, <1>5, <2>1, BookedFacts
<1>9. /\ b.cash = a.cash - f + g /\ b.realized = a.realized + won /\ b.fee = 0 /\ b.pos = 0
      /\ b.day = a.day
  BY <1>1 DEF Accounts, Booked
<1> HIDE DEF b
<1>10. b.cash = Capital + b.realized - b.fee
  BY <1>2, <1>6, <1>7, <1>9, AccountAssumption
<1> QED BY <1>4, <1>8, <1>9, <1>10 DEF Balanced

LEMMA MarkKeeps ==
    ASSUME NEW a, Balanced(a), NEW close \in Int
    PROVE  /\ Balanced(Mark(a, close))
           /\ Mark(a, close).pos = a.pos /\ Mark(a, close).lossHit = a.lossHit
           /\ Mark(a, close).day = a.day /\ Mark(a, close).trades = a.trades
<1>1. Gross(a, close) \in Int /\ a \in Accounts
  BY AmountFacts DEF Balanced
<1> DEFINE e == a.cash + Gross(a, close)
<1>2. e \in Int
  BY <1>1 DEF Accounts
<1>3. Mark(a, close) = [a EXCEPT !.equity = e]
  BY DEF Mark
<1> HIDE DEF e
<1> QED BY <1>1, <1>2, <1>3 DEF Balanced, Accounts

LEMMA TrailedKeeps ==
    ASSUME NEW a, Balanced(a), NEW close \in Int
    PROVE  Balanced(Trailed(a, close)) /\ Trailed(a, close).pos = a.pos
           /\ Trailed(a, close).lossHit = a.lossHit /\ Trailed(a, close).day = a.day
<1> DEFINE s == IF a.pos > 0 THEN Larger(a.sl, close - Trail) ELSE Smaller(a.sl, close + Trail)
<1>1. s \in Int
  BY AccountAssumption DEF Balanced, Accounts, Larger, Smaller
<1>2. Trailed(a, close) = a \/ Trailed(a, close) = [a EXCEPT !.sl = s]
  BY DEF Trailed
<1> HIDE DEF s
<1> QED BY <1>1, <1>2 DEF Balanced, Accounts

\* A bar closes the position or leaves it; a flat account it leaves alone.
LEMMA CheckKeeps ==
    ASSUME NEW a, Balanced(a), NEW bar \in BarRecord
    PROVE  /\ Balanced(CheckSlTp(a, bar))
           /\ CheckSlTp(a, bar).pos \in {0, a.pos}
           /\ CheckSlTp(a, bar).day = a.day
           /\ a.pos = 0 => CheckSlTp(a, bar) = a
<1>1. bar.open \in Int /\ bar.close \in Int
  BY DEF BarRecord
<1>2. a.sl \in Int /\ a.tp \in Int
  BY DEF Balanced, Accounts
<1>3. \/ CheckSlTp(a, bar) = a
      \/ CheckSlTp(a, bar) = Closed(a, bar.open)
      \/ CheckSlTp(a, bar) = Closed(a, a.sl)
      \/ CheckSlTp(a, bar) = Closed(a, a.tp)
      \/ CheckSlTp(a, bar) = Trailed(a, bar.close)
  BY DEF CheckSlTp
<1>4. a.pos = 0 => CheckSlTp(a, bar) = a
  BY DEF CheckSlTp
<1>5. CASE CheckSlTp(a, bar) = a
  BY <1>5
<1>6. ASSUME NEW price \in Int, CheckSlTp(a, bar) = Closed(a, price)
      PROVE  /\ Balanced(CheckSlTp(a, bar)) /\ CheckSlTp(a, bar).pos = 0
             /\ CheckSlTp(a, bar).day = a.day
  BY <1>6, ClosedKeeps
<1>7. CASE CheckSlTp(a, bar) = Trailed(a, bar.close)
  BY <1>1, <1>4, <1>7, TrailedKeeps
<1>8. CASE CheckSlTp(a, bar) = Closed(a, bar.open)
  BY <1>1, <1>4, <1>6, <1>8
<1>9. CASE CheckSlTp(a, bar) = Closed(a, a.sl) \/ CheckSlTp(a, bar) = Closed(a, a.tp)
  BY <1>2, <1>4, <1>6, <1>9
<1> QED BY <1>3, <1>5, <1>7, <1>8, <1>9
-----------------------------------------------------------------------------
(* Orders and fills.                                                       *)

\* A signal as the strategy answers it.
Answered ==
    [kind : {"hold", "exit", "long", "short"}, ord : {"MARKET", "LIMIT"},
     price : Nat, sl : Nat, tp : Nat]

LEMMA OrderFacts ==
    ASSUME NEW a, Balanced(a), NEW sig \in Answered, NEW bar \in BarRecord, Asks(a, bar.t)
    PROVE  /\ Waits(a, OrderFrom(a, sig, bar))
           /\ OrderFrom(a, sig, bar) # NoOrder => sig.kind \in {"long", "short"}
<1>1. OrderFrom(a, sig, bar) # NoOrder =>
          sig.kind \in {"long", "short"} /\ EntrySize(a, sig, bar) > 0
  BY DEF OrderFrom
<1>2. ~a.lossHit /\ IsTradingHours(bar.t)
  BY DEF Asks, ShouldSkipSignal
<1>3. ASSUME OrderFrom(a, sig, bar) # NoOrder PROVE Waits(a, OrderFrom(a, sig, bar))
  <2> DEFINE price == IF sig.price > 0 THEN sig.price ELSE bar.close
             size == Size(a.equity, price, sig.sl)
             most == Affordable(a.cash, price)
             q == EntrySize(a, sig, bar)
             o == OrderFrom(a, sig, bar)
  <2>1. price \in Int /\ a.equity \in Int /\ a.cash \in Int /\ sig.sl \in Nat
    BY DEF Balanced, Accounts, BarRecord, Answered
  <2>2. size \in Int /\ most \in Int
    BY <2>1, SizeFacts, AffordableFacts
  <2>3. a.pos = 0 /\ q = Smaller(size, most)
    BY <1>1, <1>3 DEF EntrySize
  <2> HIDE DEF size, most
  <2>4. q \in Int
    BY <2>2, <2>3 DEF Smaller
  <2>5. q \in Nat \ {0}
    BY <1>1, <1>3, <2>4
  <2>6. o = [side |-> IF sig.kind = "long" THEN "BUY" ELSE "SELL", qty |-> q,
             limit |-> IF sig.ord = "LIMIT" THEN sig.price ELSE NoPrice,
             sl |-> sig.sl, tp |-> sig.tp, created |-> bar.t]
    BY <1>3 DEF OrderFrom
  <2> HIDE DEF q
  <2>7. o \in Orders /\ o.created = bar.t
    BY <2>5, <2>6 DEF Orders, Answered, BarRecord, NoPrice, Side
  <2> QED BY <1>2, <2>3, <2>7 DEF Waits
<1> QED BY <1>1, <1>3 DEF Waits

\* The price of a fill, and its size when the margin is tested again.
LEMMA FillFacts ==
    ASSUME NEW a, Balanced(a), NEW o \in Orders, NEW bar \in BarRecord
    PROVE  /\ Slipped(FillPrice(o, bar), o.side) \in Int
           /\ AffordedSize(a, o, bar) \in Int
<1>1. FillPrice(o, bar) \in Int
  BY DEF FillPrice, Orders, BarRecord, Smaller, Larger, NoPrice
<1> DEFINE price == Slipped(FillPrice(o, bar), o.side)
           most == Affordable(a.cash, price)
<1>2. price \in Int
  BY <1>1, SlippedFacts
<1>3. a.cash \in Int
  BY DEF Balanced, Accounts
<1>4. most \in Int
  BY <1>2, <1>3, AffordableFacts
<1>5. o.qty \in Int
  BY DEF Orders
<1>6. AffordedSize(a, o, bar) = Smaller(o.qty, most)
  BY DEF AffordedSize
<1> HIDE DEF price, most
<1> QED BY <1>2, <1>4, <1>5, <1>6 DEF Smaller, price

\* No order made in trading hours survives a bar of the auction or after, and
\* none is made there.
LEMMA AuctionCancels ==
    ASSUME NEW t \in Nat, ShouldCloseEod(t)
    PROVE  /\ ~IsTradingHours(t)
           /\ \A c \in Nat : IsTradingHours(c) => ShouldCancelPendingEntry(c, t)
<1>1. TimeOfDay(t) >= 870
  BY DEF ShouldCloseEod, AtcStart, HM
<1>2. TimeOfDay(t) \in Int
  BY DEF TimeOfDay, MinutesPerDay
<1>3. SessionOf(t) \notin {"morning", "afternoon"}
  BY <1>1, <1>2 DEF SessionOf, InMorning, InAfternoon, InAtc, MorningStart, MorningEnd,
                    AfternoonStart, AfternoonEnd, AtcStart, AtcEnd, HM
<1> QED BY <1>3 DEF IsTradingHours, ShouldCancelPendingEntry

LEMMA ClosedAtMarketKeeps ==
    ASSUME NEW a, Balanced(a), NEW price \in Int
    PROVE  /\ Balanced(ClosedAtMarket(a, price))
           /\ ClosedAtMarket(a, price).pos = 0
           /\ ClosedAtMarket(a, price).day = a.day
<1>1. Slipped(price, ExitSide(a.pos)) \in Int
  BY SlippedFacts
<1> QED BY <1>1, ClosedKeeps DEF ClosedAtMarket
-----------------------------------------------------------------------------
(* One bar of the loop.                                                    *)

LEMMA LoopBarKeeps ==
    ASSUME Balanced(account), Waits(account, pending),
           NEW bar \in BarRecord, NEW next, NEW sig \in Answered, NEW warm \in BOOLEAN,
           LoopBar(bar, next, sig, warm)
    PROVE  /\ Balanced(account') /\ Waits(account', pending')
           /\ warm /\ Idle(account, pending) => Idle(account', pending')
           /\ ~warm /\ ClosesAtBar(bar, next) => account'.pos = 0
           /\ ~warm /\ ShouldCloseEod(bar.t) => pending' = NoOrder
           /\ account.lossHit /\ account'.day = account.day =>
                  account'.pos = 0 /\ account'.trades = account.trades
<1> DEFINE daily == NewDay(account, bar.t)
           fate == Fate(daily, bar, warm)
           price == Slipped(FillPrice(pending, bar), pending.side)
           q == AffordedSize(daily, pending, bar)
           tried == IF fate = "filled" THEN OpenPosition(daily, pending, q, price) ELSE daily
           checked == CheckSlTp(tried, bar)
           closing == checked.pos # 0 /\ ~warm /\ ClosesAtBar(bar, next)
           after == IF closing THEN ClosedAtMarket(checked, bar.close) ELSE checked
           left == IF closing \/ fate \in {"canceled", "expired", "filled"} THEN NoOrder
                   ELSE pending
           order == IF Asks(after, bar.t) /\ ~warm THEN OrderFrom(after, sig, bar) ELSE NoOrder
<1>0. bar.t \in Nat /\ bar.close \in Int
  BY DEF BarRecord
<1>1. /\ account' = Mark(after, bar.close)
      /\ pending' = IF left = NoOrder THEN order ELSE left
  BY DEF LoopBar
<1>2. /\ Balanced(daily) /\ daily.pos = account.pos
      /\ daily.trades = account.trades
      /\ daily.lossHit => account.lossHit
      /\ daily.day = bar.t \div MinutesPerDay
      /\ account.day = daily.day => daily = account
  BY <1>0, NewDayKeeps
<1>3. /\ fate = "filled" => pending # NoOrder /\ ~warm /\ q > 0
      /\ pending # NoOrder /\ ~warm /\ ShouldCancelPendingEntry(pending.created, bar.t) =>
             fate = "canceled"
  BY DEF Fate, Executes
<1> HIDE DEF fate, q, price
<1>4. Balanced(tried) /\ tried.day = daily.day /\ (fate # "filled" => tried = daily)
  <2>1. CASE fate # "filled"
    BY <1>2, <2>1
  <2>2. CASE fate = "filled"
    <3>1. pending \in Orders /\ daily.pos = 0 /\ ~daily.lossHit
      BY <1>2, <1>3, <2>2 DEF Waits
    <3>2. price \in Int /\ q \in Int
      BY <1>2, <3>1, FillFacts DEF price, q
    <3>3. q \in Nat \ {0}
      BY <1>3, <2>2, <3>2
    <3> QED BY <1>2, <2>2, <3>1, <3>2, <3>3, OpenKeeps
  <2> QED BY <2>1, <2>2
<1> HIDE DEF tried
<1>5. /\ Balanced(checked) /\ checked.pos \in {0, tried.pos} /\ checked.day = tried.day
      /\ tried.pos = 0 => checked = tried
  BY <1>4, CheckKeeps
<1> HIDE DEF checked
<1>6. /\ Balanced(after) /\ after.day = checked.day
      /\ closing => after.pos = 0
      /\ ~closing => after = checked
  BY <1>0, <1>5, ClosedAtMarketKeeps
<1>7. /\ Balanced(account') /\ account'.pos = after.pos /\ account'.lossHit = after.lossHit
      /\ account'.day = after.day /\ account'.trades = after.trades
  BY <1>0, <1>1, <1>6, MarkKeeps
<1> HIDE DEF after
<1>8. order # NoOrder => Waits(after, order) /\ ~warm /\ IsTradingHours(bar.t)
  BY <1>6, OrderFacts DEF Asks, ShouldSkipSignal
<1> HIDE DEF order
\* What is left of the order was not filled, so the account it waits for is as it was.
<1>9. left # NoOrder =>
          /\ left = pending /\ ~closing /\ fate \notin {"canceled", "filled"}
          /\ after.pos = 0 /\ ~after.lossHit
  <2> SUFFICES ASSUME left # NoOrder
               PROVE  /\ left = pending /\ ~closing /\ fate \notin {"canceled", "filled"}
                      /\ after.pos = 0 /\ ~after.lossHit
    OBVIOUS
  <2>1. left = pending /\ ~closing /\ fate \notin {"canceled", "filled"} /\ pending # NoOrder
    OBVIOUS
  <2>2. account.pos = 0 /\ ~account.lossHit
    BY <2>1 DEF Waits
  <2>3. after = daily
    BY <1>2, <1>4, <1>5, <1>6, <2>1, <2>2
  <2> QED BY <1>2, <2>1, <2>2, <2>3
<1>10. Waits(account', pending')
  BY <1>1, <1>7, <1>8, <1>9 DEF Waits
<1>11. warm /\ Idle(account, pending) => Idle(account', pending')
  BY <1>1, <1>2, <1>3, <1>4, <1>5, <1>6, <1>7, <1>8 DEF Idle
<1>12. ~warm /\ ClosesAtBar(bar, next) => account'.pos = 0
  BY <1>6, <1>7
<1>13. ~warm /\ ShouldCloseEod(bar.t) => pending' = NoOrder
  <2> SUFFICES ASSUME ~warm, ShouldCloseEod(bar.t) PROVE pending' = NoOrder
    OBVIOUS
  <2>1. order = NoOrder
    BY <1>0, <1>8, AuctionCancels
  <2>2. pending # NoOrder => fate = "canceled"
    <3>1. pending # NoOrder => pending.created \in Nat /\ IsTradingHours(pending.created)
      BY DEF Waits, Orders
    <3> QED BY <1>0, <1>3, <3>1, AuctionCancels
  <2> QED BY <1>1, <2>1, <2>2
<1>14. account.lossHit /\ account'.day = account.day =>
           account'.pos = 0 /\ account'.trades = account.trades
  <2> SUFFICES ASSUME account.lossHit, account'.day = account.day
               PROVE  account'.pos = 0 /\ account'.trades = account.trades
    OBVIOUS
  <2>1. account.pos = 0 /\ pending = NoOrder
    BY DEF Balanced, Waits
  <2>2. after = daily
    BY <1>2, <1>3, <1>4, <1>5, <1>6, <2>1
  <2> QED BY <1>2, <1>7, <2>1, <2>2
<1> QED BY <1>7, <1>10, <1>11, <1>12, <1>13, <1>14
-----------------------------------------------------------------------------
(* One bar of the event engine.                                            *)

LEMMA FilledKeeps ==
    ASSUME NEW a, NEW o, Balanced(a), Waits(a, o), NEW bar \in BarRecord
    PROVE  /\ Balanced(Filled(a, o, bar)) /\ Filled(a, o, bar).day = a.day
           /\ o = NoOrder => Filled(a, o, bar) = a
<1>1. CASE Filled(a, o, bar) = a
  BY <1>1
<1>2. CASE Filled(a, o, bar) # a
  <2>1. /\ o # NoOrder
        /\ Filled(a, o, bar) = OpenPosition(a, o, o.qty, Slipped(FillPrice(o, bar), o.side))
    BY <1>2 DEF Filled, OnFill
  <2>2. o \in Orders /\ a.pos = 0 /\ ~a.lossHit /\ o.qty \in Nat \ {0}
    BY <2>1 DEF Waits, Orders
  <2>3. Slipped(FillPrice(o, bar), o.side) \in Int
    BY <2>2, FillFacts
  <2> QED BY <2>1, <2>2, <2>3, OpenKeeps
<1> QED BY <1>1, <1>2

LEMMA EventBarKeeps ==
    ASSUME Balanced(eventAccount), Waits(eventAccount, queued),
           NEW bar \in BarRecord, NEW next, next \in BarRecord \/ next = NoBar,
           NEW sig \in Answered, NEW warm \in BOOLEAN,
           EventBar(bar, next, sig, warm)
    PROVE  /\ Balanced(eventAccount') /\ Waits(eventAccount', queued')
           /\ warm /\ Idle(eventAccount, queued) => Idle(eventAccount', queued')
           /\ ~warm /\ ShouldCloseEod(bar.t) => Idle(eventAccount', queued')
           /\ eventAccount.lossHit /\ eventAccount'.day = eventAccount.day =>
                  eventAccount'.pos = 0 /\ eventAccount'.trades = eventAccount.trades
<1> DEFINE filled == Filled(eventAccount, queued, bar)
           daily == NewDay(filled, bar.t)
           checked == IF warm THEN daily ELSE CheckSlTp(daily, bar)
           closing == checked.pos # 0 /\ ~warm /\ ShouldCloseEod(bar.t)
           after == IF closing THEN ClosedAtMarket(checked, EodPrice(bar, next)) ELSE checked
           asks == Asks(after, bar.t) /\ ~warm /\ Signalled(sig)
           exited == IF asks THEN ExitSignal(after, sig, bar) ELSE after
           order == IF asks THEN OrderFrom(after, sig, bar) ELSE NoOrder
<1>0. bar.t \in Nat /\ bar.close \in Int /\ EodPrice(bar, next) \in Int
  BY DEF BarRecord, EodPrice
<1>1. eventAccount' = Mark(exited, bar.close) /\ queued' = order
  BY DEF EventBar
<1>2. /\ Balanced(filled) /\ filled.day = eventAccount.day
      /\ queued = NoOrder => filled = eventAccount
  BY FilledKeeps
<1> HIDE DEF filled
<1>3. /\ Balanced(daily) /\ daily.pos = filled.pos /\ daily.trades = filled.trades
      /\ daily.day = bar.t \div MinutesPerDay
      /\ filled.day = daily.day => daily = filled
  BY <1>0, <1>2, NewDayKeeps
<1> HIDE DEF daily
<1>4. /\ Balanced(checked) /\ checked.day = daily.day
      /\ warm \/ daily.pos = 0 => checked = daily
  BY <1>3, CheckKeeps
<1> HIDE DEF checked
<1>5. /\ Balanced(after) /\ after.day = checked.day
      /\ closing => after.pos = 0
      /\ ~closing => after = checked
  BY <1>0, <1>4, ClosedAtMarketKeeps
<1> HIDE DEF after
<1>6. /\ Balanced(exited) /\ exited.day = after.day
      /\ (asks /\ sig.kind = "exit") \/ exited = after
      /\ exited = after \/ exited.pos = 0
  BY <1>0, <1>5, ClosedAtMarketKeeps DEF ExitSignal
<1> HIDE DEF exited
<1>7. /\ Balanced(eventAccount') /\ eventAccount'.pos = exited.pos
      /\ eventAccount'.lossHit = exited.lossHit
      /\ eventAccount'.day = exited.day /\ eventAccount'.trades = exited.trades
  BY <1>0, <1>1, <1>6, MarkKeeps
<1>8. asks => ~warm /\ Asks(after, bar.t) /\ IsTradingHours(bar.t) /\ ~after.lossHit
  BY DEF Asks, ShouldSkipSignal
\* An exit makes no order, and an entry leaves the account as it is.
<1>9. order # NoOrder => asks /\ exited = after /\ Waits(after, order)
  <2>1. order # NoOrder => asks /\ Waits(after, order) /\ sig.kind \in {"long", "short"}
    BY <1>5, OrderFacts
  <2> QED BY <1>6, <2>1
<1> HIDE DEF order, asks
<1>10. Waits(eventAccount', queued')
  BY <1>1, <1>7, <1>9 DEF Waits
<1>11. warm /\ Idle(eventAccount, queued) => Idle(eventAccount', queued')
  BY <1>1, <1>2, <1>3, <1>4, <1>5, <1>6, <1>7, <1>8, <1>9 DEF Idle
<1>12. ~warm /\ ShouldCloseEod(bar.t) => Idle(eventAccount', queued')
  <2> SUFFICES ASSUME ~warm, ShouldCloseEod(bar.t) PROVE Idle(eventAccount', queued')
    OBVIOUS
  <2>1. ~asks
    BY <1>0, <1>8, AuctionCancels
  <2>2. after.pos = 0
    BY <1>5
  <2> QED BY <1>1, <1>6, <1>7, <1>9, <2>1, <2>2 DEF Idle
<1>13. eventAccount.lossHit /\ eventAccount'.day = eventAccount.day =>
           eventAccount'.pos = 0 /\ eventAccount'.trades = eventAccount.trades
  <2> SUFFICES ASSUME eventAccount.lossHit, eventAccount'.day = eventAccount.day
               PROVE  /\ eventAccount'.pos = 0
                      /\ eventAccount'.trades = eventAccount.trades
    OBVIOUS
  <2>1. eventAccount.pos = 0 /\ queued = NoOrder
    BY DEF Balanced, Waits
  <2>2. daily = eventAccount
    BY <1>2, <1>3, <1>4, <1>5, <1>6, <1>7, <2>1
  <2>3. after = eventAccount
    BY <1>4, <1>5, <2>1, <2>2
  <2>4. exited = after
    BY <1>6, <1>8, <2>3
  <2> QED BY <1>7, <2>1, <2>3, <2>4
<1> QED BY <1>7, <1>10, <1>11, <1>12, <1>13
-----------------------------------------------------------------------------
(* The runs.                                                               *)

NoNewTradeAfterLoss(a, b) == a.lossHit /\ b.day = a.day => b.pos = 0 /\ b.trades = a.trades

LEMMA BarKeeps ==
    ASSUME BInv, Bar
    PROVE  /\ BInv'
           /\ NoNewTradeAfterLoss(account, account')
           /\ NoNewTradeAfterLoss(eventAccount, eventAccount')
<1> DEFINE bar == BarAt(n', ahead)
           next == IF n' < Len(times) THEN BarAt(n' + 1, ahead') ELSE NoBar
           warm == n < WarmupBars
<1>1. /\ n \in Nat /\ n < Len(times) /\ n' = n + 1 /\ times' = times /\ times \in Seq(Nat)
      /\ ahead \in Shapes /\ ahead' \in Shapes /\ WarmupBars \in Nat /\ Len(times) \in Nat
  BY EnginesAssumption DEF BInv, Bar
<1>2. n' \in 1..Len(times) /\ (n' < Len(times) => n' + 1 \in 1..Len(times))
  BY <1>1
<1>3. /\ ahead \in [open : Nat, high : Nat, low : Nat, close : Nat]
      /\ ahead' \in [open : Nat, high : Nat, low : Nat, close : Nat]
  BY <1>1, EnginesAssumption
<1>4. bar \in BarRecord /\ bar.t = times[n']
  BY <1>1, <1>2, <1>3 DEF BarAt, BarRecord
<1>5. n' < Len(times) => next \in BarRecord /\ next # NoBar /\ next.t = times[n' + 1]
  BY <1>1, <1>2, <1>3, EnginesAssumption DEF BarAt, BarRecord
<1>6. next \in BarRecord \/ next = NoBar
  BY <1>5
<1>7. warm \in BOOLEAN
  OBVIOUS
<1>8. PICK sig \in Signals : LoopBar(bar, next, sig, warm) /\ EventBar(bar, next, sig, warm)
  BY DEF Bar
<1>9. sig \in Answered
  BY EnginesAssumption DEF Answered
<1> HIDE DEF bar, next, warm
<1>10. /\ Balanced(account') /\ Waits(account', pending')
       /\ warm /\ Idle(account, pending) => Idle(account', pending')
       /\ ~warm /\ ClosesAtBar(bar, next) => account'.pos = 0
       /\ ~warm /\ ShouldCloseEod(bar.t) => pending' = NoOrder
       /\ NoNewTradeAfterLoss(account, account')
  BY <1>4, <1>7, <1>8, <1>9, LoopBarKeeps DEF BInv, NoNewTradeAfterLoss
<1>11. /\ Balanced(eventAccount') /\ Waits(eventAccount', queued')
       /\ warm /\ Idle(eventAccount, queued) => Idle(eventAccount', queued')
       /\ ~warm /\ ShouldCloseEod(bar.t) => Idle(eventAccount', queued')
       /\ NoNewTradeAfterLoss(eventAccount, eventAccount')
  BY <1>4, <1>6, <1>7, <1>8, <1>9, EventBarKeeps DEF BInv, NoNewTradeAfterLoss
<1>12. warm => Idle(account', pending') /\ Idle(eventAccount', queued')
  BY <1>1, <1>10, <1>11 DEF BInv, warm
<1>13. n' <= WarmupBars => Idle(account', pending') /\ Idle(eventAccount', queued')
  BY <1>1, <1>12 DEF warm
<1>14. FlatIntoAuction'
  <2> SUFFICES ASSUME n' < Len(times), ~IsTradingHours(times[n' + 1])
               PROVE  account'.pos = 0
    BY <1>1 DEF FlatIntoAuction
  <2>1. ClosesAtBar(bar, next)
    BY <1>5 DEF ClosesAtBar
  <2> QED BY <1>10, <1>12, <2>1 DEF Idle
<1>15. AuctionEndsDay'
  <2> SUFFICES ASSUME ShouldCloseEod(times[n'])
               PROVE  /\ account'.pos = 0 /\ pending' = NoOrder
                      /\ eventAccount'.pos = 0 /\ queued' = NoOrder
    BY <1>1 DEF AuctionEndsDay
  <2>1. ShouldCloseEod(bar.t) /\ ClosesAtBar(bar, next)
    BY <1>4 DEF ClosesAtBar
  <2> QED BY <1>10, <1>11, <1>12, <2>1 DEF Idle
<1> QED BY <1>1, <1>10, <1>11, <1>13, <1>14, <1>15 DEF BInv

\* "End of Backtest": what is open is closed, and no order is looked at again.
LEMMA EndKeeps ==
    ASSUME BInv, End
    PROVE  /\ BInv'
           /\ NoNewTradeAfterLoss(account, account')
           /\ NoNewTradeAfterLoss(eventAccount, eventAccount')
<1>1. /\ n = Len(times) /\ n' = n + 1 /\ times' = times /\ ahead' = ahead
      /\ pending' = pending /\ queued' = queued /\ ahead.close \in Int
      /\ n \in Nat /\ WarmupBars \in Nat
  BY EnginesAssumption DEF BInv, End, LoopEnd, EventEnd
<1>2. ASSUME NEW a, NEW b, NEW o, Balanced(a), Waits(a, o),
             b = IF a.pos # 0 THEN Mark(ClosedAtMarket(a, ahead.close), ahead.close) ELSE a
      PROVE  Balanced(b) /\ Waits(b, o) /\ b.pos = 0 /\ NoNewTradeAfterLoss(a, b)
  <2>1. CASE a.pos = 0
    BY <1>2, <2>1 DEF NoNewTradeAfterLoss
  <2>2. CASE a.pos # 0
    <3>1. Balanced(b) /\ b.pos = 0
      BY <1>1, <1>2, <2>2, ClosedAtMarketKeeps, MarkKeeps
    <3>2. o = NoOrder /\ ~a.lossHit
      BY <1>2, <2>2 DEF Waits, Balanced
    <3> QED BY <3>1, <3>2 DEF Waits, NoNewTradeAfterLoss
  <2> QED BY <2>1, <2>2
<1>3. /\ Balanced(account') /\ Waits(account', pending) /\ account'.pos = 0
      /\ NoNewTradeAfterLoss(account, account')
  BY <1>2 DEF BInv, End, LoopEnd
<1>4. /\ Balanced(eventAccount') /\ Waits(eventAccount', queued) /\ eventAccount'.pos = 0
      /\ NoNewTradeAfterLoss(eventAccount, eventAccount')
  BY <1>2 DEF BInv, End, EventEnd
<1>5. n' > Len(times') /\ n' \notin 1..Len(times')
  BY <1>1
<1>6. FlatIntoAuction' /\ AuctionEndsDay'
  BY <1>1, <1>5 DEF FlatIntoAuction, AuctionEndsDay
<1>7. n' <= WarmupBars => Idle(account', pending') /\ Idle(eventAccount', queued')
  BY <1>1, <1>3, <1>4 DEF BInv, Idle
<1> QED BY <1>1, <1>3, <1>4, <1>6, <1>7 DEF BInv

LEMMA InitBooks == BInit => BInv
<1> SUFFICES ASSUME BInit PROVE BInv
  OBVIOUS
<1>1. Balanced(NewAccount) /\ NewAccount.pos = 0
  <2>1. Capital \in Int
    BY AccountAssumption
  <2> QED BY <2>1 DEF NewAccount, Balanced, Accounts, NoPrice
<1>2. /\ account = NewAccount /\ eventAccount = NewAccount
      /\ pending = NoOrder /\ queued = NoOrder
      /\ times \in Seq(Nat) /\ n = 0 /\ ahead \in Shapes
  BY EnginesAssumption DEF BInit, LoopInit, EventInit
<1> HIDE DEF NewAccount
<1> QED BY <1>1, <1>2 DEF BInv, Waits, Idle, FlatIntoAuction, AuctionEndsDay

LEMMA NextBooks ==
    ASSUME BInv, [BNext]_allVars
    PROVE  /\ BInv'
           /\ NoNewTradeAfterLoss(account, account')
           /\ NoNewTradeAfterLoss(eventAccount, eventAccount')
<1>1. CASE Bar
  BY <1>1, BarKeeps
<1>2. CASE End
  BY <1>2, EndKeeps
<1>3. CASE UNCHANGED allVars
  <2>1. UNCHANGED <<account, pending, eventAccount, queued, times, n, ahead>>
    BY <1>3 DEF allVars, loopVars, eventVars, feed
  <2>2. BInv'
    BY <2>1 DEF BInv, FlatIntoAuction, AuctionEndsDay
  <2>3. account.lossHit => account.pos = 0
    BY DEF BInv, Balanced
  <2>4. eventAccount.lossHit => eventAccount.pos = 0
    BY DEF BInv, Balanced
  <2> QED BY <2>1, <2>2, <2>3, <2>4 DEF NoNewTradeAfterLoss
<1> QED BY <1>1, <1>2, <1>3 DEF BNext
-----------------------------------------------------------------------------
\* On every bar of either engine the books balance, orders wait only for a flat
\* account, and what the two bars at a session's end promise holds.
LEMMA BooksStayBalanced == BSpec => []BInv
BY InitBooks, NextBooks, PTL DEF BSpec

\* In both engines the cash is the capital, what the recorded trades made and
\* the commission of the open one, whatever the bars, the signals and the fees:
\* close_position books a trade once in the portfolio and once in the recorder.
THEOREM CashAlwaysPnl == BSpec => []CashIsPnl
<1>1. BInv => CashIsPnl
  BY DEF BInv, Balanced, CashIsPnl
<1> QED BY <1>1, BooksStayBalanced, PTL

\* The loop's pending order and the event engine's queued one never meet a
\* position: both are only made and kept while the account is flat.
THEOREM PendingAlwaysFlat == BSpec => []PendingOnlyFlat
<1>1. BInv => PendingOnlyFlat
  BY DEF BInv, Waits, PendingOnlyFlat
<1> QED BY <1>1, BooksStayBalanced, PTL

\* However the bars fall, the loop holds nothing over a bar that opens outside
\* trading hours, even if its order was filled on the bar just before.
THEOREM AlwaysFlatIntoAuction == BSpec => []FlatIntoAuction
<1>1. BInv => FlatIntoAuction
  BY DEF BInv
<1> QED BY <1>1, BooksStayBalanced, PTL

\* After a bar of the auction or later neither engine has a position or an
\* order, for any calendar and any gap in the data.
THEOREM AuctionAlwaysEndsDay == BSpec => []AuctionEndsDay
<1>1. BInv => AuctionEndsDay
  BY DEF BInv
<1> QED BY <1>1, BooksStayBalanced, PTL

\* Past the daily loss no engine trades again before the next day, with
\* whatever orders were waiting when the limit was passed.
THEOREM LossAlwaysStopsDay == BSpec => LossStopsDay
<1>1. BInv /\ [BNext]_allVars =>
          [\A i \in {1, 2} :
              LET a == <<account, eventAccount>>[i]
                  b == <<account', eventAccount'>>[i]
              IN a.lossHit /\ b.day = a.day => b.pos = 0 /\ b.trades = a.trades]_allVars
  BY NextBooks DEF NoNewTradeAfterLoss
<1> QED BY <1>1, BooksStayBalanced, PTL DEF BSpec, LossStopsDay
=============================================================================
