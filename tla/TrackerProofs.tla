--------------------------- MODULE TrackerProofs ---------------------------
(***************************************************************************)
(* Theorems about Tracker for any prices, multiplier, commission rate and  *)
(* number of contracts and fills.                                          *)
(***************************************************************************)
EXTENDS Protection, TLAPS

\* The signed position as a side and a number of contracts.
LEMMA PositionFacts ==
    ASSUME NEW p \in Int, NEW q \in Nat \ {0}, NEW s \in Side
    PROVE  /\ Magnitude(p) \in Nat
           /\ Magnitude(p) = 0 <=> p = 0
           /\ Opens(p, s) => Magnitude(RecordOpen(p, s, q)) = Magnitude(p) + q
           /\ q < Magnitude(p) => Magnitude(RecordClose(p, q)) = Magnitude(p) - q
           /\ RecordOpen(p, s, q) \in Int /\ RecordClose(p, q) \in Int
BY DEF Magnitude, Opens, RecordOpen, RecordClose, Side, Signed, Smaller

\* Amounts are integers.
LEMMA AmountFacts ==
    ASSUME NEW p \in Int, NEW a \in Int, NEW b \in Int
    PROVE  Gain(p, a, b) \in Int /\ Commission(a, p) \in Int
<1>1. Rate \in Int /\ Multiplier \in Int
  BY TrackerAssumption
<1>2. (b - a) * p \in Int /\ a * p \in Int
  OBVIOUS
<1>3. (b - a) * p * Multiplier \in Int
  BY <1>1, <1>2
<1>4. a * p * Rate \in Int
  BY <1>1, <1>2
<1>5. a * p * Rate * Multiplier \in Int
  BY <1>1, <1>4
<1> QED BY <1>3, <1>5 DEF Gain, Commission

\* What the books need: types without the bounds, and the three equations.
Books ==
    /\ synced \in BOOLEAN
    /\ pos \in Int /\ entry \in Int /\ cash \in Int /\ daily \in Int
    /\ realized \in Int /\ today \in Int /\ base \in Int /\ held \in Nat
    /\ trade = NoTrade \/ trade \in TradeRecord
    /\ ~synced => realized = 0 /\ today = 0 /\ daily = 0
    /\ ~synced /\ trade # NoTrade =>
           trade.gross = 0 /\ trade.commission = 0 /\ trade.exitCommission = 0
    /\ CashExplained /\ TradeHoldsPosition /\ DailyRight

LEMMA InitBooks == TInit => Books
<1> SUFFICES ASSUME TInit PROVE Books
  OBVIOUS
<1>1. /\ pos \in Int /\ entry \in Int /\ cash \in Int /\ daily \in Int
      /\ realized \in Int /\ today \in Int /\ base \in Int /\ held \in Nat
  BY TrackerAssumption DEF TInit
<1>2. synced = FALSE /\ trade = NoTrade /\ pos = 0 /\ realized = 0 /\ today = 0 /\ daily = 0
  BY DEF TInit
<1> QED BY <1>1, <1>2 DEF Books, CashExplained, TradeHoldsPosition, DailyRight

\* A new trade owes its commission and nothing else.
LEMMA FreshFacts ==
    ASSUME NEW q \in Nat, NEW c \in Int
    PROVE  /\ Fresh(q, c) \in TradeRecord /\ Fresh(q, c) # NoTrade
           /\ Fresh(q, c).commission = c /\ Fresh(q, c).gross = 0
           /\ Fresh(q, c).exitCommission = 0 /\ Fresh(q, c).closed = 0
BY TrackerAssumption DEF Fresh, TradeRecord

LEMMA SyncKeepsBooks == Books /\ Sync => Books'
<1> SUFFICES ASSUME Books, Sync PROVE Books'
  OBVIOUS
<1> USE DEF Books, CashExplained, TradeHoldsPosition, DailyRight
<1>1. ASSUME NEW p \in -MaxPos..MaxPos, NEW price \in Prices, NEW current,
             SyncPosition(p, price, current)
      PROVE  Books'
  <2>1. p \in Int /\ p # 0 /\ price \in Int
    BY <1>1, TrackerAssumption DEF SyncPosition
  <2>2. Magnitude(p) \in Nat /\ Magnitude(p) = Magnitude(p) - 0
    BY <2>1 DEF Magnitude
  <2>3. /\ trade' = Fresh(Magnitude(p), 0) /\ held' = Magnitude(p) /\ pos' = p
        /\ entry' = price /\ ~synced
        /\ UNCHANGED <<synced, cash, daily, base, realized, today>>
    BY <1>1 DEF SyncPosition
  <2>4. /\ trade' \in TradeRecord /\ trade' # NoTrade
        /\ trade'.commission = 0 /\ trade'.gross = 0
        /\ trade'.exitCommission = 0 /\ trade'.closed = 0
    BY <2>2, <2>3, FreshFacts
  <2> QED BY <2>1, <2>2, <2>3, <2>4
<1>2. ASSUME NEW c \in {Capital, 2 * Capital}, SyncCash(c)
      PROVE  Books'
  <2>1. c \in Int
    BY TrackerAssumption
  <2>2. trade \in TradeRecord => trade.gross \in Int
    BY DEF TradeRecord
  <2> QED BY <1>2, <2>1, <2>2 DEF SyncCash
<1> QED BY <1>1, <1>2 DEF Sync

LEMMA OpenKeepsBooks ==
    ASSUME Books, NEW s \in Side, NEW q \in 1..MaxPos, NEW price \in Prices,
           OpenTrade(s, q, price)
    PROVE  Books'
<1> DEFINE c == Commission(price, q)
<1>1. q \in Nat \ {0} /\ price \in Int
  BY TrackerAssumption
<1>2. c \in Int
  BY <1>1, AmountFacts
<1>3. /\ pos = 0 /\ pos' = RecordOpen(pos, s, q) /\ entry' = price
      /\ cash' = cash - c /\ trade' = Fresh(q, c) /\ held' = q /\ synced
      /\ UNCHANGED <<synced, daily, base, realized, today>>
  BY DEF OpenTrade, MoreFills
<1> HIDE DEF c
<1>4. Magnitude(pos') = q /\ pos' \in Int /\ pos' # 0
  BY <1>1, <1>3 DEF RecordOpen, Opens, Signed, Side, Magnitude
<1>5. trade = NoTrade
  BY <1>3 DEF Books, TradeHoldsPosition
<1>6. /\ trade' \in TradeRecord /\ trade' # NoTrade /\ trade'.commission = c
      /\ trade'.gross = 0 /\ trade'.exitCommission = 0 /\ trade'.closed = 0
  BY <1>1, <1>2, <1>3, FreshFacts
<1> QED BY <1>1, <1>2, <1>3, <1>4, <1>5, <1>6
        DEF Books, CashExplained, TradeHoldsPosition, DailyRight

LEMMA ScaleInKeepsBooks ==
    ASSUME Books, NEW s \in Side, NEW q \in 1..MaxPos, NEW price \in Prices,
           ScaleIn(s, q, price)
    PROVE  Books'
<1> DEFINE c == Commission(price, q)
           n == Magnitude(pos) + q
<1>1. q \in Nat \ {0} /\ price \in Int /\ pos \in Int /\ entry \in Int
  BY TrackerAssumption DEF Books
<1>2. c \in Int /\ n \in Nat \ {0}
  <2>1. Magnitude(pos) \in Nat
    BY <1>1 DEF Magnitude
  <2>2. c \in Int
    BY <1>1, AmountFacts
  <2> QED BY <1>1, <2>1, <2>2
<1>3. /\ pos # 0 /\ Opens(pos, s) /\ pos' = RecordOpen(pos, s, q)
      /\ entry' = Cost(q, price) \div n /\ cash' = cash - c
      /\ trade' = Enlarged(trade, n, c) /\ held' = held + q /\ synced
      /\ UNCHANGED <<synced, daily, base, realized, today>>
  BY DEF ScaleIn, MoreFills
<1>4. entry' \in Int
  <2>1. Cost(q, price) \in Int
    <3>1. Magnitude(pos) \in Int
      BY <1>1, PositionFacts
    <3> QED BY <1>1, <3>1 DEF Cost
  <2> QED BY <1>2, <1>3, <2>1
<1> HIDE DEF c, n
<1>5. Magnitude(pos') = n /\ pos' \in Int /\ pos' # 0
  BY <1>1, <1>2, <1>3, PositionFacts DEF n
<1>6. trade # NoTrade /\ trade \in TradeRecord
  BY <1>3 DEF Books, TradeHoldsPosition
<1>7. /\ trade' \in TradeRecord /\ trade' # NoTrade
      /\ trade'.commission = trade.commission + c
      /\ trade'.gross = trade.gross /\ trade'.exitCommission = trade.exitCommission
      /\ trade'.closed = trade.closed
  <2>1. trade' = [qty |-> n, commission |-> trade.commission + c, gross |-> trade.gross,
                  exitCommission |-> trade.exitCommission, closed |-> trade.closed]
    BY <1>3, <1>6 DEF Enlarged, TradeRecord
  <2>2. trade.commission + c \in Int
    BY <1>2, <1>6 DEF TradeRecord
  <2>3. trade' \in TradeRecord
    BY <1>2, <1>6, <2>1, <2>2 DEF TradeRecord
  <2> QED BY <2>1, <2>3, TrackerAssumption
<1>8. n = (held + q) - trade.closed
  BY <1>1, <1>6 DEF n, Books, TradeHoldsPosition, TradeRecord, Magnitude
<1>9. trade.commission \in Int /\ trade.gross \in Int /\ trade.exitCommission \in Int
  BY <1>6 DEF TradeRecord
<1> QED BY <1>1, <1>2, <1>3, <1>4, <1>5, <1>6, <1>7, <1>8, <1>9
        DEF Books, CashExplained, TradeHoldsPosition, DailyRight

LEMMA PartKeepsBooks ==
    ASSUME Books, NEW k \in 1..MaxPos, NEW price \in Prices, CloseInPart(k, price)
    PROVE  Books'
<1> DEFINE c == Commission(price, k)
           g == Gain(IF pos > 0 THEN k ELSE -k, entry, price)
<1>1. k \in Nat \ {0} /\ price \in Int /\ pos \in Int /\ entry \in Int
  BY TrackerAssumption DEF Books
<1>2. c \in Int
  BY <1>1, AmountFacts
<1>3. g \in Int
  <2>1. (IF pos > 0 THEN k ELSE -k) \in Int
    BY <1>1
  <2> QED BY <1>1, <2>1, AmountFacts
<1>4. /\ k < Magnitude(pos) /\ pos' = RecordClose(pos, k) /\ cash' = cash - c + g
      /\ trade' = [trade EXCEPT !.gross = @ + g, !.exitCommission = @ + c, !.closed = @ + k]
      /\ synced
      /\ UNCHANGED <<synced, entry, daily, base, realized, today, held>>
  BY DEF CloseInPart, MoreFills, Bank, history
<1> HIDE DEF c, g
<1>5. Magnitude(pos') = Magnitude(pos) - k /\ pos' \in Int /\ pos' # 0
  BY <1>1, <1>4 DEF RecordClose, Magnitude, Smaller
<1>6. trade # NoTrade /\ trade \in TradeRecord
  BY <1>1, <1>4 DEF Books, TradeHoldsPosition, Magnitude
<1>7. /\ trade' \in TradeRecord /\ trade' # NoTrade
      /\ trade'.commission = trade.commission
      /\ trade'.gross = trade.gross + g /\ trade'.exitCommission = trade.exitCommission + c
      /\ trade'.closed = trade.closed + k
  <2>1. trade' = [qty |-> trade.qty, commission |-> trade.commission,
                  gross |-> trade.gross + g, exitCommission |-> trade.exitCommission + c,
                  closed |-> trade.closed + k]
    BY <1>4, <1>6 DEF TradeRecord
  <2>2. trade.gross + g \in Int /\ trade.exitCommission + c \in Int /\ trade.closed + k \in Nat
    BY <1>1, <1>2, <1>3, <1>6 DEF TradeRecord
  <2>3. trade' \in TradeRecord
    BY <1>6, <2>1, <2>2 DEF TradeRecord
  <2> QED BY <2>1, <2>3, TrackerAssumption
<1>8. /\ trade.commission \in Int /\ trade.gross \in Int /\ trade.exitCommission \in Int
      /\ trade.closed \in Nat /\ held \in Nat /\ Magnitude(pos) = held - trade.closed
  BY <1>6 DEF TradeRecord, Books, TradeHoldsPosition
<1>9. Magnitude(pos') = held - (trade.closed + k)
  BY <1>1, <1>5, <1>8
<1> QED BY <1>1, <1>2, <1>3, <1>4, <1>5, <1>6, <1>7, <1>8, <1>9
        DEF Books, CashExplained, TradeHoldsPosition, DailyRight

LEMMA FullKeepsBooks ==
    ASSUME Books, NEW price \in Prices, CloseInFull(price)
    PROVE  Books'
<1> DEFINE c == Commission(price, Magnitude(pos))
           g == Gain(pos, entry, price)
           pnl == g + trade.gross - trade.commission - c - trade.exitCommission
<1>1. price \in Int /\ pos \in Int /\ entry \in Int /\ Magnitude(pos) \in Int
  BY TrackerAssumption DEF Books, Magnitude
<1>2. c \in Int /\ g \in Int
  BY <1>1, AmountFacts
<1>3. /\ pos # 0 /\ cash' = cash - c + g
      /\ realized' = realized + pnl /\ today' = today + pnl
      /\ trade' = NoTrade /\ pos' = 0 /\ entry' = 0 /\ held' = 0 /\ synced
      /\ UNCHANGED <<synced, base>>
  BY DEF CloseInFull, MoreFills, SettledTrade
<1>4. daily' = daily + DailyGain(price)
  BY DEF CloseInFull
<1>5. trade # NoTrade /\ trade \in TradeRecord
  BY <1>3 DEF Books, TradeHoldsPosition
<1>6. /\ trade.commission \in Int /\ trade.gross \in Int /\ trade.exitCommission \in Int
  BY <1>5 DEF TradeRecord
<1>7. DailyGain(price) = pnl
  <2>1. SettledTrade(price).pnl = pnl
    BY DEF SettledTrade
  <2> DEFINE rest == g - trade.commission - c
  <2>2. DailyGain(price) = IF trade.gross # 0 \/ trade.exitCommission # 0
                           THEN rest + (pnl - rest) ELSE rest
    BY <2>1 DEF DailyGain
  <2> HIDE DEF c, g
  <2>3. rest \in Int /\ pnl \in Int
    BY <1>2, <1>6
  <2>4. trade.gross = 0 /\ trade.exitCommission = 0 => rest = pnl
    BY <1>2, <1>6
  <2> HIDE DEF rest, pnl
  <2> QED BY <2>2, <2>3, <2>4
<1> HIDE DEF c, g
<1> QED BY <1>1, <1>2, <1>3, <1>4, <1>5, <1>6, <1>7
        DEF Books, CashExplained, TradeHoldsPosition, DailyRight

LEMMA NextBooks == Books /\ [TNext]_vars => Books'
<1> SUFFICES ASSUME Books, [TNext]_vars PROVE Books'
  OBVIOUS
<1>1. CASE Sync
  BY <1>1, SyncKeepsBooks
<1>2. CASE Fill
  BY <1>2, OpenKeepsBooks, ScaleInKeepsBooks, PartKeepsBooks, FullKeepsBooks DEF Fill
<1>3. ASSUME NEW close \in Prices, NEW newDay \in BOOLEAN, Bar(close, newDay)
      PROVE  Books'
  BY <1>3 DEF Bar, Books, CashExplained, TradeHoldsPosition, DailyRight
<1>4. CASE UNCHANGED vars
  BY <1>4 DEF vars, account, history, Books, CashExplained, TradeHoldsPosition, DailyRight
<1> QED BY <1>1, <1>2, <1>3, <1>4 DEF TNext
-----------------------------------------------------------------------------
\* Whatever is filled, in whatever parts and at whatever prices, the cash of
\* the account is what trading began with, the results of the closed trades
\* and what the open one has paid and realized so far.
THEOREM CashAlwaysExplained == TSpec => []CashExplained
<1>1. Books => CashExplained
  BY DEF Books
<1> QED BY <1>1, InitBooks, NextBooks, PTL DEF TSpec

\* record_open and record_close never let trade and position drift apart.
THEOREM TradeAlwaysHoldsPosition == TSpec => []TradeHoldsPosition
<1>1. Books => TradeHoldsPosition
  BY DEF Books
<1> QED BY <1>1, InitBooks, NextBooks, PTL DEF TSpec

\* The figure the daily loss limit is tested against counts each closed trade
\* of the day once, with its partial closes.
THEOREM DailyAlwaysRight == TSpec => []DailyRight
<1>1. Books => DailyRight
  BY DEF Books
<1> QED BY <1>1, InitBooks, NextBooks, PTL DEF TSpec
-----------------------------------------------------------------------------
(* The protected account.  The levels ride on Tracker's steps, so what is  *)
(* shown of the books above holds here too; the invariant is StopIsItsOwn  *)
(* with the types that make stops comparable.                              *)

\* Every step of the protected account is a step of the account: what
\* record_open, record_close and the bars do to the books does not depend on
\* stops and targets.
THEOREM ProtectedIsTracker == PrSpec => TSpec
<1>1. PrInit => TInit
  BY DEF PrInit
<1>2. [PrNext]_protected => [TNext]_vars
  <2> SUFFICES ASSUME [PrNext]_protected PROVE [TNext]_vars
    OBVIOUS
  <2> USE DEF TNext, Fill
  <2>1. CASE SyncProtected
    BY <2>1 DEF SyncProtected
  <2>2. ASSUME NEW s \in Side, NEW q \in 1..MaxPos, NEW price \in Prices, NEW new \in Levels,
               OpenProtected(s, q, price, new) \/ ScaleProtected(s, q, price, new)
        PROVE  TNext
    BY <2>2 DEF OpenProtected, ScaleProtected
  <2>3. ASSUME NEW k \in 1..MaxPos, NEW price \in Prices, PartProtected(k, price)
        PROVE  TNext
    BY <2>3 DEF PartProtected
  <2>4. ASSUME NEW price \in Prices, CloseProtected(price)
        PROVE  TNext
    BY <2>4 DEF CloseProtected
  <2>5. ASSUME NEW low \in Prices, NEW high \in Prices, NEW close \in Prices,
               NEW newDay \in BOOLEAN, BarProtected(low, high, close, newDay)
        PROVE  TNext
    BY <2>5 DEF BarProtected
  <2>6. ASSUME NEW close \in Prices, NEW newDay \in BOOLEAN, BarWithDeferredExit(close, newDay)
        PROVE  TNext
    BY <2>6 DEF BarWithDeferredExit
  <2>7. CASE UNCHANGED protected
    BY <2>7 DEF protected
  <2> QED BY <2>1, <2>2, <2>3, <2>4, <2>5, <2>6, <2>7 DEF PrNext
<1> QED BY <1>1, <1>2, PTL DEF PrSpec, TSpec
-----------------------------------------------------------------------------
Guarded ==
    /\ pos \in Int
    /\ levels \in [sl : Nat, tp : Nat]
    /\ asked \in Nat
    /\ StopIsItsOwn

LEMMA InitGuarded == PrInit => Guarded
BY DEF PrInit, TInit, Guarded, StopIsItsOwn, NoLevels, NoLevel

\* A position that appears or goes brings its own levels, or none.
LEMMA NewLevelsGuard ==
    ASSUME NEW new \in [sl : Nat, tp : Nat], pos' \in Int, pos' # 0 \/ new.sl = NoLevel,
           levels' = new, asked' = new.sl
    PROVE  Guarded'
BY DEF Guarded, StopIsItsOwn, NoLooser, NoLevel

LEMMA NoLevelsFacts == NoLevels \in [sl : Nat, tp : Nat] /\ NoLevels.sl = NoLevel
BY DEF NoLevels, NoLevel

\* More contracts or fewer on the same side, with a stop that is replaced or kept.
LEMMA ScaleGuards ==
    ASSUME Guarded, NEW s \in Side, NEW q \in 1..MaxPos, NEW price \in Prices,
           NEW new \in Levels, ScaleProtected(s, q, price, new)
    PROVE  Guarded'
<1>1. /\ pos \in Int /\ pos # 0 /\ q \in Nat \ {0}
      /\ Opens(pos, s) /\ pos' = RecordOpen(pos, s, q)
  BY DEF Guarded, ScaleProtected, ScaleIn
<1>2. pos' \in Int /\ pos' # 0 /\ (pos' > 0 <=> pos > 0)
  BY <1>1 DEF RecordOpen, Opens, Signed, Side
<1>3. new \in [sl : Nat, tp : Nat]
  BY ProtectionAssumption
<1>4. levels' \in [sl : Nat, tp : Nat]
      /\ levels'.sl = IF new.sl # NoLevel THEN new.sl ELSE levels.sl
  BY <1>3 DEF ScaleProtected, Taken, Guarded
<1>5. asked' = IF new.sl = NoLevel THEN asked
               ELSE IF asked = NoLevel THEN new.sl ELSE Loosest(pos, asked, new.sl)
  BY DEF ScaleProtected
<1>6. new.sl \in Nat /\ levels.sl \in Nat /\ asked \in Nat
  BY <1>3 DEF Guarded
<1> QED BY <1>1, <1>2, <1>4, <1>5, <1>6
        DEF Guarded, StopIsItsOwn, NoLooser, Loosest, NoLevel

LEMMA PartGuards ==
    ASSUME Guarded, NEW k \in 1..MaxPos, NEW price \in Prices, PartProtected(k, price)
    PROVE  Guarded'
<1>1. /\ pos \in Int /\ k \in Nat \ {0} /\ k < Magnitude(pos) /\ pos' = RecordClose(pos, k)
      /\ UNCHANGED <<levels, asked>>
  BY DEF Guarded, PartProtected, CloseInPart
<1>2. pos # 0 /\ pos' \in Int /\ pos' # 0 /\ (pos' > 0 <=> pos > 0)
  BY <1>1 DEF RecordClose, Magnitude, Smaller
<1> QED BY <1>1, <1>2 DEF Guarded, StopIsItsOwn, NoLooser

\* A bar only moves a stop that is there, and only to the side of the market.
LEMMA BarGuards ==
    ASSUME Guarded, NEW low \in Prices, NEW high \in Prices, NEW close \in Prices,
           NEW newDay \in BOOLEAN, BarProtected(low, high, close, newDay)
    PROVE  Guarded'
<1>1. close \in Nat /\ Trail \in Nat
  BY TrackerAssumption, ProtectionAssumption
<1>2. pos' = pos /\ asked' = asked /\ pos \in Int /\ asked \in Nat
  BY DEF BarProtected, Bar, Guarded
<1>3. CASE levels' = levels
  BY <1>2, <1>3 DEF Guarded, StopIsItsOwn, NoLooser
<1>4. CASE levels' # levels
  <2> DEFINE moved == IF pos > 0 THEN close - Trail ELSE close + Trail
  <2>1. pos # 0 /\ levels' = Trailed(close)
    BY <1>4 DEF BarProtected
  <2>2. /\ Trail # 0 /\ levels.sl # NoLevel /\ ~NoLooser(pos, levels.sl, moved)
        /\ levels' = [levels EXCEPT !.sl = moved]
    BY <1>4, <2>1 DEF Trailed
  <2>3. levels.sl \in Nat /\ levels \in [sl : Nat, tp : Nat]
    BY DEF Guarded
  <2>4. moved \in Nat /\ moved # NoLevel /\ NoLooser(pos, moved, levels.sl)
    BY <1>1, <1>2, <2>2, <2>3 DEF NoLooser, NoLevel
  <2>5. levels' \in [sl : Nat, tp : Nat] /\ levels'.sl = moved
    BY <2>2, <2>3, <2>4
  <2> HIDE DEF moved
  <2>6. asked # NoLevel /\ NoLooser(pos, levels.sl, asked)
    BY <2>1, <2>2 DEF Guarded, StopIsItsOwn
  <2>7. NoLooser(pos, moved, asked)
    BY <1>2, <2>3, <2>4, <2>6 DEF NoLooser
  <2> QED BY <1>2, <2>1, <2>4, <2>5, <2>6, <2>7 DEF Guarded, StopIsItsOwn
<1> QED BY <1>3, <1>4

LEMMA NextGuarded == Guarded /\ [PrNext]_protected => Guarded'
<1> SUFFICES ASSUME Guarded, [PrNext]_protected PROVE Guarded'
  OBVIOUS
<1>1. CASE SyncProtected
  <2>1. pos' \in Int
    BY <1>1 DEF SyncProtected, Sync, SyncPosition, SyncCash, Guarded
  <2> QED BY <1>1, <2>1, NoLevelsFacts, NewLevelsGuard DEF SyncProtected
<1>2. ASSUME NEW s \in Side, NEW q \in 1..MaxPos, NEW price \in Prices, NEW new \in Levels,
             OpenProtected(s, q, price, new)
      PROVE  Guarded'
  <2>1. pos' \in Int /\ pos' # 0
    BY <1>2 DEF OpenProtected, OpenTrade, RecordOpen, Opens, Signed, Side
  <2>2. new \in [sl : Nat, tp : Nat]
    BY ProtectionAssumption
  <2> QED BY <1>2, <2>1, <2>2, NewLevelsGuard DEF OpenProtected
<1>3. ASSUME NEW s \in Side, NEW q \in 1..MaxPos, NEW price \in Prices, NEW new \in Levels,
             ScaleProtected(s, q, price, new)
      PROVE  Guarded'
  BY <1>3, ScaleGuards
<1>4. ASSUME NEW k \in 1..MaxPos, NEW price \in Prices, PartProtected(k, price)
      PROVE  Guarded'
  BY <1>4, PartGuards
<1>5. ASSUME NEW price \in Prices, CloseProtected(price)
      PROVE  Guarded'
  <2>1. pos' \in Int
    BY <1>5 DEF CloseProtected, CloseInFull
  <2> QED BY <1>5, <2>1, NoLevelsFacts, NewLevelsGuard DEF CloseProtected
<1>6. ASSUME NEW low \in Prices, NEW high \in Prices, NEW close \in Prices,
             NEW newDay \in BOOLEAN, BarProtected(low, high, close, newDay)
      PROVE  Guarded'
  BY <1>6, BarGuards
<1>7. ASSUME NEW close \in Prices, NEW newDay \in BOOLEAN, BarWithDeferredExit(close, newDay)
      PROVE  Guarded'
  BY <1>7 DEF BarWithDeferredExit, Bar, Guarded, StopIsItsOwn, NoLooser
<1>8. CASE UNCHANGED protected
  BY <1>8 DEF protected, vars, account, Guarded, StopIsItsOwn, NoLooser
<1> QED BY <1>1, <1>2, <1>3, <1>4, <1>5, <1>6, <1>7, <1>8 DEF PrNext
-----------------------------------------------------------------------------
\* However a position is built up, sold in parts and trailed, its stop is never
\* looser than the loosest its own fills asked for, and none outlives it.
THEOREM StopAlwaysItsOwn == PrSpec => []StopIsItsOwn
<1>1. Guarded => StopIsItsOwn
  BY DEF Guarded
<1> QED BY <1>1, InitGuarded, NextGuarded, PTL DEF PrSpec
=============================================================================
