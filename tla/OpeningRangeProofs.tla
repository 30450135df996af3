------------------------- MODULE OpeningRangeProofs -------------------------
(***************************************************************************)
(* Theorems about OpeningRange for every configuration the schema lets      *)
(* through, any bars, any calendar and any restarts.  SessionLimit does not *)
(* follow from the strategy's count, for a gap in the data sets the count   *)
(* back in mid-session: LimitInv says that the range is then empty and its  *)
(* window over.  RangeInv adds what the range spans, also in a warm-up.     *)
(***************************************************************************)
EXTENDS OpeningRange, TLAPS

Names == {"none", "morning", "afternoon", "atc", "closed"}
Keys == Int \X Names
Moment == [day : Nat, min : 0..1439]
Past(t, n) == t \in Moment /\ InSession(t) /\ Elapsed(t, n) > 0

Strategy == [current : Keys, lastBar : Moment \cup {Never},
             high : 0..Unbounded, low : 0..Unbounded, trades : Nat]
Spent(s) == ~(s.high > s.low) /\ ~InWindow(s.lastBar)

\* The inductive invariant.
LimitInv ==
    /\ orb \in Strategy
    /\ orb.lastBar # Never => Past(orb.lastBar, now) /\ orb.current = SessionKey(orb.lastBar)
    /\ now \in Moment /\ InSession(now)
    /\ rows \subseteq [time : Moment, high : 0..Unbounded, low : 0..Unbounded]
    /\ \A r \in rows : Past(r.time, now)
    /\ warming \subseteq rows
    /\ warming # {} => entries.count = 0
    /\ entries \in [session : Keys, count : 0..Orb.maxTrades]
    /\ entries.count > 0 =>
           /\ orb.lastBar # Never
           /\ entries.session = orb.current
           /\ entries.count <= orb.trades \/ Spent(orb)

LEMMA OrbFacts == Orb.maxTrades \in 1..10 /\ Orb.orbMinutes \in 1..60
BY OrbAssumption DEF Config

LEMMA UnboundedFacts == Unbounded \in Nat /\ Unbounded > 0
BY SMT DEF Unbounded

\* The hours of a day, and the start of the window of each.
LEMMA Hours ==
    ASSUME NEW t \in Moment
    PROVE  /\ TimeOfDay(t.min) = t.min
           /\ SessionOf(t.min) = "morning" <=> 540 <= t.min /\ t.min < 690
           /\ SessionOf(t.min) = "afternoon" <=> 780 <= t.min /\ t.min < 870
           /\ InSession(t) => t.min >= WindowStart(t) /\ t.min < 870
           /\ WindowStart(t) = IF SessionOf(t.min) = "morning" THEN 540 ELSE 780
           /\ SessionOf(t.min) \in Names
           /\ SessionKey(t) \in Keys
<1>1. t.min \in 0..1439 /\ t.day \in Nat
  BY DEF Moment
<1>2. TimeOfDay(t.min) = t.min
  BY <1>1 DEF TimeOfDay, MinutesPerDay
<1>3. /\ SessionOf(t.min) = "morning" <=> 540 <= t.min /\ t.min < 690
      /\ SessionOf(t.min) = "afternoon" <=> 780 <= t.min /\ t.min < 870
      /\ SessionOf(t.min) \in Names
  BY <1>1, <1>2 DEF SessionOf, InMorning, InAfternoon, InAtc, HM, MorningStart, MorningEnd,
                    AfternoonStart, AfternoonEnd, AtcStart, AtcEnd, Names
<1>4. WindowStart(t) = IF SessionOf(t.min) = "morning" THEN 540 ELSE 780
  BY DEF WindowStart, HM, MorningStart, AfternoonStart
<1>5. SessionKey(t) \in Keys
  BY <1>1, <1>3 DEF SessionKey, Keys
<1> QED BY <1>1, <1>2, <1>3, <1>4, <1>5 DEF InSession

\* The bar after a bar of the hours is a later one of the hours.
LEMMA FollowingIsLater ==
    ASSUME NEW t \in Moment, InSession(t)
    PROVE  /\ Following(t) \in Moment
           /\ InSession(Following(t))
           /\ Elapsed(t, Following(t)) > 0
<1> DEFINE p == t.day
           i == t.min
<1>1. p \in Nat /\ i \in 0..1439
  BY DEF Moment
<1>2. t.day = p /\ t.min = i /\ i < 870
  BY Hours
<1> HIDE DEF p, i
<1> DEFINE n == i + Freq
           r == p + 1
           u == At(p, n)
           a == At(p, 780)
           d == At(r, 540)
<1>3. Following(t) = IF InSession(u) THEN u ELSE IF n <= 780 THEN a ELSE d
  BY <1>2 DEF Following, Opens, At, AfternoonStart, MorningStart, HM
<1>4. /\ n \in 0..1439 /\ n \in Int /\ n > i /\ (n <= 780 => i < 780)
      /\ r \in Nat /\ r \in Int /\ r = p + 1 /\ p \in Int /\ i \in Int
      /\ 780 \in 0..1439 /\ 540 \in 0..1439
  BY <1>1, <1>2, FreqAssumption
<1> HIDE DEF n, r
<1>5. u \in Moment /\ a \in Moment /\ d \in Moment
  <2> HIDE DEF u, a, d
  <2>1. u = [day |-> p, min |-> n] /\ a = [day |-> p, min |-> 780] /\ d = [day |-> r, min |-> 540]
    BY DEF u, a, d, At
  <2> QED BY <1>1, <1>4, <2>1 DEF Moment
<1>6. InSession(a) /\ InSession(d)
  <2>1. a.min = 780 /\ d.min = 540
    BY DEF At
  <2> QED BY <1>5, <2>1, Hours DEF InSession
<1>7. /\ Elapsed(t, u) = 1440 * (p - p) + n - i
      /\ Elapsed(t, a) = 1440 * (p - p) + 780 - i
      /\ Elapsed(t, d) = 1440 * (r - p) + 540 - i
  <2>1. Elapsed(t, u) = MinutesPerDay * (p - p) + n - i
    <3>1. u.day = p /\ u.min = n /\ t.day = p /\ t.min = i
      BY <1>2 DEF At
    <3> QED BY <3>1 DEF Elapsed
  <2>2. Elapsed(t, a) = MinutesPerDay * (p - p) + 780 - i
    <3>1. a.day = p /\ a.min = 780 /\ t.day = p /\ t.min = i
      BY <1>2 DEF At
    <3> QED BY <3>1 DEF Elapsed
  <2>3. Elapsed(t, d) = MinutesPerDay * (r - p) + 540 - i
    <3>1. d.day = r /\ d.min = 540 /\ t.day = p /\ t.min = i
      BY <1>2 DEF At
    <3> QED BY <3>1 DEF Elapsed
  <2>4. MinutesPerDay = 1440
    BY DEF MinutesPerDay
  <2> HIDE DEF u, a, d
  <2> QED BY <2>1, <2>2, <2>3, <2>4
<1>8. Elapsed(t, u) > 0 /\ Elapsed(t, d) > 0 /\ (i < 780 => Elapsed(t, a) > 0)
  BY <1>2, <1>4, <1>7
<1> HIDE DEF u, a, d
<1> QED BY <1>3, <1>4, <1>5, <1>6, <1>8

\* What was past stays past.
LEMMA PastStays ==
    ASSUME NEW t, Past(t, now), now \in Moment, InSession(now)
    PROVE  t \in Moment /\ Elapsed(t, Following(now)) > 0
<1>1. Following(now) \in Moment /\ Elapsed(now, Following(now)) > 0
  BY FollowingIsLater
<1>2. t \in Moment /\ Elapsed(t, now) > 0
  BY DEF Past
<1>3. \A s \in Moment : s.day \in Nat /\ s.min \in Int
  BY DEF Moment
<1>4. \A r, s, u \in Moment : Elapsed(r, s) > 0 /\ Elapsed(s, u) > 0 => Elapsed(r, u) > 0
  BY <1>3 DEF Elapsed, MinutesPerDay
<1> QED BY <1>1, <1>2, <1>4

\* Later in the same session the window does not come back, and after a gap it
\* is over.
LEMMA WindowPasses ==
    ASSUME NEW s \in Moment, NEW t \in Moment, InSession(s), InSession(t),
           SessionKey(s) = SessionKey(t), Elapsed(s, t) > 0
    PROVE  /\ ~InWindow(s) => ~InWindow(t)
           /\ Elapsed(s, t) > Gap => ~InWindow(t)
<1> DEFINE x == s.min
           y == t.min
           w == WindowStart(t)
           m == Orb.orbMinutes
<1>1. s.day = t.day /\ WindowStart(s) = w
  BY DEF SessionKey, WindowStart
<1>2. x \in 0..1439 /\ y \in 0..1439 /\ s.day \in Nat /\ w \in {540, 780} /\ x >= w
  BY <1>1, Hours DEF Moment
<1>3. Elapsed(s, t) = y - x
  <2> DEFINE d == s.day
  <2>1. Elapsed(s, t) = MinutesPerDay * (d - d) + y - x
    BY <1>1 DEF Elapsed
  <2>2. MinutesPerDay = 1440 /\ d \in Nat
    BY <1>2 DEF MinutesPerDay
  <2> HIDE DEF d, x, y
  <2> QED BY <1>2, <2>1, <2>2
<1>4. m \in 1..60 /\ Gap \in Nat /\ Gap >= 60
  BY OrbFacts, GapAssumption
<1>5. (InWindow(s) <=> x - w < m) /\ (InWindow(t) <=> y - w < m)
  BY <1>1 DEF InWindow
<1> HIDE DEF x, y, w, m
<1> QED BY <1>2, <1>3, <1>4, <1>5

\* A strategy whose last bar, if it had one, is before t.
Before(s, t) ==
    s.lastBar # Never =>
        /\ s.lastBar \in Moment /\ InSession(s.lastBar) /\ Elapsed(s.lastBar, t) > 0
        /\ s.current = SessionKey(s.lastBar)

LEMMA EnterFacts ==
    ASSUME NEW s \in Strategy, NEW t \in Moment, InSession(t)
    PROVE  /\ EnterSession(s, t) \in Strategy
           /\ EnterSession(s, t).lastBar = t
           /\ EnterSession(s, t).current = SessionKey(t)
           /\ Before(s, t) /\ s.lastBar # Never /\ s.current = SessionKey(t) =>
                  \/ EnterSession(s, t).trades = s.trades /\ ~Spent(s)
                  \/ Spent(EnterSession(s, t))
<1> DEFINE r == EnterSession(s, t)
           f == Anew(SessionKey(t), t)
           g == [s EXCEPT !.lastBar = t]
<1>1. SessionKey(t) \in Keys
  BY Hours
<1>2. /\ f \in Strategy /\ f.lastBar = t /\ f.current = SessionKey(t)
      /\ ~(f.high > f.low)
  BY <1>1, UnboundedFacts DEF Strategy, Anew
<1>3. /\ g \in Strategy /\ g.lastBar = t /\ g.current = s.current /\ g.trades = s.trades
      /\ g.high = s.high /\ g.low = s.low
  BY DEF Strategy
<1>4. CASE s.current # SessionKey(t)
  <2>1. r = f
    BY <1>4 DEF EnterSession
  <2> QED BY <1>2, <1>4, <2>1
<1>5. CASE s.current = SessionKey(t) /\ HasGap(s, t)
  <2>1. r = f
    BY <1>5 DEF EnterSession
  <2>2. Before(s, t) => ~InWindow(t)
    BY <1>5, WindowPasses DEF HasGap, Before
  <2> QED BY <1>2, <2>1, <2>2 DEF Spent
<1>6. CASE s.current = SessionKey(t) /\ ~HasGap(s, t)
  <2>1. r = g
    BY <1>6 DEF EnterSession
  <2>2. Before(s, t) /\ s.lastBar # Never /\ Spent(s) => ~InWindow(t)
    BY <1>6, WindowPasses DEF Spent, Before
  <2> QED BY <1>3, <1>6, <2>1, <2>2 DEF Spent
<1> QED BY <1>4, <1>5, <1>6

\* A bar that forms the range changes nothing else, and none does once it is over.
LEMMA AbsorbFacts ==
    ASSUME NEW s \in Strategy, NEW t \in Moment, InSession(t), NEW holding,
           NEW b, b.high \in 0..Unbounded, b.low \in 0..Unbounded
    PROVE  /\ Absorb(s, t, b, holding) \in Strategy
           /\ Absorb(s, t, b, holding).lastBar = t
           /\ Absorb(s, t, b, holding).current = SessionKey(t)
           /\ Before(s, t) /\ s.lastBar # Never /\ s.current = SessionKey(t) =>
                  \/ Absorb(s, t, b, holding).trades = s.trades /\ ~Spent(s)
                  \/ Spent(Absorb(s, t, b, holding))
<1> DEFINE r == EnterSession(s, t)
           w == Widen(r, b)
<1>1. /\ r \in Strategy /\ r.lastBar = t /\ r.current = SessionKey(t)
      /\ Before(s, t) /\ s.lastBar # Never /\ s.current = SessionKey(t) =>
             (r.trades = s.trades /\ ~Spent(s)) \/ Spent(r)
  BY EnterFacts
<1> HIDE DEF r
<1>2. w \in Strategy /\ w.lastBar = t /\ w.current = SessionKey(t) /\ w.trades = r.trades
  BY <1>1 DEF Widen, Strategy
<1>3. Absorb(s, t, b, holding) = IF Forms(r, t, holding) THEN w ELSE r
  BY DEF Absorb, r
<1>4. Spent(r) => ~Forms(r, t, holding)
  BY <1>1 DEF Spent, Forms
<1> HIDE DEF w
<1> QED BY <1>1, <1>2, <1>3, <1>4

-----------------------------------------------------------------------------
Rows == [time : Moment, high : 0..Unbounded, low : 0..Unbounded]

LEMMA LimitInit == Init => LimitInv
<1> SUFFICES ASSUME Init PROVE LimitInv
  OBVIOUS
<1>1. <<-1, "none">> \in Keys /\ Orb.maxTrades \in 1..10
  BY OrbFacts DEF Keys, Names
<1>2. orb \in Strategy /\ orb.lastBar = Never
  BY <1>1, UnboundedFacts DEF Init, Fresh, Anew, Strategy
<1>3. entries \in [session : Keys, count : 0..Orb.maxTrades] /\ entries.count = 0
  BY <1>1 DEF Init, NoEntries, Fresh, Anew
<1>4. now \in Moment /\ InSession(now)
  <2>1. PICK d \in Nat : now = Opens(d)
    BY DaysAssumption DEF Init
  <2>2. now \in Moment /\ now.min = 540
    BY <2>1 DEF Opens, At, Moment, MorningStart, HM
  <2> QED BY <2>2, Hours DEF InSession
<1> QED BY <1>2, <1>3, <1>4 DEF LimitInv, Init

\* Time goes on: what the invariant says of the past.
LEMMA LaterOn ==
    ASSUME LimitInv, now' = Following(now)
    PROVE  /\ now' \in Moment /\ InSession(now') /\ Past(now, now')
           /\ \A t : Past(t, now) => Past(t, now')
<1>1. now \in Moment /\ InSession(now)
  BY DEF LimitInv
<1>2. now' \in Moment /\ InSession(now') /\ Elapsed(now, now') > 0
  BY <1>1, FollowingIsLater
<1>3. ASSUME NEW t, Past(t, now) PROVE Past(t, now')
  BY <1>1, <1>3, PastStays DEF Past
<1> QED BY <1>1, <1>2, <1>3 DEF Past

\* The rows of the session with a bar of the moment are of the past of the next.
LEMMA RowsGrow ==
    ASSUME LimitInv, now' = Following(now), NEW b \in Shapes
    PROVE  /\ Row(now, b) \in Rows
           /\ \A r \in OfSession(rows, now) \cup {Row(now, b)} : r \in Rows /\ Past(r.time, now')
<1>1. now \in Moment /\ rows \subseteq Rows /\ \A r \in rows : Past(r.time, now)
  BY DEF LimitInv, Rows
<1>2. b.high \in 0..Unbounded /\ b.low \in 0..Unbounded
  BY ShapeAssumption, UnboundedFacts DEF Shape
<1>3. 1 \in 0..Unbounded
  BY UnboundedFacts
<1>4. Row(now, b) \in Rows /\ Row(now, b).time = now
  BY <1>1, <1>2, <1>3 DEF Row, Rows
<1> QED BY <1>1, <1>4, LaterOn DEF OfSession

\* A live bar.
LEMMA BarKeepsLimit ==
    ASSUME LimitInv, NEW b \in Shapes, Bar(b)
    PROVE  LimitInv'
<1> DEFINE r == Absorb(orb, now, b, held)
           s == Breakout(r, now, b, held)
           c == IF entries.session = SessionKey(now) THEN entries.count ELSE 0
           k == Orb.maxTrades
<1>1. /\ now \in Moment /\ InSession(now) /\ Before(orb, now)
      /\ orb \in Strategy /\ now' = Following(now)
  BY DEF LimitInv, Past, Before, Bar
<1>2. b.high \in 0..Unbounded /\ b.low \in 0..Unbounded
  BY ShapeAssumption, UnboundedFacts DEF Shape
<1>3. /\ r \in Strategy /\ r.lastBar = now /\ r.current = SessionKey(now)
      /\ orb.lastBar # Never /\ orb.current = SessionKey(now) =>
             (r.trades = orb.trades /\ ~Spent(orb)) \/ Spent(r)
  BY <1>1, <1>2, AbsorbFacts
<1> HIDE DEF r
<1>4. s # Hold => r.trades < k /\ ~Spent(r)
  BY DEF Breakout, TradesLeft, RangePasses, Spent
<1>5. orb' = Counted(r, s)
  BY DEF Bar, r
<1>6. /\ entries'.session = SessionKey(now)
      /\ entries'.count = c + (IF s = Hold THEN 0 ELSE 1)
      /\ entries' = [session |-> entries'.session, count |-> entries'.count]
  BY DEF Bar, r
<1> HIDE DEF s
<1>7. k \in 1..10 /\ r.trades \in Nat /\ c \in 0..k
  BY <1>3, OrbFacts DEF LimitInv, Strategy
<1>8. c > 0 => c <= r.trades \/ Spent(r)
  BY <1>3, <1>7 DEF LimitInv
<1>9. /\ orb' \in Strategy /\ orb'.lastBar = now /\ orb'.current = SessionKey(now)
      /\ entries'.count \in 0..k
      /\ entries'.count > 0 => entries'.count <= orb'.trades \/ Spent(orb')
  <2>1. CASE s = Hold
    <3>1. orb' = r /\ entries'.count = c
      BY <1>5, <1>6, <1>7, <2>1 DEF Counted
    <3> QED BY <1>3, <1>7, <1>8, <3>1
  <2>2. CASE s # Hold
    <3> DEFINE n == r.trades
    <3>1. orb' = [r EXCEPT !.trades = n + 1] /\ entries'.count = c + 1
      BY <1>5, <1>6, <2>2 DEF Counted
    <3>2. n \in Nat /\ n < k /\ (c > 0 => c <= n)
      BY <1>4, <1>7, <1>8, <2>2
    <3> HIDE DEF n, c, k
    <3>3. c + 1 \in 0..k /\ c + 1 <= n + 1 /\ n + 1 \in Nat
      BY <1>7, <3>2
    <3>4. orb' \in Strategy /\ orb'.lastBar = now /\ orb'.current = SessionKey(now)
          /\ orb'.trades = n + 1
      BY <1>3, <3>1, <3>3 DEF Strategy
    <3> QED BY <3>1, <3>3, <3>4
  <2> QED BY <2>1, <2>2
<1>10. entries' \in [session : Keys, count : 0..k]
  BY <1>1, <1>6, <1>9, Hours
<1>11. orb'.lastBar # Never
  BY <1>1, <1>9 DEF Moment, Never
<1>12. now' \in Moment /\ InSession(now') /\ Past(now, now')
  BY <1>1, LaterOn
<1>13. rows' \subseteq Rows /\ \A x \in rows' : Past(x.time, now')
  BY <1>1, RowsGrow DEF Bar
<1>14. warming' = {}
  BY DEF Bar, Open
<1> HIDE DEF c, k
<1> QED BY <1>9, <1>10, <1>11, <1>12, <1>13, <1>14, <1>6 DEF LimitInv, Rows, k

\* A step that leaves the strategy and its entries alone, while time may pass.
LEMMA OthersKeepLimit ==
    ASSUME LimitInv, UNCHANGED <<orb, entries, warming>>,
           \/ UNCHANGED <<now, rows>>
           \/ /\ warming = {} /\ now' = Following(now)
              /\ \/ UNCHANGED rows
                 \/ \E b \in Shapes : rows' = OfSession(rows, now) \cup {Row(now, b)}
    PROVE  LimitInv'
<1>1. CASE UNCHANGED <<now, rows>>
  BY <1>1 DEF LimitInv, Past
<1>2. CASE warming = {} /\ now' = Following(now)
  <2>1. now' \in Moment /\ InSession(now') /\ \A t : Past(t, now) => Past(t, now')
    BY <1>2, LaterOn
  <2>2. rows' \subseteq Rows /\ \A r \in rows' : Past(r.time, now')
    <3>1. CASE UNCHANGED rows
      BY <2>1, <3>1 DEF LimitInv, Rows
    <3>2. CASE \E b \in Shapes : rows' = OfSession(rows, now) \cup {Row(now, b)}
      BY <1>2, <3>2, RowsGrow
    <3>3. UNCHANGED <<now, rows>> => rows' \subseteq Rows
      BY DEF LimitInv, Rows
    <3>4. CASE UNCHANGED <<now, rows>>
      BY <1>2, <2>1, <3>3, <3>4 DEF LimitInv
    <3> QED BY <3>1, <3>2, <3>4
  <2> QED BY <1>2, <2>1, <2>2 DEF LimitInv, Rows
<1> QED BY <1>1, <1>2

\* A new process has signalled nothing.
LEMMA RestartKeepsLimit ==
    ASSUME LimitInv, Restart
    PROVE  LimitInv'
<1>1. <<-1, "none">> \in Keys /\ Orb.maxTrades \in 1..10
  BY OrbFacts DEF Keys, Names
<1>2. orb' \in Strategy /\ orb'.lastBar = Never
  BY <1>1, UnboundedFacts DEF Restart, Fresh, Anew, Strategy
<1>3. entries' \in [session : Keys, count : 0..Orb.maxTrades] /\ entries'.count = 0
  BY <1>1 DEF Restart, NoEntries, Fresh, Anew
<1>4. UNCHANGED <<now, rows>> /\ warming' \subseteq rows
  BY DEF Restart
<1> QED BY <1>2, <1>3, <1>4 DEF LimitInv

\* Nor does it while it is warmed up, whatever it is fed.
LEMMA WarmKeepsLimit ==
    ASSUME LimitInv, Warm
    PROVE  LimitInv'
<1>1. PICK r \in warming :
          /\ \A s \in warming : Elapsed(r.time, s.time) >= 0
          /\ orb' = Absorb(orb, r.time, r, HeldInWarmup)
          /\ warming' = warming \ {r}
          /\ UNCHANGED <<held, working, now, rows, entries>>
  BY DEF Warm
<1>2. r \in Rows /\ Past(r.time, now) /\ entries.count = 0
  BY <1>1 DEF LimitInv, Rows
<1>3. r.time \in Moment /\ InSession(r.time) /\ orb \in Strategy
      /\ r.high \in 0..Unbounded /\ r.low \in 0..Unbounded
  BY <1>2 DEF Rows, Past, LimitInv
<1>4. /\ orb' \in Strategy /\ orb'.lastBar = r.time /\ orb'.current = SessionKey(r.time)
  BY <1>1, <1>3, AbsorbFacts
<1> QED BY <1>1, <1>2, <1>4 DEF LimitInv

LEMMA LimitStep == LimitInv /\ [Next]_vars => LimitInv'
<1> SUFFICES ASSUME LimitInv, [Next]_vars PROVE LimitInv'
  OBVIOUS
<1>1. ASSUME NEW b \in Shapes, Bar(b) PROVE LimitInv'
  BY <1>1, BarKeepsLimit
<1>2. ASSUME NEW b \in Shapes, InvalidBar(b) PROVE LimitInv'
  BY <1>2, OthersKeepLimit DEF InvalidBar, Open
<1>3. CASE NoBar
  BY <1>3, OthersKeepLimit DEF NoBar, Open
<1>4. CASE Market
  BY <1>4, OthersKeepLimit DEF Market
<1>5. CASE Restart
  BY <1>5, RestartKeepsLimit
<1>6. CASE Warm
  BY <1>6, WarmKeepsLimit
<1>7. CASE UNCHANGED vars
  BY <1>7, OthersKeepLimit DEF vars
<1> QED BY <1>1, <1>2, <1>3, <1>4, <1>5, <1>6, <1>7 DEF Next

\* No process signals more than max_trades_per_session entries in a session.
THEOREM SessionLimited == Spec => []SessionLimit
<1>1. LimitInv => SessionLimit
  BY OrbFacts DEF LimitInv, SessionLimit
<1> QED BY <1>1, LimitInit, LimitStep, PTL DEF Spec
-----------------------------------------------------------------------------
(* The range.  What it spans is the window's bars shown to the process while *)
(* flat, unless a gap emptied it, and then its window is over.              *)

Priced(r) == r.high \in 1..Unbounded - 1 /\ r.low \in 1..Unbounded - 1
Empty(s) == s.high = 0 /\ s.low = Unbounded
Trace(s, set) == \/ set = {} /\ Empty(s)
                 \/ Spans(s, set)
                 \/ Empty(s) /\ ~InWindow(s.lastBar)

RowsInv ==
    /\ \A r \in rows \cup shown : Priced(r)
    /\ \A r, s \in rows : (r.time = s.time => r = s) /\ SessionKey(r.time) = SessionKey(s.time)

SpanInv ==
    /\ \A r \in shown : SessionKey(r.time) = orb.current
    /\ orb.lastBar = Never => orb = Fresh /\ shown = {}
    /\ orb.trades > 0 => ~InWindow(orb.lastBar)
    /\ Trace(orb, shown)

\* A warm-up feeds the rows in order, and spans the ones it has fed.
Fed == rows \ warming
WarmInv ==
    warming # {} =>
        /\ orb.trades = 0
        /\ \A f \in Fed, w \in warming : Elapsed(f.time, w.time) > 0
        /\ Fed = {} => orb.lastBar = Never
        /\ Fed # {} => \E f \in Fed : /\ orb.lastBar = f.time
                                      /\ \A s \in Fed : Elapsed(s.time, f.time) >= 0
        /\ shown = {f \in Fed : InWindow(f.time)}
        /\ ~LongGap(rows) /\ shown # {} => Spans(orb, shown)

RangeInv == LimitInv /\ RowsInv /\ SpanInv /\ WarmInv

LEMMA SpansNotEmpty ==
    ASSUME NEW s, NEW S, Spans(s, S), \A r \in S : Priced(r)
    PROVE  S # {} /\ s.high \in 1..Unbounded - 1 /\ s.low \in 1..Unbounded - 1 /\ ~Empty(s)
BY UnboundedFacts DEF Spans, Priced, Empty

\* _update_formation: the first bar is the range, each later one widens it.
LEMMA WidenSpans ==
    ASSUME NEW s \in Strategy, NEW S, NEW row, NEW b,
           row.high = b.high, row.low = b.low, Priced(row), \A r \in S : Priced(r),
           (S = {} /\ Empty(s)) \/ Spans(s, S)
    PROVE  Spans(Widen(s, b), S \cup {row})
<1> DEFINE w == Widen(s, b)
           U == Unbounded
           h == b.high
           l == b.low
<1>1. /\ w.high = IF h > s.high THEN h ELSE s.high
      /\ w.low = IF l < s.low THEN l ELSE s.low
  BY DEF Widen, Strategy
<1>2. U \in Nat /\ U > 0 /\ h \in 1..U - 1 /\ l \in 1..U - 1
  BY UnboundedFacts DEF Priced
<1>3. \A r \in S : r.high \in 1..U - 1 /\ r.low \in 1..U - 1
  BY DEF Priced
<1> HIDE DEF w, U, h, l
<1>4. CASE S = {} /\ Empty(s)
  <2>1. s.high = 0 /\ s.low = U
    BY <1>4 DEF Empty, U
  <2>2. w.high = h /\ w.low = l
    BY <1>1, <1>2, <2>1
  <2> QED BY <1>2, <1>4, <2>2 DEF Spans, w, h, l
<1>5. CASE Spans(s, S)
  <2>1. s.high \in 1..U - 1 /\ s.low \in 1..U - 1
    BY <1>5, SpansNotEmpty DEF U
  <2>2. /\ w.high \in {h, s.high} /\ w.high >= h /\ w.high >= s.high
        /\ w.low \in {l, s.low} /\ w.low <= l /\ w.low <= s.low
        /\ w.high \in Int /\ w.low \in Int
    BY <1>1, <1>2, <2>1
  <2>3. \A r \in S \cup {row} : r.high <= w.high /\ w.low <= r.low
    <3>1. ASSUME NEW r \in S PROVE r.high <= w.high /\ w.low <= r.low
      <4>1. r.high <= s.high /\ s.low <= r.low
        BY <1>5 DEF Spans
      <4> QED BY <1>3, <2>1, <2>2, <4>1
    <3> QED BY <1>2, <2>2, <3>1 DEF h, l
  <2>4. \E r \in S \cup {row} : r.high = w.high
    BY <1>5, <2>2 DEF Spans, h
  <2>5. \E r \in S \cup {row} : r.low = w.low
    BY <1>5, <2>2 DEF Spans, l
  <2> QED BY <2>3, <2>4, <2>5 DEF Spans, w
<1> QED BY <1>4, <1>5

\* The bars shown once a bar of the moment t has been, and the strategy that
\* absorbed it.
Seen(S, t, holding, row) ==
    OfSession(S, t) \cup (IF InWindow(t) /\ ~holding THEN {row} ELSE {})

LEMMA SpanStep ==
    ASSUME NEW s \in Strategy, NEW t \in Moment, InSession(t), NEW holding,
           NEW S, NEW row, NEW b, Before(s, t),
           row.time = t, Priced(row), InWindow(t) => row.high = b.high /\ row.low = b.low,
           \A r \in S : Priced(r) /\ SessionKey(r.time) = s.current,
           s.trades > 0 => ~InWindow(s.lastBar),
           s.lastBar = Never => S = {} /\ s.trades = 0 /\ s.current # SessionKey(t),
           Trace(s, S),
           NEW a, a = Absorb(s, t, b, holding), NEW R, R = Seen(S, t, holding, row)
    PROVE  /\ Trace(a, R)
           /\ a.trades \in {0, s.trades}
           /\ a.trades > 0 => ~InWindow(t)
           /\ \A r \in R : Priced(r) /\ SessionKey(r.time) = SessionKey(t)
           /\ (S # {} => Spans(s, S)) /\ (HasGap(s, t) => s.current # SessionKey(t))
              => (R # {} => Spans(a, R))
<1> DEFINE e == EnterSession(s, t)
           O == OfSession(S, t)
           k == Orb.maxTrades
<1>1. /\ e \in Strategy /\ e.lastBar = t /\ e.current = SessionKey(t)
  BY EnterFacts
<1>2. k \in 1..10 /\ s.trades \in Nat
  BY OrbFacts DEF Strategy
<1>3. \A r \in O : Priced(r) /\ SessionKey(r.time) = SessionKey(t)
  BY DEF OfSession
<1>4. R = O \cup (IF InWindow(t) /\ ~holding THEN {row} ELSE {})
  BY DEF Seen
<1>5. \A r \in R : Priced(r) /\ SessionKey(r.time) = SessionKey(t)
  BY <1>3, <1>4
<1>6. /\ e.trades \in {0, s.trades}
      /\ e.trades > 0 => ~InWindow(t)
      /\ (O = {} /\ Empty(e)) \/ Spans(e, O) \/ (Empty(e) /\ ~InWindow(t))
      /\ (S # {} => Spans(s, S)) /\ (HasGap(s, t) => s.current # SessionKey(t))
         => ((O = {} /\ Empty(e)) \/ Spans(e, O))
  <2> DEFINE f == Anew(SessionKey(t), t)
  <2>1. f.trades = 0 /\ Empty(f)
    BY DEF Anew, Empty
  <2>2. CASE s.current # SessionKey(t)
    <3>1. e = f /\ O = {}
      BY <2>2 DEF EnterSession, OfSession
    <3> QED BY <1>2, <2>1, <3>1
  <2>3. CASE s.current = SessionKey(t) /\ HasGap(s, t)
    <3>1. e = f
      BY <2>3 DEF EnterSession
    <3>2. ~InWindow(t)
      BY <2>3, WindowPasses DEF HasGap, Before
    <3> QED BY <1>2, <2>1, <2>3, <3>1, <3>2
  <2>4. CASE s.current = SessionKey(t) /\ ~HasGap(s, t)
    <3>1. e = [s EXCEPT !.lastBar = t]
      BY <2>4 DEF EnterSession
    <3>2. e.trades = s.trades /\ e.high = s.high /\ e.low = s.low
      BY <3>1 DEF Strategy
    <3>3. ~InWindow(s.lastBar) => ~InWindow(t)
      BY <2>4, WindowPasses DEF Before
    <3>4. O = S
      BY <2>4 DEF OfSession
    <3>5. Spans(s, S) => Spans(e, O)
      BY <3>2, <3>4 DEF Spans
    <3>6. Empty(s) => Empty(e)
      BY <3>2 DEF Empty
    <3>7. S = {} => ~Spans(s, S)
      BY DEF Spans
    <3> HIDE DEF e, O
    <3>8. (O = {} /\ Empty(e)) \/ Spans(e, O) \/ (Empty(e) /\ ~InWindow(t))
      BY <3>3, <3>4, <3>5, <3>6 DEF Trace
    <3>9. (S # {} => Spans(s, S)) => ((O = {} /\ Empty(e)) \/ Spans(e, O))
      BY <3>4, <3>5, <3>6, <3>7 DEF Trace
    <3> QED BY <3>2, <3>3, <3>8, <3>9
  <2> QED BY <2>2, <2>3, <2>4
<1> HIDE DEF e, O
<1>7. CASE Forms(e, t, holding)
  <2>1. a = Widen(e, b) /\ ~holding /\ InWindow(t)
    BY <1>7 DEF Absorb, Forms, e
  <2>2. (O = {} /\ Empty(e)) \/ Spans(e, O)
    BY <1>6, <2>1
  <2>3. R = O \cup {row}
    BY <1>4, <2>1
  <2>4. Spans(a, R)
    BY <1>1, <1>3, <2>1, <2>2, <2>3, WidenSpans
  <2>5. a.trades = e.trades
    BY <1>1, <2>1 DEF Widen, Strategy
  <2> QED BY <1>5, <1>6, <2>4, <2>5 DEF Trace
<1>8. CASE ~Forms(e, t, holding)
  <2>1. a = e
    BY <1>8 DEF Absorb, e
  <2>2. ~(InWindow(t) /\ ~holding)
    <3>1. InWindow(t) => e.trades < k
      <4>1. e.trades \in Nat
        BY <1>1 DEF Strategy
      <4>2. InWindow(t) => e.trades = 0
        BY <1>6, <4>1
      <4> HIDE DEF k
      <4> QED BY <1>2, <4>2
    <3> QED BY <1>8, <3>1 DEF Forms
  <2>3. R = O
    BY <1>4, <2>2
  <2>4. Trace(a, R)
    BY <1>1, <1>6, <2>1, <2>3 DEF Trace
  <2> QED BY <1>5, <1>6, <2>1, <2>3, <2>4
<1> QED BY <1>7, <1>8
LEMMA FreshFacts ==
    /\ Fresh.trades = 0 /\ Fresh.lastBar = Never /\ Empty(Fresh)
    /\ \A t \in Moment : Fresh.current # SessionKey(t)
<1>1. Fresh.trades = 0 /\ Fresh.lastBar = Never /\ Empty(Fresh) /\ Fresh.current[1] = -1
  BY DEF Fresh, Anew, Empty
<1>2. \A t \in Moment : SessionKey(t)[1] \in Nat
  BY DEF Moment, SessionKey
<1> QED BY <1>1, <1>2

\* Moments lie on a line.
LEMMA ElapsedFacts ==
    /\ \A s, t \in Moment : Elapsed(s, t) \in Int /\ (Elapsed(s, t) = 0 <=> s = t)
    /\ \A s, t, u \in Moment : Elapsed(s, u) = Elapsed(s, t) + Elapsed(t, u)
<1> DEFINE V(t) == 1440 * t.day + t.min
<1>1. ASSUME NEW s \in Moment, NEW t \in Moment
      PROVE  /\ Elapsed(s, t) = V(t) - V(s)
             /\ Elapsed(s, t) = 0 <=> s = t
  <2> DEFINE d == s.day
             e == t.day
             m == s.min
             n == t.min
  <2>1. d \in Nat /\ e \in Nat /\ m \in 0..1439 /\ n \in 0..1439
    BY DEF Moment
  <2>2. s = t <=> d = e /\ m = n
    BY DEF Moment
  <2>3. Elapsed(s, t) = 1440 * (e - d) + n - m
    BY DEF Elapsed, MinutesPerDay
  <2> HIDE DEF d, e, m, n
  <2>4. 1440 * (e - d) + n - m = 1440 * e + n - (1440 * d + m)
    BY <2>1
  <2>5. 1440 * (e - d) + n - m = 0 <=> d = e /\ m = n
    BY <2>1, Z3
  <2>6. Elapsed(s, t) = 1440 * e + n - (1440 * d + m)
    BY <2>3, <2>4
  <2>7. Elapsed(s, t) = V(t) - V(s)
    <3>1. V(s) = 1440 * d + m /\ V(t) = 1440 * e + n
      BY DEF d, e, m, n
    <3> HIDE DEF V
    <3> QED BY <2>1, <2>6, <3>1
  <2>8. Elapsed(s, t) = 0 <=> s = t
    BY <2>2, <2>3, <2>5
  <2> QED BY <2>7, <2>8
<1>2. \A t \in Moment : V(t) \in Int
  BY DEF Moment
<1> HIDE DEF V
<1> QED BY <1>1, <1>2

\* The rows of the present session with a bar of the moment.
LEMMA RowsAdd ==
    ASSUME LimitInv, RowsInv, NEW b \in Shapes, ValidBar(b),
           NEW R, R = OfSession(rows, now) \cup {Row(now, b)}
    PROVE  /\ Priced(Row(now, b)) /\ Row(now, b).time = now
           /\ InWindow(now) => Row(now, b).high = b.high /\ Row(now, b).low = b.low
           /\ \A r \in R : Priced(r)
           /\ \A r, s \in R : (r.time = s.time => r = s) /\ SessionKey(r.time) = SessionKey(s.time)
<1> DEFINE x == Row(now, b)
           U == Unbounded
<1>1. b.high \in 1..U - 1 /\ b.low \in 1..U - 1 /\ 1 \in 1..U - 1
  <2>1. b.high \in 0..U - 1 /\ b.low \in 0..U - 1 /\ b.high > 0 /\ b.low > 0
    BY ShapeAssumption DEF Shape, ValidBar
  <2>2. U \in Nat /\ U > 1
    BY SMT DEF Unbounded
  <2> HIDE DEF U
  <2> QED BY <2>1, <2>2
<1>2. Priced(x) /\ x.time = now /\ (InWindow(now) => x.high = b.high /\ x.low = b.low)
  BY <1>1 DEF Row, Priced
<1> HIDE DEF x
<1>3. \A r \in rows : r.time # now
  <2>1. \A r \in rows : r.time \in Moment /\ Elapsed(r.time, now) > 0
    BY DEF LimitInv, Past
  <2>2. now \in Moment /\ Elapsed(now, now) = 0
    BY ElapsedFacts DEF LimitInv
  <2> QED BY <2>1, <2>2
<1>4. R = {r \in rows : SessionKey(r.time) = SessionKey(now)} \cup {x}
  BY DEF OfSession, x
<1>5. \A r \in R : Priced(r)
  BY <1>2, <1>4 DEF RowsInv
<1>6. \A r, s \in R : (r.time = s.time => r = s) /\ SessionKey(r.time) = SessionKey(s.time)
  BY <1>2, <1>3, <1>4 DEF RowsInv
<1> QED BY <1>2, <1>5, <1>6 DEF x

\* A live bar; an entry is signalled against the span of what was shown.
LEMMA BarKeepsRange ==
    ASSUME RangeInv, NEW b \in Shapes, Bar(b)
    PROVE  /\ RowsInv' /\ SpanInv' /\ WarmInv'
           /\ orb'.trades > orb.trades => Spans(orb', shown')
<1> DEFINE r == Absorb(orb, now, b, held)
           s == Breakout(r, now, b, held)
           x == Row(now, b)
<1>1. LimitInv /\ RowsInv /\ SpanInv /\ ValidBar(b) /\ orb \in Strategy
  BY DEF RangeInv, Bar, LimitInv
<1>2. now \in Moment /\ InSession(now) /\ Before(orb, now)
  BY <1>1 DEF LimitInv, Past, Before
<1>3. Priced(x) /\ x.time = now /\ (InWindow(now) => x.high = b.high /\ x.low = b.low)
  BY <1>1, RowsAdd
<1>4. shown' = Seen(shown, now, held, x)
  BY DEF Bar, Seen
<1>5. rows' = OfSession(rows, now) \cup {x} /\ warming' = {}
  BY DEF Bar, Open
<1>6. orb' = Counted(r, s)
  BY DEF Bar
<1>7. r \in Strategy /\ r.lastBar = now /\ r.current = SessionKey(now)
  <2>1. b.high \in 0..Unbounded /\ b.low \in 0..Unbounded
    BY ShapeAssumption, UnboundedFacts DEF Shape
  <2> QED BY <1>1, <1>2, <2>1, AbsorbFacts
<1>8. /\ Trace(r, shown')
      /\ r.trades \in {0, orb.trades}
      /\ r.trades > 0 => ~InWindow(now)
      /\ \A y \in shown' : Priced(y) /\ SessionKey(y.time) = SessionKey(now)
  <2>1. \A y \in shown : Priced(y) /\ SessionKey(y.time) = orb.current
    BY <1>1 DEF RowsInv, SpanInv
  <2>2. orb.lastBar = Never => shown = {} /\ orb.trades = 0 /\ orb.current # SessionKey(now)
    BY <1>1, <1>2, FreshFacts DEF SpanInv
  <2>3. (orb.trades > 0 => ~InWindow(orb.lastBar)) /\ Trace(orb, shown)
    BY <1>1 DEF SpanInv
  <2> HIDE DEF r, x
  <2>4. r = Absorb(orb, now, b, held)
    BY DEF r
  <2> QED BY <1>1, <1>2, <1>3, <1>4, <2>1, <2>2, <2>3, <2>4, SpanStep
<1>9. s # Hold => ~InWindow(now) /\ r.high > r.low
  BY DEF Breakout, RangePasses
<1> HIDE DEF r, s, x
<1>10. RowsInv'
  <2>1. /\ \A y \in rows' : Priced(y)
        /\ \A y, z \in rows' : (y.time = z.time => y = z) /\ SessionKey(y.time) = SessionKey(z.time)
    BY <1>1, <1>5, RowsAdd DEF x
  <2> QED BY <1>8, <2>1 DEF RowsInv
<1>11. /\ orb'.high = r.high /\ orb'.low = r.low /\ orb'.lastBar = now /\ orb'.current = SessionKey(now)
       /\ IF s = Hold THEN orb'.trades = r.trades ELSE orb'.trades = r.trades + 1
  <2>1. CASE s = Hold
    BY <1>6, <1>7, <2>1 DEF Counted
  <2>2. CASE s # Hold
    <3> DEFINE k == r.trades
    <3>1. orb' = [r EXCEPT !.trades = k + 1]
      BY <1>6, <2>2 DEF Counted
    <3> HIDE DEF k
    <3>2. orb'.high = r.high /\ orb'.low = r.low /\ orb'.lastBar = now /\ orb'.current = SessionKey(now)
          /\ orb'.trades = k + 1
      BY <1>7, <3>1 DEF Strategy
    <3> QED BY <2>2, <3>2 DEF k
  <2> QED BY <2>1, <2>2
<1>12. /\ Trace(r, shown') => Trace(orb', shown')
       /\ Spans(r, shown') => Spans(orb', shown')
  <2>1. Spans(r, shown') => Spans(orb', shown')
    BY <1>11 DEF Spans
  <2>2. Empty(r) => Empty(orb')
    BY <1>11 DEF Empty
  <2>3. r.lastBar = orb'.lastBar
    BY <1>7, <1>11
  <2> QED BY <2>1, <2>2, <2>3 DEF Trace
<1>13. SpanInv'
  <2>1. now # Never
    BY <1>2 DEF Moment, Never
  <2>2. orb'.trades > 0 => ~InWindow(now)
    BY <1>8, <1>9, <1>11
  <2> QED BY <1>8, <1>11, <1>12, <2>1, <2>2 DEF SpanInv
<1>14. orb'.trades > orb.trades => Spans(orb', shown')
  <2>1. r.trades \in Nat /\ orb.trades \in Nat
    BY <1>1, <1>7 DEF Strategy
  <2>2. orb'.trades > orb.trades => s # Hold
    BY <1>8, <1>11, <2>1
  <2>3. r.high > r.low => ~Empty(r)
    BY UnboundedFacts DEF Empty
  <2> QED BY <1>8, <1>9, <1>12, <2>2, <2>3 DEF Trace
<1>15. WarmInv'
  BY <1>5 DEF WarmInv
<1> QED BY <1>10, <1>13, <1>14, <1>15

\* Steps that leave the strategy and what it was shown alone.
LEMMA OthersKeepRange ==
    ASSUME RangeInv, UNCHANGED <<orb, shown, warming>>,
           \/ UNCHANGED rows
           \/ warming = {} /\ \E b \in Shapes : ValidBar(b) /\ rows' = OfSession(rows, now) \cup {Row(now, b)}
    PROVE  RowsInv' /\ SpanInv' /\ WarmInv'
<1>1. SpanInv'
  BY DEF RangeInv, SpanInv
<1>2. CASE UNCHANGED rows
  <2>1. RowsInv'
    BY <1>2 DEF RangeInv, RowsInv
  <2>2. WarmInv'
    BY <1>2 DEF RangeInv, WarmInv, Fed
  <2> QED BY <1>1, <2>1, <2>2
<1>3. CASE warming = {} /\ \E b \in Shapes : ValidBar(b) /\ rows' = OfSession(rows, now) \cup {Row(now, b)}
  <2>1. PICK b \in Shapes : ValidBar(b) /\ rows' = OfSession(rows, now) \cup {Row(now, b)}
    BY <1>3
  <2>2. LimitInv /\ RowsInv
    BY DEF RangeInv
  <2>3. /\ \A r \in rows' : Priced(r)
        /\ \A r, s \in rows' : (r.time = s.time => r = s) /\ SessionKey(r.time) = SessionKey(s.time)
    BY <2>1, <2>2, RowsAdd
  <2>4. RowsInv'
    BY <2>2, <2>3 DEF RowsInv
  <2>5. WarmInv'
    BY <1>3 DEF WarmInv
  <2> QED BY <1>1, <2>4, <2>5
<1> QED BY <1>2, <1>3

LEMMA RestartKeepsRange ==
    ASSUME RangeInv, Restart
    PROVE  RowsInv' /\ SpanInv' /\ WarmInv'
<1>1. orb' = Fresh /\ shown' = {} /\ rows' = rows /\ warming' \in {rows, {}}
  BY DEF Restart
<1>2. RowsInv'
  BY <1>1 DEF RangeInv, RowsInv
<1>3. SpanInv'
  BY <1>1, FreshFacts DEF SpanInv, Trace
<1>4. WarmInv'
  <2>1. warming' # {} => Fed' = {}
    BY <1>1 DEF Fed
  <2> QED BY <1>1, <2>1, FreshFacts DEF WarmInv
<1> QED BY <1>2, <1>3, <1>4

\* The next row of a warm-up.
LEMMA WarmKeepsRange ==
    ASSUME RangeInv, Warm
    PROVE  /\ RowsInv' /\ SpanInv' /\ WarmInv'
           /\ warming' = {} /\ WindowRows # {} /\ ~LongGap(rows) => Spans(orb', WindowRows)
           /\ orb'.trades = 0
<1>1. PICK r \in warming :
          /\ \A s \in warming : Elapsed(r.time, s.time) >= 0
          /\ orb' = Absorb(orb, r.time, r, HeldInWarmup)
          /\ warming' = warming \ {r}
          /\ shown' = OfSession(shown, r.time) \cup (IF InWindow(r.time) THEN {r} ELSE {})
          /\ UNCHANGED <<held, working, now, rows, entries>>
  BY DEF Warm
<1> DEFINE t == r.time
<1>2. LimitInv /\ RowsInv /\ SpanInv /\ WarmInv /\ orb \in Strategy
  BY DEF RangeInv, LimitInv
<1>3. /\ orb.trades = 0
      /\ \A f \in Fed, w \in warming : Elapsed(f.time, w.time) > 0
      /\ Fed = {} => orb.lastBar = Never
      /\ Fed # {} => \E f \in Fed : /\ orb.lastBar = f.time
                                    /\ \A s \in Fed : Elapsed(s.time, f.time) >= 0
      /\ shown = {f \in Fed : InWindow(f.time)}
      /\ ~LongGap(rows) /\ shown # {} => Spans(orb, shown)
  BY <1>1, <1>2 DEF WarmInv
<1>4. \A s \in rows : s.time \in Moment /\ InSession(s.time) /\ Priced(s)
  BY <1>2 DEF LimitInv, Past, RowsInv
<1>5. warming \subseteq rows /\ r \in rows /\ t \in Moment /\ InSession(t) /\ Priced(r)
  <2>1. warming \subseteq rows
    BY <1>2 DEF LimitInv
  <2> QED BY <1>1, <1>4, <2>1
<1>6. \A s \in rows : SessionKey(s.time) = SessionKey(t) /\ (s.time = t => s = r)
  BY <1>2, <1>5 DEF RowsInv
<1>7. Before(orb, t)
  BY <1>1, <1>2, <1>3 DEF Before, LimitInv, Past
<1>8. shown' = Seen(shown, t, HeldInWarmup, r) /\ orb' = Absorb(orb, t, r, HeldInWarmup)
  <2>1. ~HeldInWarmup
    BY DEF HeldInWarmup
  <2> QED BY <1>1, <2>1 DEF Seen
<1>9. orb' \in Strategy /\ orb'.lastBar = t /\ orb'.current = SessionKey(t)
  <2>1. r.high \in 0..Unbounded /\ r.low \in 0..Unbounded
    BY <1>5, UnboundedFacts DEF Priced
  <2> QED BY <1>2, <1>5, <1>8, <2>1, AbsorbFacts
<1>10. /\ Trace(orb', shown')
       /\ orb'.trades \in {0, orb.trades}
       /\ orb'.trades > 0 => ~InWindow(t)
       /\ \A y \in shown' : Priced(y) /\ SessionKey(y.time) = SessionKey(t)
       /\ (shown # {} => Spans(orb, shown)) /\ (HasGap(orb, t) => orb.current # SessionKey(t))
          => (shown' # {} => Spans(orb', shown'))
  <2>1. \A y \in shown : Priced(y) /\ SessionKey(y.time) = orb.current
    BY <1>2 DEF RowsInv, SpanInv
  <2>2. orb.lastBar = Never => shown = {} /\ orb.trades = 0 /\ orb.current # SessionKey(t)
    BY <1>2, <1>5, FreshFacts DEF SpanInv
  <2>3. (orb.trades > 0 => ~InWindow(orb.lastBar)) /\ Trace(orb, shown)
    BY <1>2 DEF SpanInv
  <2> HIDE DEF t
  <2>4. r.time = t /\ Priced(r) /\ r.high = r.high /\ r.low = r.low
    BY <1>5 DEF t
  <2> QED BY <1>2, <1>5, <1>7, <1>8, <2>1, <2>2, <2>3, <2>4, SpanStep
<1>11. orb'.trades = 0
  BY <1>3, <1>10
<1>12. Fed' = Fed \cup {r} /\ rows' = rows
  BY <1>1, <1>5 DEF Fed
<1>13. shown' = {f \in Fed' : InWindow(f.time)}
  <2>1. \A f \in Fed : SessionKey(f.time) = SessionKey(t)
    BY <1>6 DEF Fed
  <2>2. OfSession(shown, t) = shown
    BY <1>3, <2>1 DEF OfSession
  <2> QED BY <1>1, <1>3, <1>12, <2>2
<1>14. HasGap(orb, t) => LongGap(rows)
  <2> SUFFICES ASSUME HasGap(orb, t) PROVE LongGap(rows)
    OBVIOUS
  <2>1. orb.lastBar # Never /\ Elapsed(orb.lastBar, t) > Gap
    BY DEF HasGap
  <2>2. PICK f \in Fed : orb.lastBar = f.time /\ \A s \in Fed : Elapsed(s.time, f.time) >= 0
    BY <1>3, <2>1
  <2> DEFINE before == {s \in rows : Elapsed(s.time, t) > 0}
  <2>3. f \in before
    BY <1>1, <1>3, <2>2 DEF Fed
  <2>4. ASSUME NEW s \in before PROVE Elapsed(s.time, t) > Gap
    <3>1. s \notin warming
      <4> SUFFICES ASSUME s \in warming PROVE FALSE
        OBVIOUS
      <4>1. Elapsed(t, s.time) >= 0 /\ Elapsed(s.time, t) > 0
        BY <1>1
      <4>2. Elapsed(s.time, s.time) = Elapsed(s.time, t) + Elapsed(t, s.time)
        BY <1>4, <1>5, ElapsedFacts
      <4>3. Elapsed(s.time, s.time) = 0 /\ Elapsed(s.time, t) \in Int /\ Elapsed(t, s.time) \in Int
        BY <1>4, <1>5, ElapsedFacts
      <4> QED BY <4>1, <4>2, <4>3
    <3>2. s \in Fed /\ f \in rows
      BY <3>1 DEF Fed
    <3>3. Elapsed(s.time, f.time) >= 0 /\ Elapsed(f.time, t) > Gap
      BY <2>1, <2>2, <3>2
    <3>4. /\ Elapsed(s.time, t) = Elapsed(s.time, f.time) + Elapsed(f.time, t)
          /\ Elapsed(s.time, f.time) \in Int /\ Elapsed(f.time, t) \in Int
      BY <1>4, <1>5, <3>2, ElapsedFacts
    <3> QED BY <3>3, <3>4, GapAssumption
  <2> QED BY <1>5, <2>3, <2>4 DEF LongGap
<1>15. ~LongGap(rows) /\ shown' # {} => Spans(orb', shown')
  BY <1>3, <1>10, <1>14
<1>16. SpanInv'
  <2>1. t # Never
    BY <1>5 DEF Moment, Never
  <2> QED BY <1>9, <1>10, <2>1 DEF SpanInv
<1>17. RowsInv'
  BY <1>2, <1>10, <1>12 DEF RowsInv
<1>18. WarmInv'
  <2>1. ASSUME NEW f \in Fed', NEW w \in warming' PROVE Elapsed(f.time, w.time) > 0
    <3>1. CASE f \in Fed
      BY <1>1, <1>3, <3>1
    <3>2. CASE f = r
      <4>1. w \in warming /\ w # r /\ w \in rows
        BY <1>1, <1>5
      <4>2. Elapsed(t, w.time) >= 0 /\ w.time # t
        BY <1>1, <1>6, <4>1
      <4>3. Elapsed(t, w.time) \in Int /\ Elapsed(t, w.time) # 0
        BY <1>4, <1>5, <4>1, <4>2, ElapsedFacts
      <4> QED BY <3>2, <4>2, <4>3
    <3> QED BY <1>12, <3>1, <3>2
  <2>2. orb'.lastBar = t /\ r \in Fed' /\ \A s \in Fed' : Elapsed(s.time, t) >= 0
    <3>1. \A s \in Fed : Elapsed(s.time, t) > 0
      BY <1>1, <1>3
    <3>2. Elapsed(t, t) = 0
      BY <1>5, ElapsedFacts
    <3>3. \A s \in Fed : Elapsed(s.time, t) \in Int
      BY <1>4, <1>5, ElapsedFacts DEF Fed
    <3> QED BY <1>9, <1>12, <3>1, <3>2, <3>3
  <2> HIDE DEF t
  <2>3. \E f \in Fed' : orb'.lastBar = f.time /\ \A s \in Fed' : Elapsed(s.time, f.time) >= 0
    BY <2>2 DEF t
  <2>4. LongGap(rows)' <=> LongGap(rows)
    BY <1>12
  <2> QED BY <1>11, <1>12, <1>13, <1>15, <2>1, <2>3, <2>4 DEF WarmInv
<1>19. warming' = {} /\ WindowRows # {} /\ ~LongGap(rows) => Spans(orb', WindowRows)
  <2> SUFFICES ASSUME warming' = {}, WindowRows # {}, ~LongGap(rows) PROVE Spans(orb', WindowRows)
    OBVIOUS
  <2>1. Fed' = rows
    BY <1>12 DEF Fed
  <2>2. shown' = WindowRows
    BY <1>13, <2>1 DEF WindowRows
  <2> QED BY <1>15, <2>2
<1> QED BY <1>11, <1>16, <1>17, <1>18, <1>19

LEMMA RangeInit == Init => RangeInv
<1> SUFFICES ASSUME Init PROVE RangeInv
  OBVIOUS
<1>1. LimitInv
  BY LimitInit
<1>2. orb = Fresh /\ rows = {} /\ shown = {} /\ warming = {}
  BY DEF Init
<1>3. RowsInv /\ WarmInv
  BY <1>2 DEF RowsInv, WarmInv
<1>4. SpanInv
  BY <1>2, FreshFacts DEF SpanInv, Trace
<1> QED BY <1>1, <1>3, <1>4 DEF RangeInv

\* What a step does, with what the two action properties ask of it.
LEMMA RangeStep ==
    RangeInv /\ [Next]_vars =>
        /\ RangeInv'
        /\ orb'.trades > orb.trades => Spans(orb', shown')
        /\ warming # {} /\ warming' = {} /\ WindowRows # {} /\ ~LongGap(rows)
               => Spans(orb', WindowRows)
<1> SUFFICES ASSUME RangeInv, [Next]_vars
             PROVE  /\ RowsInv' /\ SpanInv' /\ WarmInv'
                    /\ orb'.trades > orb.trades => Spans(orb', shown')
                    /\ warming # {} /\ warming' = {} /\ WindowRows # {} /\ ~LongGap(rows)
                           => Spans(orb', WindowRows)
  BY LimitStep DEF RangeInv
<1>0. orb.trades \in Nat
  BY DEF RangeInv, LimitInv, Strategy
<1>1. ASSUME NEW b \in Shapes, Bar(b)
      PROVE  /\ RowsInv' /\ SpanInv' /\ WarmInv' /\ warming = {}
             /\ orb'.trades > orb.trades => Spans(orb', shown')
  BY <1>1, BarKeepsRange DEF Bar, Open
<1> DEFINE Rest == /\ UNCHANGED <<orb, shown, warming>>
                   /\ \/ UNCHANGED rows
                      \/ /\ warming = {}
                         /\ \E b \in Shapes :
                                ValidBar(b) /\ rows' = OfSession(rows, now) \cup {Row(now, b)}
<1>2. Rest => RowsInv' /\ SpanInv' /\ WarmInv' /\ warming' = warming /\ orb' = orb
  BY OthersKeepRange
<1>3. ASSUME NEW b \in Shapes, InvalidBar(b) PROVE Rest
  BY <1>3 DEF InvalidBar
<1>4. NoBar => Rest
  BY DEF NoBar, Open
<1>5. Market \/ UNCHANGED vars => Rest
  BY DEF Market, vars
<1>6. CASE Restart
  <2>1. warming = {} /\ orb'.trades = 0
    BY <1>6, FreshFacts DEF Restart
  <2> QED BY <1>0, <1>6, <2>1, RestartKeepsRange
<1>7. CASE Warm
  BY <1>0, <1>7, WarmKeepsRange
<1> HIDE DEF Rest
<1>8. CASE Rest
  BY <1>0, <1>2, <1>8
<1> QED BY <1>1, <1>3, <1>4, <1>5, <1>6, <1>7, <1>8 DEF Next

LEMMA RangeStays == Spec => []RangeInv
BY RangeInit, RangeStep, PTL DEF Spec

\* Whatever gaps, positions, days and restarts went before, an entry is measured
\* against the span of its own session's opening bars.
THEOREM RangeIsOwn == Spec => RangeOfThisSession
<1>1. RangeInv /\ [Next]_vars => [orb'.trades > orb.trades => Spans(orb', shown')]_vars
  BY RangeStep
<1> QED BY <1>1, RangeStays, PTL DEF Spec, RangeOfThisSession

\* A warm-up with all rows of the session rebuilds the whole opening range.
THEOREM WarmupRestores == Spec => RestartRestores
<1>1. RangeInv /\ [Next]_vars =>
          [warming # {} /\ warming' = {} /\ WindowRows # {} /\ ~LongGap(rows)
              => Spans(orb', WindowRows)]_vars
  BY RangeStep
<1> QED BY <1>1, RangeStays, PTL DEF Spec, RestartRestores
=============================================================================
