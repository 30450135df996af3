---------------------------- MODULE RecoveryProofs ----------------------------
(***************************************************************************)
(* Theorems about OrderManager and about restarts of it, for any set of    *)
(* order ids, any quantities and any number of restarts, however entries   *)
(* overlap.  First the order path alone, with or without a callback        *)
(* thread, and its refinement of OrderDesk.  Then restarts: a start whose  *)
(* orders request succeeds knows every working order; unless a start loses *)
(* hold of a working exit no second one is sent; and no fill is booked     *)
(* twice but those of an exit taken over.                                  *)
(***************************************************************************)
EXTENDS Recovery, TLAPS

-----------------------------------------------------------------------------
(* The order path, without restarts.                                       *)

\* A report on its way, or already handled, is no newer than the broker's book:
\* it counts no more than the order's fills, and one that ends an order comes
\* after the order has stopped working.
TrueReport(r) ==
    /\ r.cum <= book[r.id].cum
    /\ r.st # "partial" => ~Working(r.id)
    /\ book[r.id].status # "unused"

ReportsTrue ==
    /\ \A i \in 1..Len(chan) : TrueReport(chan[i])
    /\ \A r \in delivered : TrueReport(r)

\* The submit call in progress owns an order nobody has booked a fill of.
CallOwnsOrder ==
    pc # "idle" =>
        /\ cur \in Orders \ Registered
        /\ applied[cur] = 0
        /\ book[cur].status # "unused"
        /\ book[cur].kind = IF pc = "exitPlaced" THEN "exit" ELSE "entry"
        /\ pc = "exitPlaced" => pendingExits = {}

\* The two dictionaries hold orders of their own kind, and one exit at most.
DictionariesApart ==
    /\ \A o \in pendingEntries : book[o].kind = "entry" /\ book[o].status # "unused"
    /\ \A o \in pendingExits : book[o].kind = "exit" /\ book[o].status # "unused"
    /\ \A x, y \in pendingExits : x = y

\* An exit that still works is locked in, or about to be, unless its call raised.
ExitsLocked ==
    \A o \in Orders \ unheard : Working(o) /\ book[o].kind = "exit" =>
        o \in pendingExits \/ (pc = "exitPlaced" /\ cur = o)

\* The counter runs between what was booked and what the broker filled.
CountersBetween ==
    \A o \in Orders :
        /\ applied[o] <= book[o].cum
        /\ cumFills[o] <= book[o].cum
        /\ o \in Registered => applied[o] <= cumFills[o]
        /\ book[o].status = "unused" => applied[o] = 0 /\ cumFills[o] = 0

IInv == TypeOK /\ ReportsTrue /\ CallOwnsOrder /\ DictionariesApart
               /\ ExitsLocked /\ CountersBetween
-----------------------------------------------------------------------------
\* What record_open and record_close do to the position, for any quantity.
LEMMA RecordFacts ==
    ASSUME NEW p \in Int, NEW q \in Nat, NEW s \in Side
    PROVE  /\ RecordOpen(p, s, q) \in Int
           /\ RecordClose(p, q) \in Int
           /\ p > 0 => RecordOpen(p, s, q) >= 0 /\ RecordClose(p, q) >= 0
           /\ p < 0 => RecordOpen(p, s, q) <= 0 /\ RecordClose(p, q) <= 0
           /\ Magnitude(p) \in Nat
           /\ Smaller(q, Magnitude(p)) \in 0..q
BY DEF RecordOpen, RecordClose, Opens, Signed, Side, Magnitude, Smaller

\* A report the channel delivers is a true one, and the rest stays true.
LEMMA HeadReport ==
    ASSUME TypeOK, ReportsTrue, chan # <<>>
    PROVE  /\ Head(chan) \in Report
           /\ TrueReport(Head(chan))
           /\ Tail(chan) \in Seq(Report)
           /\ \A i \in 1..Len(Tail(chan)) : TrueReport(Tail(chan)[i])
BY DEF TypeOK, ReportsTrue

LEMMA InitIInv == Init => IInv
BY OrderAssumption
   DEF Init, Fresh, IInv, TypeOK, ReportsTrue, CallOwnsOrder, DictionariesApart, ExitsLocked,
       CountersBetween, BookEntry, Status, Kind, Side, Working, Registered, Report

\* A step of the book that keeps true reports true, and sends at most one new
\* true report, keeps them all true.
LEMMA BookStep ==
    ASSUME TypeOK, ReportsTrue, delivered' = delivered,
           \A r \in Report : TrueReport(r) => TrueReport(r)',
           \/ chan' = chan
           \/ \E m \in Report : TrueReport(m)' /\ chan' = Append(chan, m)
    PROVE  ReportsTrue' /\ chan' \in Seq(Report)
<1>1. \A i \in 1..Len(chan) : \E r \in Report : r = chan[i] /\ TrueReport(r)'
  BY DEF TypeOK, ReportsTrue
<1>2. \A r \in delivered' : TrueReport(r)'
  BY DEF TypeOK, ReportsTrue
<1>3. SUFFICES \A i \in 1..Len(chan') : \E r \in Report : r = chan'[i] /\ TrueReport(r)'
  <2>1. chan' \in Seq(Report)
    <3>1. ASSUME NEW m \in Report PROVE Append(chan, m) \in Seq(Report)
      BY DEF TypeOK
    <3> QED BY <3>1 DEF TypeOK
  <2> QED BY <1>2, <2>1 DEF ReportsTrue, TrueReport, Working
<1>4. CASE chan' = chan
  BY <1>1, <1>4
<1>5. ASSUME NEW m \in Report, TrueReport(m)', chan' = Append(chan, m),
             NEW i \in 1..Len(chan')
      PROVE  \E r \in Report : r = chan'[i] /\ TrueReport(r)'
  <2>1. chan \in Seq(Report) /\ Len(chan') = Len(chan) + 1
    BY <1>5 DEF TypeOK
  <2>2. CASE i = Len(chan) + 1
    <3>1. chan'[i] = m
      BY <1>5, <2>1, <2>2
    <3> QED BY <1>5, <3>1
  <2>3. CASE i # Len(chan) + 1
    <3>1. i \in 1..Len(chan) /\ chan'[i] = chan[i]
      BY <1>5, <2>1, <2>3
    <3> QED BY <1>1, <3>1
  <2> QED BY <2>2, <2>3
<1> QED BY <1>4, <1>5

\* What an event of the broker makes of a working order, and the report it sends.
LEMMA EventFacts ==
    ASSUME NEW o \in Orders, NEW b \in BookEntry, b.status = "working",
           NEW c, \/ c = Canceled(b)
                  \/ \E k \in 1..(b.qty - b.cum) : c = Filled(b, k)
    PROVE  /\ c \in BookEntry
           /\ c.cum >= b.cum /\ c.kind = b.kind /\ c.side = b.side
           /\ c.status \in {"working", "filled", "canceled"}
           /\ ReportOf(o, c) \in Report
           /\ ReportOf(o, c).id = o /\ ReportOf(o, c).cum = c.cum
           /\ c.status = "working" => ReportOf(o, c).st = "partial"
<1>1. /\ c \in BookEntry /\ c.cum >= b.cum /\ c.kind = b.kind /\ c.side = b.side
      /\ c.status \in {"working", "filled", "canceled"}
  <2>1. CASE c = Canceled(b)
    BY <2>1 DEF BookEntry, Canceled, Status
  <2>2. ASSUME NEW k \in 1..(b.qty - b.cum), c = Filled(b, k)
        PROVE  /\ c \in BookEntry /\ c.cum >= b.cum /\ c.kind = b.kind /\ c.side = b.side
               /\ c.status \in {"working", "filled", "canceled"}
    <3> DEFINE st == IF b.cum + k = b.qty THEN "filled" ELSE "working"
    <3>1. k \in Nat /\ b.cum \in Nat /\ b.cum + k \in Nat /\ b.cum + k >= b.cum
      BY <2>2 DEF BookEntry
    <3>2. c = [b EXCEPT !.cum = b.cum + k, !.status = st]
      BY <2>2 DEF Filled
    <3>3. st \in {"filled", "working"}
      OBVIOUS
    <3> HIDE DEF st
    <3>4. /\ c = [status |-> st, kind |-> b.kind, side |-> b.side,
                  qty |-> b.qty, cum |-> b.cum + k]
          /\ b.kind \in Kind /\ b.side \in Side /\ b.qty \in Nat
      BY <3>2 DEF BookEntry
    <3>5. c.status \in Status
      BY <3>3, <3>4 DEF Status
    <3> QED BY <3>1, <3>3, <3>4, <3>5 DEF BookEntry
  <2> QED BY <2>1, <2>2
<1> QED BY <1>1 DEF BookEntry, ReportOf, Report

\* A report whose fills are booked, in part or whole, keeps the counters between
\* what was booked and what was filled.
LEMMA BookedKeepsCounters ==
    ASSUME IInv, NEW r \in Report, TrueReport(r), book' = book,
           Registered' \subseteq Registered,
           applied' \in [Orders -> Nat], applied'[r.id] <= r.cum,
           cumFills' \in [Orders -> Nat], cumFills'[r.id] <= r.cum,
           r.id \in Registered' => cumFills'[r.id] = r.cum,
           \A o \in Orders : o # r.id => applied'[o] = applied[o] /\ cumFills'[o] = cumFills[o]
    PROVE  CountersBetween'
<1>1. /\ r.id \in Orders /\ r.cum \in Nat /\ book[r.id].cum \in Nat
      /\ r.cum <= book[r.id].cum /\ book[r.id].status # "unused"
  BY DEF IInv, TypeOK, TrueReport, BookEntry, Report
<1>2. applied'[r.id] \in Nat /\ cumFills'[r.id] \in Nat
  BY <1>1
<1>3. /\ applied'[r.id] <= book[r.id].cum /\ cumFills'[r.id] <= book[r.id].cum
      /\ r.id \in Registered' => applied'[r.id] <= cumFills'[r.id]
  BY <1>1, <1>2
<1> SUFFICES ASSUME NEW o \in Orders
             PROVE  /\ applied'[o] <= book[o].cum /\ cumFills'[o] <= book[o].cum
                    /\ o \in Registered' => applied'[o] <= cumFills'[o]
                    /\ book[o].status = "unused" => applied'[o] = 0 /\ cumFills'[o] = 0
  BY DEF CountersBetween
<1>4. CASE o = r.id
  BY <1>1, <1>3, <1>4
<1>5. CASE o # r.id
  <2>1. /\ applied[o] <= book[o].cum /\ cumFills[o] <= book[o].cum
        /\ o \in Registered => applied[o] <= cumFills[o]
        /\ book[o].status = "unused" => applied[o] = 0 /\ cumFills[o] = 0
    BY DEF IInv, CountersBetween
  <2> QED BY <1>5, <2>1
<1> QED BY <1>4, <1>5

\* Handling one true report, fresh or resent, keeps everything but the channel's
\* part of the invariant: one step per path through on_execution_report.
LEMMA HandleReportKeeps ==
    ASSUME IInv, NEW r \in Report, TrueReport(r), HandleReport(r)
    PROVE  /\ cumFills' \in [Orders -> Nat] /\ applied' \in [Orders -> Nat] /\ pos' \in Int
           /\ pendingEntries' \subseteq pendingEntries /\ pendingExits' \subseteq pendingExits
           /\ ExitsLocked' /\ CountersBetween'
           /\ \A o \in Orders \ Registered : applied'[o] = applied[o]
<1> DEFINE Goal == /\ cumFills' \in [Orders -> Nat] /\ applied' \in [Orders -> Nat]
                   /\ pos' \in Int
                   /\ pendingEntries' \subseteq pendingEntries
                   /\ pendingExits' \subseteq pendingExits
                   /\ ExitsLocked' /\ CountersBetween'
                   /\ \A o \in Orders \ Registered : applied'[o] = applied[o]
<1> USE DEF IInv, TypeOK, TrueReport, ExitsLocked, CountersBetween, DictionariesApart,
            BookEntry, Report, Working, Registered, IsFill, Increment, Recount
<1>a. book' = book /\ pc' = pc /\ cur' = cur /\ unheard' = unheard
  BY DEF HandleReport, engine
<1>b. r.id \in Orders /\ r.cum \in Nat /\ pos \in Int
  OBVIOUS
<1>1. CASE ReportCanceled(r)
  BY <1>1, <1>a DEF ReportCanceled
<1>2. CASE ReportStale(r)
  BY <1>2, <1>a DEF ReportStale, manager
<1>3. CASE ReportEntryFill(r)
  <2>1. book[r.id].side \in Side /\ Increment(r) \in Nat
    BY <1>3, <1>b DEF ReportEntryFill
  <2>2. pos' \in Int
    BY <1>3, <1>b, <2>1, RecordFacts DEF ReportEntryFill
  <2>3. /\ applied' \in [Orders -> Nat] /\ applied'[r.id] <= r.cum
        /\ \A o \in Orders \ {r.id} : applied'[o] = applied[o]
    BY <1>3, <1>b, <2>1 DEF ReportEntryFill
  <2>4. cumFills' \in [Orders -> Nat] /\ pendingEntries' \subseteq pendingEntries
    BY <1>3, <1>b DEF ReportEntryFill
  <2>5. ExitsLocked'
    BY <1>3, <1>a DEF ReportEntryFill
  <2>6. CountersBetween'
    <3>1. Registered' \subseteq Registered
      BY <1>3 DEF ReportEntryFill
    <3>2. \A o \in Orders : o # r.id => applied'[o] = applied[o] /\ cumFills'[o] = cumFills[o]
      BY <1>3, <1>b, <2>3 DEF ReportEntryFill
    <3>3. cumFills'[r.id] <= r.cum /\ (r.id \in Registered' => cumFills'[r.id] = r.cum)
      BY <1>3, <1>b DEF ReportEntryFill
    <3> HIDE DEF IInv, TrueReport, Report, CountersBetween, Registered
    <3> QED BY <1>a, <2>3, <2>4, <3>1, <3>2, <3>3, BookedKeepsCounters
  <2> QED BY <1>3, <2>2, <2>3, <2>4, <2>5, <2>6 DEF ReportEntryFill
<1>4. CASE ReportExitFill(r)
  <2>1. Increment(r) \in Nat
    BY <1>4, <1>b DEF ReportExitFill
  <2>2. RecordClose(pos, Increment(r)) \in Int /\ Smaller(Increment(r), Magnitude(pos)) \in 0..Increment(r)
    <3> HIDE DEF Increment
    <3> QED BY <1>b, <2>1, RecordFacts DEF Side
  <2>3. /\ applied' \in [Orders -> Nat] /\ applied'[r.id] <= r.cum
        /\ \A o \in Orders \ {r.id} : applied'[o] = applied[o]
    <3> DEFINE n == Smaller(Increment(r), Magnitude(pos))
    <3>1. applied \in [Orders -> Nat] /\ applied' = [applied EXCEPT ![r.id] = @ + n]
      BY <1>4 DEF ReportExitFill
    <3>2. n \in Nat /\ n <= r.cum - cumFills[r.id]
      BY <2>1, <2>2
    <3>3. applied[r.id] \in Nat /\ cumFills[r.id] \in Nat /\ applied[r.id] <= cumFills[r.id]
      BY <1>4, <1>b DEF ReportExitFill
    <3> HIDE DEF n, IInv
    <3> QED BY <1>b, <3>1, <3>2, <3>3
  <2>4. pos' \in Int
    BY <1>4, <2>2 DEF ReportExitFill, ExitLeaves
  <2>5. cumFills' \in [Orders -> Nat] /\ pendingExits' \subseteq pendingExits
    BY <1>4, <1>b DEF ReportExitFill
  <2>6. ExitsLocked'
    BY <1>4, <1>a DEF ReportExitFill
  <2>7. CountersBetween'
    <3>1. Registered' \subseteq Registered
      BY <1>4 DEF ReportExitFill
    <3>2. \A o \in Orders : o # r.id => applied'[o] = applied[o] /\ cumFills'[o] = cumFills[o]
      BY <1>4, <1>b, <2>3 DEF ReportExitFill
    <3>3. cumFills'[r.id] <= r.cum /\ (r.id \in Registered' => cumFills'[r.id] = r.cum)
      BY <1>4, <1>b DEF ReportExitFill
    <3> HIDE DEF IInv, TrueReport, Report, CountersBetween, Registered
    <3> QED BY <1>a, <2>3, <2>5, <3>1, <3>2, <3>3, BookedKeepsCounters
  <2> QED BY <1>4, <2>3, <2>4, <2>5, <2>6, <2>7 DEF ReportExitFill
<1>5. CASE ReportUnknown(r)
  BY <1>5, <1>a DEF ReportUnknown
<1> QED BY <1>1, <1>2, <1>3, <1>4, <1>5 DEF HandleReport

\* An order the broker takes although the call raised: nothing but the broker's
\* book knows of it.
LEMMA RaisedKeeps ==
    ASSUME IInv, NEW o \in Orders, NEW k \in Kind, NEW s \in Side, NEW q \in Nat,
           Accept(o, k, s, q), book[o].status = "unused", unheard' = unheard \cup {o},
           UNCHANGED <<dryRun, pc, cur, manager, pos, net, chan, delivered, applied>>
    PROVE  IInv'
<1> USE DEF IInv
<1>1. /\ book' \in [Orders -> BookEntry] /\ \A x \in Orders : x # o => book'[x] = book[x]
      /\ book'[o].status = "working" /\ book'[o].cum = 0
  BY DEF TypeOK, Accept, BookEntry, Status
<1>2. /\ o \notin Registered /\ applied[o] = 0 /\ cumFills[o] = 0
      /\ pc # "idle" => cur # o
  BY DEF DictionariesApart, Registered, CountersBetween, CallOwnsOrder
<1>3. TypeOK'
  BY <1>1 DEF TypeOK, manager
<1>4. ReportsTrue'
  <2>1. \A r \in Report : TrueReport(r) => TrueReport(r)'
    BY <1>1 DEF TrueReport, Working, Report
  <2> QED BY <2>1, BookStep
<1>5. Registered' = Registered /\ pendingEntries' = pendingEntries /\ pendingExits' = pendingExits
      /\ cumFills' = cumFills
  BY DEF Registered, manager
<1>6. CallOwnsOrder'
  BY <1>1, <1>2, <1>5 DEF CallOwnsOrder
<1>7. DictionariesApart'
  <2>1. /\ pendingEntries \subseteq Orders /\ pendingExits \subseteq Orders
        /\ o \notin pendingEntries /\ o \notin pendingExits
    BY <1>2 DEF Registered, TypeOK
  <2>2. ASSUME NEW x \in pendingEntries
        PROVE  book'[x].kind = "entry" /\ book'[x].status # "unused"
    BY <1>1, <2>1, <2>2 DEF DictionariesApart
  <2>3. ASSUME NEW x \in pendingExits
        PROVE  book'[x].kind = "exit" /\ book'[x].status # "unused"
    BY <1>1, <2>1, <2>3 DEF DictionariesApart
  <2>4. \A x, y \in pendingExits : x = y
    BY DEF DictionariesApart
  <2> HIDE DEF IInv
  <2> QED BY <1>5, <2>2, <2>3, <2>4 DEF DictionariesApart
<1>8. ExitsLocked'
  BY <1>1, <1>5 DEF ExitsLocked, Working
<1>9. CountersBetween'
  BY <1>1, <1>2, <1>5 DEF CountersBetween
<1> QED BY <1>3, <1>4, <1>6, <1>7, <1>8, <1>9

\* Every step keeps the invariant: one step per action of Next.
LEMMA NextIInv == IInv /\ [Next]_vars => IInv'
<1> SUFFICES ASSUME IInv, [Next]_vars PROVE IInv'
  OBVIOUS
<1> USE OrderAssumption DEF IInv, TypeOK
<1>1. ASSUME NEW o \in Orders, NEW s \in Side, NEW q \in 1..MaxQty, PlaceEntry(o, s, q)
      PROVE IInv'
  <2> USE <1>1 DEF PlaceEntry, Accept, manager, BookEntry, Status, Kind, Side
  <2>1. \A x \in Orders : x # o => book'[x] = book[x]
    OBVIOUS
  <2>2. book'[o].status = "working" /\ book'[o].cum = 0 /\ o \notin Registered
    BY DEF DictionariesApart, Registered
  <2>3. TypeOK' /\ applied[o] = 0 /\ cumFills[o] = 0
    BY DEF CountersBetween, broker, engine, Magnitude, ExitSide
  <2>4. ReportsTrue'
    <3>1. \A r \in Report : TrueReport(r) => TrueReport(r)'
      BY <2>1 DEF TrueReport, Working, Report
    <3> QED BY <3>1, BookStep
  <2>5. CallOwnsOrder'
    BY <2>2, <2>3 DEF CallOwnsOrder, Registered
  <2>6. DictionariesApart'
    BY <2>1, <2>2 DEF DictionariesApart, Registered
  <2>7. ExitsLocked'
    BY <2>1 DEF ExitsLocked, CallOwnsOrder, Working
  <2>8. CountersBetween'
    BY <2>1, <2>2, <2>3 DEF CountersBetween, Registered
  <2> QED BY <2>3, <2>4, <2>5, <2>6, <2>7, <2>8
<1>2. CASE CountEntry
  BY <1>2 DEF CountEntry, broker, BookEntry, ReportsTrue, TrueReport, CallOwnsOrder,
       DictionariesApart, ExitsLocked, CountersBetween, Working, Registered
<1>3. CASE RegisterEntry
  BY <1>3 DEF RegisterEntry, broker, BookEntry, ReportsTrue, TrueReport, CallOwnsOrder,
       DictionariesApart, ExitsLocked, CountersBetween, Working, Registered
<1>4. ASSUME NEW o \in Orders, PlaceExit(o)
      PROVE IInv'
  <2> USE <1>4 DEF PlaceExit, ExitAllowed, Accept, manager, BookEntry, Status, Kind, Side
  <2>1. \A x \in Orders : x # o => book'[x] = book[x]
    OBVIOUS
  <2>2. book'[o].status = "working" /\ book'[o].cum = 0 /\ o \notin Registered
    BY DEF DictionariesApart, Registered
  <2>3. TypeOK' /\ applied[o] = 0 /\ cumFills[o] = 0
    BY DEF CountersBetween, broker, engine, Magnitude, ExitSide
  <2>4. ReportsTrue'
    <3>1. \A r \in Report : TrueReport(r) => TrueReport(r)'
      BY <2>1 DEF TrueReport, Working, Report
    <3> QED BY <3>1, BookStep
  <2>5. CallOwnsOrder'
    BY <2>2, <2>3 DEF CallOwnsOrder, Registered
  <2>6. DictionariesApart'
    BY <2>1, <2>2 DEF DictionariesApart, Registered
  <2>7. ExitsLocked'
    BY <2>1 DEF ExitsLocked, CallOwnsOrder, Working
  <2>8. CountersBetween'
    BY <2>1, <2>2, <2>3 DEF CountersBetween, Registered
  <2> QED BY <2>3, <2>4, <2>5, <2>6, <2>7, <2>8
<1>5. CASE RegisterExit
  <2> USE <1>5 DEF RegisterExit, broker, BookEntry
  <2>1. TypeOK' /\ ReportsTrue'
    BY DEF ReportsTrue, TrueReport, Working, CallOwnsOrder
  <2>2. CallOwnsOrder' /\ DictionariesApart'
    BY DEF CallOwnsOrder, DictionariesApart, Registered
  <2>3. ExitsLocked' /\ CountersBetween'
    BY DEF CallOwnsOrder, ExitsLocked, CountersBetween, Working, Registered
  <2> QED BY <2>1, <2>2, <2>3
<1>6. ASSUME NEW s \in Side, NEW q \in 1..MaxQty, DryEntry(s, q)
      PROVE IInv'
  <2>1. q \in Nat
    OBVIOUS
  <2>2. pos' \in Int
    BY <1>6, <2>1, RecordFacts DEF DryEntry
  <2> QED BY <1>6, <2>2 DEF DryEntry, engine, manager, broker, ReportsTrue, TrueReport, CallOwnsOrder,
       DictionariesApart, ExitsLocked, CountersBetween, Working, Registered
<1>7. CASE DryExit
  BY <1>7, RecordFacts DEF DryExit, Side, engine, manager, broker, ReportsTrue, TrueReport, CallOwnsOrder,
       DictionariesApart, ExitsLocked, CountersBetween, Working, Registered
<1>8. ASSUME NEW o \in Orders, NEW k \in 1..(book[o].qty - book[o].cum), BrokerFill(o, k)
      PROVE IInv'
  <2> DEFINE new == Filled(book[o], k)
  <2>1. book[o] \in BookEntry /\ Working(o) /\ book' = [book EXCEPT ![o] = new]
    BY <1>8 DEF BrokerFill
  <2>2. /\ new \in BookEntry /\ new.cum >= book[o].cum /\ new.kind = book[o].kind
        /\ new.status \in {"working", "filled", "canceled"}
        /\ ReportOf(o, new) \in Report
        /\ ReportOf(o, new).id = o /\ ReportOf(o, new).cum = new.cum
        /\ new.status = "working" => ReportOf(o, new).st = "partial"
    BY <2>1, EventFacts DEF Working
  <2>3. chan' = Append(chan, ReportOf(o, new)) /\ net' \in Int
    BY <1>8, <2>1 DEF BrokerFill, Signed, BookEntry
  <2>4. UNCHANGED <<dryRun, engine, manager, pos, delivered, applied>>
    BY <1>8 DEF BrokerFill
  <2> HIDE DEF new
  <2> USE DEF engine, manager, BookEntry, Working
  <2>5. ReportsTrue' /\ chan' \in Seq(Report)
    <3>1. \A r \in Report : TrueReport(r) => TrueReport(r)'
      BY <2>1, <2>2 DEF TrueReport, Report
    <3>2. \A m \in Report : m = ReportOf(o, new) => TrueReport(m)'
      BY <2>1, <2>2 DEF TrueReport
    <3>3. \E m \in Report : TrueReport(m)' /\ chan' = Append(chan, m)
      BY <2>2, <2>3, <3>2
    <3> QED BY <2>4, <3>1, <3>3, BookStep
  <2>6. TypeOK'
    BY <2>1, <2>2, <2>3, <2>4, <2>5
  <2>7. CallOwnsOrder' /\ DictionariesApart'
    BY <2>1, <2>2, <2>4 DEF CallOwnsOrder, DictionariesApart, Registered
  <2>8. ExitsLocked' /\ CountersBetween'
    BY <2>1, <2>2, <2>4 DEF ExitsLocked, CountersBetween, Registered
  <2> QED BY <2>5, <2>6, <2>7, <2>8
<1>9. ASSUME NEW o \in Orders, BrokerCancel(o)
      PROVE IInv'
  <2> DEFINE new == Canceled(book[o])
  <2>1. book[o] \in BookEntry /\ Working(o) /\ book' = [book EXCEPT ![o] = new]
    BY <1>9 DEF BrokerCancel
  <2>2. /\ new \in BookEntry /\ new.cum >= book[o].cum /\ new.kind = book[o].kind
        /\ new.status \in {"working", "filled", "canceled"}
        /\ ReportOf(o, new) \in Report
        /\ ReportOf(o, new).id = o /\ ReportOf(o, new).cum = new.cum
        /\ new.status = "working" => ReportOf(o, new).st = "partial"
    BY <2>1, EventFacts DEF Working
  <2>3. chan' = Append(chan, ReportOf(o, new)) /\ net' \in Int
    BY <1>9, <2>1 DEF BrokerCancel, Signed, BookEntry
  <2>4. UNCHANGED <<dryRun, engine, manager, pos, delivered, applied>>
    BY <1>9 DEF BrokerCancel
  <2> HIDE DEF new
  <2> USE DEF engine, manager, BookEntry, Working
  <2>5. ReportsTrue' /\ chan' \in Seq(Report)
    <3>1. \A r \in Report : TrueReport(r) => TrueReport(r)'
      BY <2>1, <2>2 DEF TrueReport, Report
    <3>2. \A m \in Report : m = ReportOf(o, new) => TrueReport(m)'
      BY <2>1, <2>2 DEF TrueReport
    <3>3. \E m \in Report : TrueReport(m)' /\ chan' = Append(chan, m)
      BY <2>2, <2>3, <3>2
    <3> QED BY <2>4, <3>1, <3>3, BookStep
  <2>6. TypeOK'
    BY <2>1, <2>2, <2>3, <2>4, <2>5
  <2>7. CallOwnsOrder' /\ DictionariesApart'
    BY <2>1, <2>2, <2>4 DEF CallOwnsOrder, DictionariesApart, Registered
  <2>8. ExitsLocked' /\ CountersBetween'
    BY <2>1, <2>2, <2>4 DEF ExitsLocked, CountersBetween, Registered
  <2> QED BY <2>5, <2>6, <2>7, <2>8
<1>10. ASSUME NEW r \in Report, TrueReport(r), HandleReport(r), ReportsTrue',
              chan' \in Seq(Report)
       PROVE IInv'
  BY <1>10, HandleReportKeeps DEF HandleReport, engine, CallOwnsOrder, DictionariesApart, Registered
<1>11. CASE Deliver
  <2>1. ReportsTrue' /\ chan' \in Seq(Report)
    BY <1>11, HeadReport DEF Deliver, HandleReport, ReportsTrue, TrueReport, Working
  <2> QED BY <1>11, <1>10, <2>1, HeadReport DEF Deliver
<1>12. ASSUME NEW r \in delivered, Redeliver(r)
       PROVE IInv'
  <2>1. r \in Report /\ TrueReport(r)
    BY DEF ReportsTrue
  <2>2. ReportsTrue' /\ chan' \in Seq(Report)
    BY <1>12, <2>1 DEF Redeliver, HandleReport, ReportsTrue, TrueReport, Working
  <2> QED BY <1>12, <1>10, <2>1, <2>2 DEF Redeliver
<1>13. CASE UNCHANGED vars
  BY <1>13 DEF vars, ReportsTrue, TrueReport, CallOwnsOrder,
       DictionariesApart, ExitsLocked, CountersBetween, Working, Registered
<1>14. ASSUME NEW o \in Orders, NEW s \in Side, NEW q \in 1..MaxQty, EntryRaises(o, s, q)
       PROVE IInv'
  <2>1. "entry" \in Kind /\ q \in Nat
    BY DEF Kind
  <2> QED BY <1>14, <2>1, RaisedKeeps DEF EntryRaises
<1>15. ASSUME NEW o \in Orders, ExitRaises(o)
       PROVE IInv'
  <2>1. "exit" \in Kind /\ ExitSide(pos) \in Side /\ Magnitude(pos) \in Nat
    BY DEF Kind, ExitSide, Side, Magnitude
  <2> QED BY <1>15, <2>1, RaisedKeeps DEF ExitRaises
<1> QED
  BY <1>1, <1>2, <1>3, <1>4, <1>5, <1>6, <1>7, <1>8, <1>9, <1>11, <1>12, <1>13, <1>14, <1>15
     DEF Next, EngineStep, BrokerStep, ReportStep
-----------------------------------------------------------------------------
\* Every variable keeps its type: no fill, resend or early report makes a
\* counter of on_execution_report negative.
THEOREM TypeCorrect == Spec => []TypeOK
<1>1. IInv => TypeOK
  BY DEF IInv
<1> QED BY <1>1, InitIInv, NextIInv, PTL DEF Spec

\* Two exits never work at the broker together, even when a report overtakes
\* submit_exit's write of _pending_exits.
THEOREM SingleExit == Spec => []OneExitWorking
<1>1. IInv => OneExitWorking
  BY DEF IInv, ExitsLocked, CallOwnsOrder, DictionariesApart, OneExitWorking, Working
<1> QED BY <1>1, InitIInv, NextIInv, PTL DEF Spec

\* on_execution_report books no contract of an order twice, for any number of
\* resent and overtaking reports.
THEOREM NoFillTwice == Spec => []NoDoubleCount
<1>1. IInv => NoDoubleCount
  BY DEF IInv, CountersBetween, NoDoubleCount
<1> QED BY <1>1, InitIInv, NextIInv, PTL DEF Spec

\* The tracker never turns from long to short, or back, in one step.
THEOREM NeverReverses == Spec => NoReversal
<1> DEFINE Keeps == (pos > 0 => pos' >= 0) /\ (pos < 0 => pos' <= 0)
<1>1. ASSUME IInv, [Next]_vars PROVE [Keeps]_vars
  <2> USE <1>1 DEF IInv, TypeOK
  <2>1. ASSUME pos' = pos PROVE Keeps
    BY <2>1
  <2>2. ASSUME NEW s \in Side, NEW q \in Nat, pos' = RecordOpen(pos, s, q) PROVE Keeps
    BY <2>2, RecordFacts
  <2>3. ASSUME NEW q \in Nat, pos' = RecordClose(pos, q) PROVE Keeps
    BY <2>3, RecordFacts DEF Side
  <2>4. ASSUME NEW r \in Report, HandleReport(r) PROVE Keeps
    <3>1. Increment(r) > 0 => Increment(r) \in Nat
      BY DEF Increment, Report
    <3>2. book[r.id].side \in Side
      BY DEF Report, BookEntry
    <3> HIDE DEF Keeps
    <3>3. CASE ReportEntryFill(r)
      BY <2>2, <3>1, <3>2, <3>3 DEF ReportEntryFill
    <3>4. CASE ReportExitFill(r) /\ r.st # "filled"
      BY <2>3, <3>1, <3>4 DEF ReportExitFill, ExitLeaves
    <3>5. CASE ReportExitFill(r) /\ r.st = "filled"
      BY <3>5 DEF ReportExitFill, ExitLeaves, Keeps
    <3>6. CASE ReportCanceled(r) \/ ReportStale(r) \/ ReportUnknown(r)
      BY <2>1, <3>6 DEF ReportCanceled, ReportStale, ReportUnknown
    <3> QED BY <2>4, <3>3, <3>4, <3>5, <3>6 DEF HandleReport
  <2>5. CASE DryExit
    <3>1. Magnitude(pos) \in Nat
      BY DEF Magnitude
    <3> QED BY <2>3, <2>5, <3>1 DEF DryExit
  <2>6. CASE \E s \in Side, q \in 1..MaxQty : DryEntry(s, q)
    BY <2>2, <2>6 DEF DryEntry
  <2>7. CASE Deliver
    BY <2>4, <2>7, HeadReport DEF Deliver
  <2>8. CASE \E r \in delivered : Redeliver(r)
    BY <2>4, <2>8 DEF Redeliver
  <2>9. CASE \/ \E o \in Orders, s \in Side, q \in 1..MaxQty : PlaceEntry(o, s, q)
             \/ \E o \in Orders, s \in Side, q \in 1..MaxQty : EntryRaises(o, s, q)
             \/ CountEntry
             \/ RegisterEntry
             \/ \E o \in Orders : PlaceExit(o) \/ ExitRaises(o)
             \/ RegisterExit
             \/ \E o \in Orders : \E k \in 1..(book[o].qty - book[o].cum) : BrokerFill(o, k)
             \/ \E o \in Orders : BrokerCancel(o)
    <3>1. pos' = pos
      BY <2>9 DEF PlaceEntry, EntryRaises, CountEntry, RegisterEntry, PlaceExit, ExitRaises,
                  RegisterExit, BrokerFill, BrokerCancel
    <3> QED BY <2>1, <3>1
  <2> HIDE DEF Keeps
  <2> QED BY <2>5, <2>6, <2>7, <2>8, <2>9 DEF Next, EngineStep, BrokerStep, ReportStep
<1> QED BY <1>1, InitIInv, NextIInv, PTL DEF Spec, NoReversal, Keeps
-----------------------------------------------------------------------------
(* OrderManager implements OrderDesk.  The mapping needs more than IInv:   *)
(* an order in progress has something left to book, which it loses exactly *)
(* when the report that fills it arrives.                                  *)

SizedReport(r) ==
    /\ r.st = "partial" => r.cum < book[r.id].qty
    /\ r.st = "filled" => r.cum = book[r.id].qty

ReportsSized ==
    /\ \A i \in 1..Len(chan) : SizedReport(chan[i])
    /\ \A r \in delivered : SizedReport(r)

OrdersSized ==
    \A o \in Orders :
        /\ book[o].status # "unused" => book[o].qty > 0
        /\ Working(o) => book[o].cum < book[o].qty
        /\ o \in Registered => cumFills[o] < book[o].qty

\* With the callback on the event loop no report comes inside a submit call.
CallUnseen == pc # "idle" => cumFills[cur] = 0 /\ ~dryRun

DeskInv == IInv /\ ReportsSized /\ OrdersSized /\ CallUnseen

LEMMA InitDeskInv == Init => DeskInv
BY InitIInv
   DEF Init, Fresh, DeskInv, ReportsSized, OrdersSized, CallUnseen, Working, Registered

\* The sizes of orders in use never change, so neither does what is said of
\* the reports already sent.
LEMMA SizedStep ==
    ASSUME TypeOK, ReportsTrue, ReportsSized, delivered' = delivered,
           \A o \in Orders : book[o].status # "unused" => book'[o].qty = book[o].qty,
           \/ chan' = chan
           \/ \E m \in Report : SizedReport(m)' /\ chan' = Append(chan, m)
    PROVE  ReportsSized'
<1>1. \A r \in Report : TrueReport(r) /\ SizedReport(r) => SizedReport(r)'
  BY DEF TrueReport, SizedReport, Report
<1>2. \A i \in 1..Len(chan) : chan[i] \in Report /\ SizedReport(chan[i])
                              /\ TrueReport(chan[i])
  BY DEF TypeOK, ReportsSized, ReportsTrue
<1>3. \A i \in 1..Len(chan) : \E r \in Report : r = chan[i] /\ SizedReport(r)'
  BY <1>1, <1>2
<1>4. \A r \in delivered : SizedReport(r)'
  BY <1>1 DEF TypeOK, ReportsSized, ReportsTrue
<1>5. \A i \in 1..Len(chan') : \E r \in Report : r = chan'[i] /\ SizedReport(r)'
  <2>1. CASE chan' = chan
    BY <1>3, <2>1
  <2>2. ASSUME NEW m \in Report, SizedReport(m)', chan' = Append(chan, m),
               NEW i \in 1..Len(chan')
        PROVE  \E r \in Report : r = chan'[i] /\ SizedReport(r)'
    <3>1. chan \in Seq(Report) /\ Len(chan') = Len(chan) + 1
      BY <2>2 DEF TypeOK
    <3>2. CASE i = Len(chan) + 1
      <4>1. chan'[i] = m
        BY <2>2, <3>1, <3>2
      <4> QED BY <2>2, <4>1
    <3>3. CASE i # Len(chan) + 1
      <4>1. i \in 1..Len(chan) /\ chan'[i] = chan[i]
        BY <2>2, <3>1, <3>3
      <4> QED BY <1>3, <4>1
    <3> QED BY <3>2, <3>3
  <2> QED BY <2>1, <2>2
<1> QED BY <1>4, <1>5 DEF ReportsSized, SizedReport

\* A call that places an order of a positive size.
LEMMA PlacedSized ==
    ASSUME DeskInv, NEW o \in Orders, NEW k, NEW s, NEW q \in Nat \ {0},
           Accept(o, k, s, q), book[o].status = "unused", ~dryRun, dryRun' = dryRun,
           cur' = o \/ pc' = "idle", UNCHANGED <<manager, chan, delivered>>
    PROVE  ReportsSized' /\ OrdersSized' /\ CallUnseen'
<1> USE DEF DeskInv, Accept
<1>1. \A x \in Orders : x # o => book'[x] = book[x]
  BY DEF IInv, TypeOK
<1>2. book'[o].qty = q /\ book'[o].cum = 0
  BY DEF IInv, TypeOK
<1>3. ReportsSized'
  BY <1>1, SizedStep DEF IInv
<1>4. o \notin Registered /\ cumFills[o] = 0 /\ Registered' = Registered /\ cumFills' = cumFills
  BY DEF IInv, DictionariesApart, Registered, CountersBetween, manager
<1>5. OrdersSized'
  BY <1>1, <1>2, <1>4 DEF OrdersSized, Working
<1>6. CallUnseen'
  BY <1>4 DEF CallUnseen
<1> QED BY <1>3, <1>5, <1>6

\* An event of the broker leaves a working order something to fill, and says
\* in its report which it was.
LEMMA EventSized ==
    ASSUME DeskInv, NEW o \in Orders, Working(o), NEW c,
           \/ c = Canceled(book[o])
           \/ \E k \in 1..(book[o].qty - book[o].cum) : c = Filled(book[o], k),
           book' = [book EXCEPT ![o] = c], chan' = Append(chan, ReportOf(o, c)),
           UNCHANGED <<dryRun, engine, manager, delivered>>
    PROVE  ReportsSized' /\ OrdersSized' /\ CallUnseen'
<1> USE DEF DeskInv
<1>1. book[o] \in BookEntry /\ book[o].cum < book[o].qty
  BY DEF IInv, TypeOK, OrdersSized
<1>2. /\ c \in BookEntry /\ c.status \in {"working", "filled", "canceled"}
      /\ ReportOf(o, c) \in Report /\ ReportOf(o, c).id = o /\ ReportOf(o, c).cum = c.cum
  BY <1>1, EventFacts DEF Working
<1>3. /\ c.qty = book[o].qty
      /\ c.status = "working" => c.cum < c.qty
      /\ c.status = "filled" => c.cum = c.qty
  <2>1. CASE c = Canceled(book[o])
    BY <1>1, <2>1 DEF Canceled, BookEntry
  <2>2. ASSUME NEW k \in 1..(book[o].qty - book[o].cum), c = Filled(book[o], k)
        PROVE  /\ c.qty = book[o].qty
               /\ c.status = "working" => c.cum < c.qty
               /\ c.status = "filled" => c.cum = c.qty
    <3> DEFINE b == book[o]
               st == IF b.cum + k = b.qty THEN "filled" ELSE "working"
    <3>1. c = [b EXCEPT !.cum = b.cum + k, !.status = st]
      BY <2>2 DEF Filled
    <3>2. b.cum \in Nat /\ b.qty \in Nat /\ b.cum + k <= b.qty /\ b.cum + k \in Nat
      BY <1>1 DEF BookEntry
    <3>3. c.qty = b.qty /\ c.cum = b.cum + k /\ c.status = st
      <4> HIDE DEF st
      <4> QED BY <1>1, <3>1 DEF BookEntry
    <3> HIDE DEF b
    <3> QED BY <3>2, <3>3 DEF b
  <2> QED BY <2>1, <2>2
<1>4. /\ ReportOf(o, c).st = "partial" => c.status = "working"
      /\ ReportOf(o, c).st = "filled" => c.status = "filled"
  BY <1>2 DEF ReportOf
<1>5. book'[o] = c /\ \A x \in Orders : x # o => book'[x] = book[x]
  BY DEF IInv, TypeOK
<1>6. SizedReport(ReportOf(o, c))'
  BY <1>2, <1>3, <1>4, <1>5 DEF SizedReport
<1>7. ReportsSized'
  BY <1>2, <1>3, <1>5, <1>6, SizedStep DEF IInv
<1>8. Registered' = Registered /\ cumFills' = cumFills
  BY DEF Registered, manager
<1>9. OrdersSized'
  BY <1>2, <1>3, <1>5, <1>8 DEF OrdersSized, Working
<1>10. CallUnseen'
  BY <1>8 DEF CallUnseen, engine
<1> QED BY <1>7, <1>9, <1>10

\* A handled report keeps the sizes: what stays registered has not been filled.
LEMMA HandleSized ==
    ASSUME DeskInv, ~Threaded, NEW r \in Report, TrueReport(r), SizedReport(r), HandleReport(r)
    PROVE  /\ OrdersSized' /\ CallUnseen' /\ pc = "idle" /\ book' = book
           /\ \A x \in delivered' : SizedReport(x)'
<1> USE DEF DeskInv
<1>1. /\ pc = "idle" /\ pc' = pc /\ book' = book /\ delivered' = delivered \cup {r}
  BY DEF HandleReport, engine
<1>2. CallUnseen'
  BY <1>1 DEF CallUnseen
<1>3. \A x \in delivered' : SizedReport(x)'
  BY <1>1 DEF ReportsSized, SizedReport
<1>4. Registered' \subseteq Registered
  BY HandleReportKeeps DEF Registered
<1>5. r.id \in Orders /\ r.st \in {"partial", "filled", "canceled"} /\ cumFills \in [Orders -> Nat]
      /\ (r.id \in pendingEntries => r.id \notin pendingExits)
  BY DEF Report, IInv, TypeOK, DictionariesApart
<1>6. \A o \in Orders : o # r.id => cumFills'[o] = cumFills[o]
  BY <1>5 DEF HandleReport, ReportCanceled, ReportStale, ReportEntryFill, ReportExitFill,
              ReportUnknown, Recount, manager
<1>7. r.id \in Registered' => cumFills'[r.id] = cumFills[r.id]
                              \/ (r.st = "partial" /\ cumFills'[r.id] = r.cum)
  BY <1>5 DEF HandleReport, ReportCanceled, ReportStale, ReportEntryFill, ReportExitFill,
              ReportUnknown, Recount, manager, Registered, IsFill
<1>8. OrdersSized'
  BY <1>1, <1>4, <1>6, <1>7 DEF OrdersSized, SizedReport, Working
<1> QED BY <1>1, <1>2, <1>3, <1>8

LEMMA HeadSized ==
    ASSUME DeskInv, chan # <<>>
    PROVE  /\ Head(chan) \in Report /\ TrueReport(Head(chan)) /\ SizedReport(Head(chan))
           /\ \A i \in 1..Len(Tail(chan)) : SizedReport(Tail(chan)[i])
BY HeadReport DEF DeskInv, IInv, TypeOK, ReportsSized

LEMMA NextDeskInv == ~Threaded /\ DeskInv /\ [Next]_vars => DeskInv'
<1> SUFFICES ASSUME ~Threaded, DeskInv, [Next]_vars
             PROVE  ReportsSized' /\ OrdersSized' /\ CallUnseen'
  BY NextIInv DEF DeskInv
<1> USE DEF DeskInv
<1>1. ASSUME NEW o \in Orders, NEW s \in Side, NEW q \in 1..MaxQty,
             PlaceEntry(o, s, q) \/ EntryRaises(o, s, q)
      PROVE  ReportsSized' /\ OrdersSized' /\ CallUnseen'
  <2>1. q \in Nat \ {0}
    BY OrderAssumption
  <2> QED BY <1>1, <2>1, PlacedSized DEF PlaceEntry, EntryRaises
<1>2. ASSUME NEW o \in Orders, PlaceExit(o) \/ ExitRaises(o)
      PROVE  ReportsSized' /\ OrdersSized' /\ CallUnseen'
  <2>1. Magnitude(pos) \in Nat \ {0}
    BY <1>2 DEF PlaceExit, ExitRaises, ExitAllowed, Magnitude, IInv, TypeOK
  <2> QED BY <1>2, <2>1, PlacedSized DEF PlaceExit, ExitRaises
<1>3. CASE CountEntry
  <2>1. cur \in Orders \ Registered /\ cumFills' = [cumFills EXCEPT ![cur] = 0]
        /\ cumFills \in [Orders -> Nat]
    BY <1>3 DEF CountEntry, IInv, CallOwnsOrder, TypeOK
  <2> QED BY <1>3, <2>1 DEF CountEntry, broker, ReportsSized, SizedReport, OrdersSized,
                            CallUnseen, Working, Registered
<1>4. CASE RegisterEntry \/ RegisterExit
  <2>1. pc # "idle" /\ Registered' = Registered \cup {cur} /\ pc' = "idle" /\ cumFills' = cumFills
        /\ book' = book /\ chan' = chan /\ delivered' = delivered
    BY <1>4 DEF RegisterEntry, RegisterExit, Registered, broker
  <2>2. cur \in Orders /\ book[cur].status # "unused" /\ cumFills[cur] = 0
    BY <2>1 DEF IInv, CallOwnsOrder, CallUnseen
  <2> QED BY <2>1, <2>2 DEF ReportsSized, SizedReport, OrdersSized, CallUnseen, Working
<1>5. CASE DryExit \/ \E s \in Side, q \in 1..MaxQty : DryEntry(s, q)
  BY <1>5 DEF DryExit, DryEntry, engine, manager, broker, ReportsSized, SizedReport,
              OrdersSized, CallUnseen, Working, Registered
<1>6. ASSUME NEW o \in Orders, NEW k \in 1..(book[o].qty - book[o].cum), BrokerFill(o, k)
      PROVE  ReportsSized' /\ OrdersSized' /\ CallUnseen'
  <2> DEFINE c == Filled(book[o], k)
  <2>1. /\ Working(o) /\ book' = [book EXCEPT ![o] = c]
        /\ chan' = Append(chan, ReportOf(o, c))
        /\ UNCHANGED <<dryRun, engine, manager, delivered>>
    BY <1>6 DEF BrokerFill
  <2>2. \E j \in 1..(book[o].qty - book[o].cum) : c = Filled(book[o], j)
    OBVIOUS
  <2> HIDE DEF c
  <2> QED BY <2>1, <2>2, EventSized
<1>7. ASSUME NEW o \in Orders, BrokerCancel(o)
      PROVE  ReportsSized' /\ OrdersSized' /\ CallUnseen'
  <2> DEFINE c == Canceled(book[o])
  <2>1. /\ Working(o) /\ book' = [book EXCEPT ![o] = c]
        /\ chan' = Append(chan, ReportOf(o, c))
        /\ UNCHANGED <<dryRun, engine, manager, delivered>>
    BY <1>7 DEF BrokerCancel
  <2> QED BY <2>1, EventSized
<1>8. CASE Deliver
  <2>1. /\ chan # <<>> /\ HandleReport(Head(chan)) /\ chan' = Tail(chan)
    BY <1>8 DEF Deliver
  <2>2. /\ OrdersSized' /\ CallUnseen' /\ book' = book
        /\ \A x \in delivered' : SizedReport(x)'
    BY <2>1, HeadSized, HandleSized
  <2>3. \A i \in 1..Len(chan') : SizedReport(chan'[i])
    BY <2>1, HeadSized
  <2> QED BY <2>2, <2>3 DEF ReportsSized, SizedReport
<1>9. ASSUME NEW r \in delivered, Redeliver(r)
      PROVE  ReportsSized' /\ OrdersSized' /\ CallUnseen'
  <2>1. r \in Report /\ TrueReport(r) /\ SizedReport(r)
    BY DEF IInv, TypeOK, ReportsTrue, ReportsSized
  <2>2. /\ OrdersSized' /\ CallUnseen' /\ book' = book /\ chan' = chan
        /\ \A x \in delivered' : SizedReport(x)'
    BY <1>9, <2>1, HandleSized DEF Redeliver
  <2> QED BY <2>2 DEF ReportsSized, SizedReport
<1>10. CASE UNCHANGED vars
  BY <1>10 DEF vars, ReportsSized, SizedReport, OrdersSized, CallUnseen, Working, Registered
<1> QED
  BY <1>1, <1>2, <1>3, <1>4, <1>5, <1>6, <1>7, <1>8, <1>9, <1>10
     DEF Next, EngineStep, BrokerStep, ReportStep
-----------------------------------------------------------------------------
(* The mapping.                                                            *)

\* An order in progress has something left to book, and one exit is at most.
LEMMA InProgressFacts ==
    ASSUME DeskInv
    PROVE  /\ EntriesInProgress \subseteq Orders /\ ExitsInProgress \subseteq Orders
           /\ \A o \in EntriesInProgress \cup ExitsInProgress :
                  /\ Outstanding(o) \in Nat \ {0}
                  /\ book[o].status # "unused"
           /\ \A x, y \in ExitsInProgress : x = y
           /\ \A o \in EntriesInProgress : book[o].kind = "entry"
           /\ \A o \in ExitsInProgress : book[o].kind = "exit"
<1> USE DEF DeskInv, IInv
<1>1. /\ pc \in {"idle", "entryPlaced", "entryCounted", "exitPlaced"}
      /\ pendingEntries \subseteq Orders /\ pendingExits \subseteq Orders
      /\ \A o \in Orders : book[o].qty \in Nat /\ cumFills[o] \in Nat
  BY DEF TypeOK, BookEntry
<1>2. \A o \in EntriesInProgress \cup ExitsInProgress :
          o \in Registered \/ (pc # "idle" /\ o = cur)
  BY DEF EntriesInProgress, ExitsInProgress, Registered
<1>3. \A o \in Registered : /\ o \in Orders /\ book[o].status # "unused"
                            /\ cumFills[o] < book[o].qty
  BY <1>1 DEF DictionariesApart, OrdersSized, Registered
<1>4. pc # "idle" => /\ cur \in Orders /\ book[cur].status # "unused"
                     /\ cumFills[cur] < book[cur].qty
  BY <1>1 DEF CallOwnsOrder, CallUnseen, OrdersSized
<1>5. \A o \in EntriesInProgress \cup ExitsInProgress :
          /\ o \in Orders /\ book[o].status # "unused" /\ Outstanding(o) \in Nat \ {0}
  BY <1>1, <1>2, <1>3, <1>4 DEF Outstanding
<1>6. \A x, y \in ExitsInProgress : x = y
  BY DEF ExitsInProgress, DictionariesApart, CallOwnsOrder
<1>7. /\ \A o \in EntriesInProgress : book[o].kind = "entry"
      /\ \A o \in ExitsInProgress : book[o].kind = "exit"
  BY DEF EntriesInProgress, ExitsInProgress, DictionariesApart, CallOwnsOrder
<1> QED BY <1>5, <1>6, <1>7

\* The one exit is seen as what it has left to book.
LEMMA SeenExitFacts ==
    ASSUME DeskInv
    PROVE  /\ ExitsInProgress = {} <=> SeenExit = 0
           /\ SeenExit \in Nat
           /\ \A o \in ExitsInProgress : SeenExit = Outstanding(o)
<1>1. ExitsInProgress # {} => (CHOOSE o \in ExitsInProgress : TRUE) \in ExitsInProgress
  OBVIOUS
<1>2. \A o \in ExitsInProgress : SeenExit = Outstanding(o)
  BY <1>1, InProgressFacts DEF SeenExit
<1>3. ExitsInProgress = {} => SeenExit = 0
  BY DEF SeenExit
<1> QED BY <1>2, <1>3, InProgressFacts

\* Steps that leave the orders in progress and their counters alone are not seen.
LEMMA UnseenExit ==
    ASSUME ExitsInProgress' = ExitsInProgress,
           \A o \in ExitsInProgress : Outstanding(o)' = Outstanding(o)
    PROVE  SeenExit' = SeenExit
<1>1. CASE ExitsInProgress = {}
  BY <1>1 DEF SeenExit
<1>2. CASE ExitsInProgress # {}
  <2> DEFINE c == CHOOSE o \in ExitsInProgress : TRUE
  <2>1. c \in ExitsInProgress
    BY <1>2
  <2>2. SeenExit = Outstanding(c) /\ SeenExit' = Outstanding(c)'
    BY <1>2 DEF SeenExit
  <2> QED BY <2>1, <2>2
<1> QED BY <1>1, <1>2

LEMMA UnseenStep ==
    ASSUME EntriesInProgress' = EntriesInProgress, ExitsInProgress' = ExitsInProgress,
           \A o \in EntriesInProgress \cup ExitsInProgress :
               Outstanding(o)' = Outstanding(o) /\ book'[o].side = book[o].side
    PROVE  SeenEntries' = SeenEntries /\ SeenExit' = SeenExit
<1>1. \A o \in EntriesInProgress : Seen(o)' = Seen(o)
  BY DEF Seen
<1> QED BY <1>1, UnseenExit DEF SeenEntries

\* The desk does the same arithmetic on positions.
LEMMA SameArithmetic ==
    \A p, s, q : /\ Desk!Magnitude(p) = Magnitude(p)
                  /\ Desk!RecordOpen(p, s, q) = RecordOpen(p, s, q)
                  /\ Desk!RecordClose(p, q) = RecordClose(p, q)
BY DEF Desk!Magnitude, Magnitude, Desk!RecordOpen, RecordOpen, Desk!Opens, Opens, Desk!Signed,
       Signed, Desk!RecordClose, RecordClose, Desk!Smaller, Smaller

\* place_order for an entry: the desk takes it on.
LEMMA PlaceEntryIsEnter ==
    ASSUME DeskInv, NEW o \in Orders, NEW s \in Side, NEW q \in 1..MaxQty, PlaceEntry(o, s, q)
    PROVE  Desk!Enter(o, s, q)
<1> USE DEF DeskInv, IInv
<1>1. /\ ~dryRun /\ pos = 0 /\ pc = "idle" /\ book[o].status = "unused"
      /\ pc' = "entryPlaced" /\ cur' = o /\ UNCHANGED <<dryRun, manager, pos>>
      /\ \A x \in Orders : x # o => book'[x] = book[x]
      /\ book'[o].side = s /\ book'[o].qty = q
  BY DEF PlaceEntry, Accept, TypeOK
<1>2. cumFills[o] = 0 /\ cumFills' = cumFills /\ q \in Nat
  BY <1>1 DEF CountersBetween, manager
<1>3. /\ EntriesInProgress = pendingEntries /\ EntriesInProgress' = pendingEntries \cup {o}
      /\ ExitsInProgress' = ExitsInProgress /\ ExitsInProgress = pendingExits
  BY <1>1 DEF EntriesInProgress, ExitsInProgress, manager
<1>4. o \notin pendingEntries /\ o \notin pendingExits
  BY <1>1, InProgressFacts, <1>3
<1>5. Seen(o)' = [id |-> o, side |-> s, left |-> q]
  BY <1>1, <1>2 DEF Seen, Outstanding
<1>6. \A x \in EntriesInProgress \cup ExitsInProgress :
          Outstanding(x)' = Outstanding(x) /\ Seen(x)' = Seen(x)
  BY <1>1, <1>2, <1>3, <1>4, InProgressFacts DEF Seen, Outstanding
<1>7. SeenEntries' = SeenEntries \cup {[id |-> o, side |-> s, left |-> q]}
  BY <1>3, <1>5, <1>6 DEF SeenEntries
<1>8. SeenExit' = SeenExit
  BY <1>3, <1>6, UnseenExit
<1>9. \A e \in SeenEntries : e.id # o
  BY <1>3, <1>4 DEF SeenEntries, Seen
<1> QED BY <1>1, <1>7, <1>8, <1>9 DEF Desk!Enter

\* place_order for an exit: the desk has its one exit, of the whole position.
LEMMA PlaceExitIsExit ==
    ASSUME DeskInv, NEW o \in Orders, PlaceExit(o)
    PROVE  Desk!Exit
<1>1. /\ ~dryRun /\ pos # 0 /\ pc = "idle" /\ pendingExits = {} /\ book[o].status = "unused"
      /\ pc' = "exitPlaced" /\ cur' = o /\ UNCHANGED <<dryRun, manager, pos>>
      /\ \A x \in Orders : x # o => book'[x] = book[x]
      /\ book'[o].qty = Magnitude(pos)
  BY DEF PlaceExit, ExitAllowed, Accept, DeskInv, IInv, TypeOK
<1>2. cumFills[o] = 0 /\ cumFills' = cumFills /\ Magnitude(pos) \in Nat
  BY <1>1 DEF DeskInv, IInv, TypeOK, CountersBetween, manager, Magnitude
<1>3. /\ EntriesInProgress' = EntriesInProgress /\ EntriesInProgress = pendingEntries
      /\ ExitsInProgress = {} /\ ExitsInProgress' = {o}
  BY <1>1 DEF EntriesInProgress, ExitsInProgress, manager
<1>4. \A x \in EntriesInProgress : x \in Orders /\ x # o
  BY <1>1, InProgressFacts
<1>5. \A x \in EntriesInProgress : Seen(x)' = Seen(x)
  BY <1>1, <1>2, <1>4 DEF Seen, Outstanding
<1>6. SeenEntries' = SeenEntries
  BY <1>3, <1>5 DEF SeenEntries
<1>7. Outstanding(o)' = Magnitude(pos)
  BY <1>1, <1>2 DEF Outstanding
<1>8. SeenExit = 0 /\ SeenExit' = Magnitude(pos)
  BY <1>3, <1>7 DEF SeenExit
<1> QED BY <1>1, <1>6, <1>8, SameArithmetic DEF Desk!Exit

\* A report that ends or fills an entry in part: the desk books what it adds.
LEMMA EntryFillIsFill ==
    ASSUME DeskInv, ~Threaded, NEW r \in Report, TrueReport(r), SizedReport(r),
           HandleReport(r), ReportEntryFill(r)
    PROVE  Desk!DeskNext
<1> DEFINE e == Seen(r.id)
           k == Increment(r)
<1>1. /\ pc = "idle" /\ pc' = "idle" /\ book' = book /\ dryRun' = dryRun
      /\ r.id \in pendingEntries /\ IsFill(r) /\ k > 0
      /\ pendingExits' = pendingExits /\ pos' = RecordOpen(pos, book[r.id].side, k)
      /\ pendingEntries' = IF r.st = "filled" THEN pendingEntries \ {r.id} ELSE pendingEntries
  BY HandleSized DEF ReportEntryFill, HandleReport, engine
<1>2. /\ EntriesInProgress = pendingEntries /\ EntriesInProgress' = pendingEntries'
      /\ ExitsInProgress = pendingExits /\ ExitsInProgress' = ExitsInProgress
  BY <1>1 DEF EntriesInProgress, ExitsInProgress
<1>3. /\ r.id \in Orders /\ r.cum \in Nat /\ cumFills \in [Orders -> Nat]
      /\ book[r.id].qty \in Nat /\ pendingExits \cup pendingEntries \subseteq Orders
      /\ book[r.id].kind = "entry"
  BY <1>1, <1>2, InProgressFacts DEF Report, DeskInv, IInv, TypeOK, BookEntry
<1>4. cumFills' = [cumFills EXCEPT ![r.id] = IF r.st = "filled" THEN 0 ELSE r.cum]
  BY DEF ReportEntryFill, Recount
<1>5. \A x \in Orders : x # r.id => Outstanding(x)' = Outstanding(x)
  BY <1>1, <1>3, <1>4 DEF Outstanding
<1>6. /\ e.left = Outstanding(r.id) /\ e.side = book[r.id].side /\ k \in 1..e.left
      /\ r.st = "filled" <=> k = e.left
      /\ r.st # "filled" => Outstanding(r.id)' = e.left - k
  BY <1>1, <1>3, <1>4 DEF Seen, Outstanding, Increment, IsFill, SizedReport
<1>6a. e.left \in Int
  BY <1>3 DEF Seen, Outstanding
<1>7. SeenExit' = SeenExit
  <2>1. \A x \in ExitsInProgress : x \in Orders /\ x # r.id
    BY <1>3, InProgressFacts
  <2> QED BY <1>2, <1>5, <2>1, UnseenExit
<1>8. e \in SeenEntries
  BY <1>1, <1>2 DEF SeenEntries
<1>9. SeenEntries' = (SeenEntries \ {e}) \cup
                         (IF k < e.left THEN {[e EXCEPT !.left = e.left - k]} ELSE {})
  <2> DEFINE others == {Seen(x) : x \in pendingEntries \ {r.id}}
  <2>1. \A x \in pendingEntries \ {r.id} : Seen(x)' = Seen(x)
    BY <1>1, <1>3, <1>5 DEF Seen
  <2>2. SeenEntries \ {e} = others
    BY <1>1, <1>2 DEF SeenEntries, Seen
  <2>3. CASE r.st = "filled"
    <3>1. SeenEntries' = others
      BY <1>1, <1>2, <2>1, <2>3 DEF SeenEntries
    <3>2. ~(k < e.left)
      BY <1>6, <2>3
    <3> QED BY <2>2, <3>1, <3>2
  <2>4. CASE r.st # "filled"
    <3>1. SeenEntries' = others \cup {Seen(r.id)'}
      BY <1>1, <1>2, <2>1, <2>4 DEF SeenEntries
    <3>2. k < e.left
      <4> HIDE DEF e, k
      <4>1. k \in 1..e.left /\ k # e.left /\ e.left \in Int
        BY <1>6, <1>6a, <2>4
      <4> QED BY <4>1
    <3>3. Seen(r.id)' = [e EXCEPT !.left = e.left - k]
      BY <1>1, <1>6, <2>4 DEF Seen
    <3> QED BY <2>2, <3>1, <3>2, <3>3
  <2> QED BY <2>3, <2>4
<1>10. Desk!EntryFills(e, k)
  BY <1>1, <1>6, <1>7, <1>9, SameArithmetic DEF Desk!EntryFills
<1> HIDE DEF e, k
<1> QED BY <1>6, <1>8, <1>10 DEF Desk!DeskNext, Desk!Outcomes

\* A report on the exit: its last contract leaves the desk flat.
LEMMA ExitFillIsFill ==
    ASSUME DeskInv, ~Threaded, NEW r \in Report, TrueReport(r), SizedReport(r),
           HandleReport(r), ReportExitFill(r)
    PROVE  Desk!DeskNext
<1> DEFINE k == Increment(r)
<1>1. /\ pc = "idle" /\ pc' = "idle" /\ book' = book /\ dryRun' = dryRun
      /\ r.id \in pendingExits /\ IsFill(r) /\ k > 0 /\ pendingEntries' = pendingEntries
      /\ pos' = IF r.st = "filled" THEN 0 ELSE RecordClose(pos, k)
      /\ pendingExits' = IF r.st = "filled" THEN pendingExits \ {r.id} ELSE pendingExits
  BY HandleSized DEF ReportExitFill, ExitLeaves, HandleReport, engine
<1>2. /\ EntriesInProgress = pendingEntries /\ EntriesInProgress' = EntriesInProgress
      /\ ExitsInProgress = pendingExits /\ ExitsInProgress' = pendingExits'
  BY <1>1 DEF EntriesInProgress, ExitsInProgress
<1>3. /\ r.id \in Orders /\ r.cum \in Nat /\ cumFills \in [Orders -> Nat]
      /\ book[r.id].qty \in Nat /\ pendingEntries \subseteq Orders
      /\ book[r.id].kind = "exit" /\ pendingExits = {r.id}
  BY <1>1, <1>2, InProgressFacts DEF Report, DeskInv, IInv, TypeOK, BookEntry
<1>4. cumFills' = [cumFills EXCEPT ![r.id] = IF r.st = "filled" THEN 0 ELSE r.cum]
  BY DEF ReportExitFill, Recount
<1>5. \A x \in EntriesInProgress : Seen(x)' = Seen(x)
  <2>1. \A x \in EntriesInProgress : x \in Orders /\ x # r.id
    BY <1>3, InProgressFacts
  <2> QED BY <1>1, <1>3, <1>4, <2>1 DEF Seen, Outstanding
<1>6. SeenEntries' = SeenEntries
  BY <1>2, <1>5 DEF SeenEntries
<1>7. SeenExit = Outstanding(r.id)
  BY <1>1, <1>2, SeenExitFacts
<1>8. /\ k \in 1..SeenExit
      /\ r.st = "filled" <=> k = SeenExit
      /\ r.st # "filled" => Outstanding(r.id)' = SeenExit - k
  BY <1>1, <1>3, <1>4, <1>7 DEF Outstanding, Increment, IsFill, SizedReport
<1>9. SeenExit' = SeenExit - k
  <2>1. CASE r.st = "filled"
    <3>1. ExitsInProgress' = {}
      BY <1>1, <1>2, <1>3, <2>1
    <3> QED BY <1>8, <2>1, <3>1 DEF SeenExit
  <2>2. CASE r.st # "filled"
    <3>1. ExitsInProgress' = {r.id}
      BY <1>1, <1>2, <1>3, <2>2
    <3>2. SeenExit' = Outstanding(r.id)'
      BY <3>1 DEF SeenExit
    <3> QED BY <1>8, <2>2, <3>2
  <2> QED BY <2>1, <2>2
<1> HIDE DEF k
<1>10. Desk!ExitFills(k)
  BY <1>1, <1>6, <1>8, <1>9, SameArithmetic DEF Desk!ExitFills
<1> QED BY <1>8, <1>10 DEF Desk!DeskNext, Desk!Outcomes

\* Status 4 or 8 drops the entry or the exit it is about.
LEMMA CancelIsDrop ==
    ASSUME DeskInv, ~Threaded, NEW r \in Report, TrueReport(r), SizedReport(r),
           HandleReport(r), ReportCanceled(r)
    PROVE  [Desk!DeskNext]_(Desk!desk)
<1>1. /\ pc = "idle" /\ pc' = "idle" /\ book' = book /\ dryRun' = dryRun /\ pos' = pos
      /\ pendingEntries' = pendingEntries \ {r.id} /\ pendingExits' = pendingExits \ {r.id}
      /\ cumFills' = [cumFills EXCEPT ![r.id] = 0]
  BY HandleSized DEF ReportCanceled, HandleReport, engine
<1>2. /\ EntriesInProgress = pendingEntries /\ EntriesInProgress' = EntriesInProgress \ {r.id}
      /\ ExitsInProgress = pendingExits /\ ExitsInProgress' = ExitsInProgress \ {r.id}
  BY <1>1 DEF EntriesInProgress, ExitsInProgress
<1>3. /\ r.id \in Orders /\ cumFills \in [Orders -> Nat]
      /\ EntriesInProgress \subseteq Orders /\ ExitsInProgress \subseteq Orders
  BY InProgressFacts DEF Report, DeskInv, IInv, TypeOK
<1>4. \A x \in Orders : x # r.id => Outstanding(x)' = Outstanding(x) /\ Seen(x)' = Seen(x)
  BY <1>1, <1>3 DEF Outstanding, Seen
<1>5. SeenEntries' = SeenEntries \ {Seen(r.id)}
  <2>1. SeenEntries \ {Seen(r.id)} = {Seen(x) : x \in EntriesInProgress \ {r.id}}
    BY DEF SeenEntries, Seen
  <2> QED BY <1>2, <1>3, <1>4, <2>1 DEF SeenEntries
<1>6. CASE r.id \in EntriesInProgress
  <2>1. r.id \notin ExitsInProgress
    BY <1>6, InProgressFacts
  <2>2. SeenExit' = SeenExit
    <3>1. ExitsInProgress' = ExitsInProgress /\ \A x \in ExitsInProgress : x \in Orders /\ x # r.id
      BY <1>2, <1>3, <2>1
    <3> QED BY <1>4, <3>1, UnseenExit
  <2>3. Seen(r.id) \in SeenEntries
    BY <1>6 DEF SeenEntries
  <2>4. Desk!EntryDropped(Seen(r.id))
    BY <1>1, <1>5, <2>2 DEF Desk!EntryDropped
  <2> QED BY <2>3, <2>4 DEF Desk!DeskNext, Desk!Outcomes
<1>7. CASE r.id \in ExitsInProgress
  <2>1. r.id \notin EntriesInProgress
    BY <1>7, InProgressFacts
  <2>2. SeenEntries' = SeenEntries
    <3>1. EntriesInProgress' = EntriesInProgress
          /\ \A x \in EntriesInProgress : x \in Orders /\ x # r.id
      BY <1>2, <1>3, <2>1
    <3> QED BY <1>4, <3>1 DEF SeenEntries
  <2>3. ExitsInProgress' = {} /\ SeenExit > 0
    BY <1>2, <1>7, InProgressFacts, SeenExitFacts
  <2>4. SeenExit' = 0
    BY <2>3 DEF SeenExit
  <2>5. Desk!ExitDropped
    BY <1>1, <2>2, <2>3, <2>4 DEF Desk!ExitDropped
  <2> QED BY <2>5 DEF Desk!DeskNext, Desk!Outcomes
<1>8. CASE r.id \notin EntriesInProgress \cup ExitsInProgress
  <2>1. /\ EntriesInProgress' = EntriesInProgress /\ ExitsInProgress' = ExitsInProgress
        /\ \A x \in EntriesInProgress \cup ExitsInProgress : x \in Orders /\ x # r.id
    BY <1>2, <1>3, <1>8
  <2>2. SeenEntries' = SeenEntries /\ SeenExit' = SeenExit
    BY <1>1, <1>4, <2>1, UnseenStep
  <2> QED BY <1>1, <2>2 DEF Desk!desk
<1> QED BY <1>6, <1>7, <1>8

\* Whatever path a report takes through on_execution_report, fresh or resent,
\* the desk books, drops or does not notice it.
LEMMA HandleIsOutcome ==
    ASSUME DeskInv, ~Threaded, NEW r \in Report, TrueReport(r), SizedReport(r), HandleReport(r)
    PROVE  [Desk!DeskNext]_(Desk!desk)
<1>1. CASE ReportEntryFill(r)
  BY <1>1, EntryFillIsFill
<1>2. CASE ReportExitFill(r)
  BY <1>2, ExitFillIsFill
<1>3. CASE ReportCanceled(r)
  BY <1>3, CancelIsDrop
<1>4. CASE ReportStale(r) \/ ReportUnknown(r)
  <2>1. /\ pc = "idle" /\ pc' = "idle" /\ book' = book /\ dryRun' = dryRun /\ pos' = pos
        /\ pendingEntries' = pendingEntries /\ pendingExits' = pendingExits
    BY <1>4, HandleSized DEF ReportStale, ReportUnknown, HandleReport, engine, manager
  <2>2. /\ EntriesInProgress = pendingEntries /\ EntriesInProgress' = EntriesInProgress
        /\ ExitsInProgress = pendingExits /\ ExitsInProgress' = ExitsInProgress
    BY <2>1 DEF EntriesInProgress, ExitsInProgress
  <2>3. cumFills' = cumFills
        \/ (r.id \notin Registered /\ cumFills' = [cumFills EXCEPT ![r.id] = r.cum])
    BY <1>4 DEF ReportStale, ReportUnknown, manager
  <2>4. cumFills \in [Orders -> Nat] /\ r.id \in Orders /\ Registered \subseteq Orders
    BY DEF DeskInv, IInv, TypeOK, Report, Registered
  <2>5. \A x \in EntriesInProgress \cup ExitsInProgress :
            Outstanding(x)' = Outstanding(x) /\ book'[x].side = book[x].side
    BY <2>1, <2>2, <2>3, <2>4 DEF Outstanding, Registered
  <2>6. SeenEntries' = SeenEntries /\ SeenExit' = SeenExit
    BY <2>2, <2>5, UnseenStep
  <2> QED BY <2>1, <2>6 DEF Desk!desk
<1> QED BY <1>1, <1>2, <1>3, <1>4 DEF HandleReport

LEMMA StepIsDeskStep ==
    ASSUME DeskInv, ~Threaded, [Next]_vars
    PROVE  [Desk!DeskNext]_(Desk!desk)
<1>1. ASSUME NEW o \in Orders, NEW s \in Side, NEW q \in 1..MaxQty, PlaceEntry(o, s, q)
      PROVE  Desk!DeskNext
  <2>1. s \in Desk!Side /\ Desk!Enter(o, s, q)
    BY <1>1, PlaceEntryIsEnter DEF Side, Desk!Side
  <2> QED BY <2>1 DEF Desk!DeskNext, Desk!Submits
<1>2. ASSUME NEW o \in Orders, PlaceExit(o) PROVE Desk!DeskNext
  BY <1>2, PlaceExitIsExit DEF Desk!DeskNext, Desk!Submits
<1>3. CASE CountEntry \/ RegisterEntry \/ RegisterExit
  <2>1. /\ dryRun' = dryRun /\ pos' = pos /\ book' = book
        /\ EntriesInProgress' = EntriesInProgress /\ ExitsInProgress' = ExitsInProgress
    BY <1>3 DEF CountEntry, RegisterEntry, RegisterExit, broker, EntriesInProgress,
                ExitsInProgress
  <2>2. cumFills' = cumFills
    <3>1. cumFills \in [Orders -> Nat] /\ (pc # "idle" => cumFills[cur] = 0)
      BY DEF DeskInv, IInv, TypeOK, CallUnseen
    <3> QED BY <1>3, <3>1 DEF CountEntry, RegisterEntry, RegisterExit
  <2>3. SeenEntries' = SeenEntries /\ SeenExit' = SeenExit
    BY <2>1, <2>2, UnseenStep DEF Outstanding
  <2> QED BY <2>1, <2>3 DEF Desk!desk
<1>4. ASSUME UNCHANGED <<dryRun, engine, manager, broker>>
      PROVE  SeenEntries' = SeenEntries /\ SeenExit' = SeenExit
  <2>1. /\ EntriesInProgress' = EntriesInProgress /\ ExitsInProgress' = ExitsInProgress
        /\ \A x : Outstanding(x)' = Outstanding(x) /\ book'[x].side = book[x].side
    BY <1>4 DEF engine, manager, broker, EntriesInProgress, ExitsInProgress, Outstanding
  <2> QED BY <2>1, UnseenStep
<1>5. ASSUME NEW s \in Side, NEW q \in 1..MaxQty, DryEntry(s, q) PROVE Desk!DeskNext
  <2>1. /\ dryRun /\ pos = 0 /\ pos' = RecordOpen(pos, s, q) /\ dryRun' = dryRun
        /\ SeenEntries' = SeenEntries /\ SeenExit' = SeenExit
    BY <1>4, <1>5 DEF DryEntry
  <2>2. s \in Desk!Side /\ Desk!EnterDry(s, q)
    BY <2>1, SameArithmetic DEF Side, Desk!Side, Desk!EnterDry
  <2> QED BY <2>2 DEF Desk!DeskNext, Desk!Submits
<1>6. CASE DryExit
  <2>1. /\ dryRun /\ pos # 0 /\ pos' = RecordClose(pos, Magnitude(pos)) /\ dryRun' = dryRun
        /\ SeenEntries' = SeenEntries /\ SeenExit' = SeenExit /\ pendingExits = {}
    BY <1>4, <1>6 DEF DryExit, ExitAllowed
  <2>2. pc = "idle"
    BY <2>1 DEF DeskInv, CallUnseen
  <2>3. SeenExit = 0
    BY <2>1, <2>2 DEF SeenExit, ExitsInProgress
  <2>4. Desk!ExitDry
    BY <2>1, <2>3, SameArithmetic DEF Desk!ExitDry
  <2> QED BY <2>4 DEF Desk!DeskNext, Desk!Submits
<1>7. ASSUME NEW o \in Orders, NEW c, c.qty = book[o].qty, c.side = book[o].side,
             book' = [book EXCEPT ![o] = c], UNCHANGED <<dryRun, engine, manager, pos>>
      PROVE  UNCHANGED Desk!desk
  <2>1. \A x \in Orders : book'[x].qty = book[x].qty /\ book'[x].side = book[x].side
    BY <1>7 DEF DeskInv, IInv, TypeOK
  <2>2. /\ EntriesInProgress' = EntriesInProgress /\ ExitsInProgress' = ExitsInProgress
        /\ cumFills' = cumFills /\ dryRun' = dryRun /\ pos' = pos
    BY <1>7 DEF engine, manager, EntriesInProgress, ExitsInProgress
  <2>3. \A x \in EntriesInProgress \cup ExitsInProgress :
            Outstanding(x)' = Outstanding(x) /\ book'[x].side = book[x].side
    BY <2>1, <2>2, InProgressFacts DEF Outstanding
  <2> QED BY <2>2, <2>3, UnseenStep DEF Desk!desk
<1>8. ASSUME NEW o \in Orders, NEW k \in 1..(book[o].qty - book[o].cum), BrokerFill(o, k)
      PROVE  UNCHANGED Desk!desk
  <2>1. Filled(book[o], k).qty = book[o].qty /\ Filled(book[o], k).side = book[o].side
    BY DEF Filled, DeskInv, IInv, TypeOK, BookEntry
  <2> QED BY <1>7, <1>8, <2>1 DEF BrokerFill
<1>9. ASSUME NEW o \in Orders, BrokerCancel(o) PROVE UNCHANGED Desk!desk
  <2>1. Canceled(book[o]).qty = book[o].qty /\ Canceled(book[o]).side = book[o].side
    BY DEF Canceled, DeskInv, IInv, TypeOK, BookEntry
  <2> QED BY <1>7, <1>9, <2>1 DEF BrokerCancel
<1>10. CASE Deliver
  BY <1>10, HeadSized, HandleIsOutcome DEF Deliver
<1>11. ASSUME NEW r \in delivered, Redeliver(r) PROVE [Desk!DeskNext]_(Desk!desk)
  <2>1. r \in Report /\ TrueReport(r) /\ SizedReport(r)
    BY DEF DeskInv, IInv, TypeOK, ReportsTrue, ReportsSized
  <2> QED BY <1>11, <2>1, HandleIsOutcome DEF Redeliver
<1>12. CASE UNCHANGED vars
  <2>1. UNCHANGED <<dryRun, engine, manager, broker>> /\ pos' = pos
    BY <1>12 DEF vars, engine, manager, broker
  <2> QED BY <1>4, <2>1 DEF Desk!desk
<1>13. ASSUME NEW o \in Orders, NEW k, NEW s, NEW q, Accept(o, k, s, q),
              book[o].status = "unused", UNCHANGED <<dryRun, pc, cur, manager, pos>>
       PROVE  UNCHANGED Desk!desk
  <2>1. /\ EntriesInProgress' = EntriesInProgress /\ ExitsInProgress' = ExitsInProgress
        /\ cumFills' = cumFills /\ dryRun' = dryRun /\ pos' = pos
    BY <1>13 DEF manager, EntriesInProgress, ExitsInProgress
  <2>2. \A x \in EntriesInProgress \cup ExitsInProgress : x \in Orders /\ x # o
    BY <1>13, InProgressFacts
  <2>3. \A x \in Orders : x # o => book'[x] = book[x]
    BY <1>13 DEF Accept, DeskInv, IInv, TypeOK
  <2>4. \A x \in EntriesInProgress \cup ExitsInProgress :
            Outstanding(x)' = Outstanding(x) /\ book'[x].side = book[x].side
    BY <2>1, <2>2, <2>3 DEF Outstanding
  <2> QED BY <2>1, <2>4, UnseenStep DEF Desk!desk
<1>14. ASSUME NEW o \in Orders, NEW s \in Side, NEW q \in 1..MaxQty, EntryRaises(o, s, q)
       PROVE  UNCHANGED Desk!desk
  BY <1>13, <1>14 DEF EntryRaises
<1>15. ASSUME NEW o \in Orders, ExitRaises(o) PROVE UNCHANGED Desk!desk
  BY <1>13, <1>15 DEF ExitRaises
<1> QED
  BY <1>1, <1>2, <1>3, <1>5, <1>6, <1>8, <1>9, <1>10, <1>11, <1>12, <1>14, <1>15
     DEF Next, EngineStep, BrokerStep, ReportStep

LEMMA InitIsDeskInit == Init => Desk!DeskInit
BY DEF Init, Fresh, Desk!DeskInit, SeenEntries, SeenExit, EntriesInProgress, ExitsInProgress

\* With the report callback on the event loop the order manager is the desk its
\* handlers take it for, for any orders, quantities, partial fills, rejections
\* and resent reports: one exit at a time, sized to the position, each order's
\* parts booked once and in full, its end forgetting it.
THEOREM ImplementsTheDesk ==
    ASSUME ~Threaded
    PROVE  Spec => ImplementsDesk
<1>1. DeskInv /\ [Next]_vars => DeskInv'
  BY NextDeskInv
<1>2. DeskInv /\ [Next]_vars => [Desk!DeskNext]_(Desk!desk)
  BY StepIsDeskStep
<1> QED BY <1>1, <1>2, InitDeskInv, InitIsDeskInit, PTL DEF Spec, ImplementsDesk, Desk!DeskSpec
-----------------------------------------------------------------------------
(* Restarts.                                                               *)

Phases == {"starting", "positioned", "up", "down"}

\* A submit call runs only while the engine is up; it owns an order of its own.
CallsWhileUp ==
    /\ phase # "up" => pc = "idle" /\ pendingEntries = {} /\ pendingExits = {}
    /\ pc # "idle" => cur \in Orders \ Registered /\ book[cur].status # "unused"

\* Registered orders are orders of the broker, each in one of the dictionaries.
OrdersUsed ==
    /\ pendingEntries \cap pendingExits = {}
    /\ \A o \in Registered : book[o].status # "unused"
    /\ \A o \in Orders : book[o].status = "unused" => book[o].cum = 0

\* What WorkingKnown becomes while a submit call is under way.
Known ==
    ordersRead =>
        /\ phase = "up"
        /\ \A o \in Orders \ unheard :
              Working(o) => o \in Registered \/ (pc # "idle" /\ cur = o)

Base ==
    /\ TypeOK /\ phase \in Phases /\ dryRun = FALSE /\ ordersRead \in BOOLEAN
    /\ ReportsTrue /\ CallsWhileUp /\ OrdersUsed /\ Known

\* The counter runs between what was booked and what the broker filled, but for
\* an exit taken over.
Counted ==
    /\ phase # "up" => takenOver = {}
    /\ pc # "idle" => applied[cur] = 0
    /\ \A o \in Orders :
          /\ cumFills[o] <= book[o].cum
          /\ o \notin takenOver => applied[o] <= book[o].cum
          /\ o \in Registered \ takenOver => applied[o] <= cumFills[o]
          /\ book[o].status = "unused" => applied[o] = 0 /\ cumFills[o] = 0

\* The exits that OneExitWorking speaks of.
HeardExit(o) == o \in Orders \ unheard /\ Working(o) /\ book[o].kind = "exit"

\* While no start has lost hold of one, a working exit locks the next.
ExitsHeld ==
    ~astray =>
        /\ \A x, y \in Orders : HeardExit(x) /\ HeardExit(y) => x = y
        /\ phase = "up" =>
              \A o \in Orders :
                 HeardExit(o) => o \in pendingExits \/ (pc = "exitPlaced" /\ cur = o)
-----------------------------------------------------------------------------
\* A submit call has the broker take order o of kind k, and returns or raises.
Placed(o, k) ==
    /\ phase = "up" /\ pc = "idle" /\ book[o].status = "unused"
    /\ \E s \in Side, q \in Nat : Accept(o, k, s, q)
    /\ k = "exit" => pendingExits = {}
    /\ \/ /\ pc' = (IF k = "exit" THEN "exitPlaced" ELSE "entryPlaced")
          /\ cur' = o
          /\ unheard' = unheard
       \/ pc' = pc /\ cur' = cur /\ unheard' = unheard \cup {o}
    /\ UNCHANGED <<dryRun, manager, pos, net, chan, delivered, applied,
                   phase, ordersRead, takenOver, astray>>

LEMMA PlacedFacts ==
    ASSUME TypeOK, NEW o \in Orders, NEW k \in Kind, Placed(o, k)
    PROVE  /\ book' \in [Orders -> BookEntry]
           /\ \A x \in Orders : x # o => book'[x] = book[x]
           /\ book'[o].status = "working" /\ book'[o].kind = k /\ book'[o].cum = 0
           /\ pendingEntries' = pendingEntries /\ pendingExits' = pendingExits
           /\ cumFills' = cumFills /\ Registered' = Registered
BY DEF Placed, Accept, TypeOK, BookEntry, Status, manager, Registered

LEMMA TradingCases ==
    ASSUME Base, Trading
    PROVE  /\ \/ \E o \in Orders, k \in Kind : Placed(o, k)
              \/ CountEntry
              \/ RegisterEntry
              \/ RegisterExit
           /\ phase = "up" /\ UNCHANGED <<phase, ordersRead, takenOver, astray>>
<1>1. /\ phase = "up" /\ UNCHANGED <<phase, crashes, ordersRead, takenOver, astray>>
      /\ EngineStep /\ ~dryRun /\ pos \in Int
  BY DEF Trading, Base, TypeOK
<1>2. ASSUME NEW o \in Orders, NEW s \in Side, NEW q \in 1..MaxQty,
             PlaceEntry(o, s, q) \/ EntryRaises(o, s, q)
      PROVE  Placed(o, "entry")
  <2>1. q \in Nat
    OBVIOUS
  <2> QED BY <1>1, <1>2, <2>1 DEF PlaceEntry, EntryRaises, Placed
<1>3. ASSUME NEW o \in Orders, PlaceExit(o) \/ ExitRaises(o)
      PROVE  Placed(o, "exit")
  <2>1. ExitSide(pos) \in Side /\ Magnitude(pos) \in Nat
    BY <1>1 DEF ExitSide, Side, Magnitude
  <2>2. pendingExits = {} /\ Accept(o, "exit", ExitSide(pos), Magnitude(pos))
    BY <1>3 DEF PlaceExit, ExitRaises, ExitAllowed
  <2>3. \E s \in Side, q \in Nat : Accept(o, "exit", s, q)
    BY <2>1, <2>2
  <2> QED BY <1>1, <1>3, <2>2, <2>3 DEF PlaceExit, ExitRaises, Placed
<1> QED BY <1>1, <1>2, <1>3 DEF EngineStep, DryEntry, DryExit, Kind

\* What an event of the broker does, whether a fill or a cancellation.
LEMMA EventStep ==
    ASSUME TypeOK, ReportsTrue, Broker
    PROVE  /\ book' \in [Orders -> BookEntry]
           /\ \A x \in Orders : /\ book'[x].kind = book[x].kind
                                /\ Working(x)' => Working(x)
                                /\ book[x].cum <= book'[x].cum
                                /\ book'[x].status = "unused" <=> book[x].status = "unused"
                                /\ book'[x].status = "unused" => book'[x] = book[x]
           /\ chan' \in Seq(Report) /\ ReportsTrue' /\ net' \in Int
           /\ UNCHANGED <<dryRun, engine, manager, pos, delivered, applied>>
           /\ UNCHANGED <<phase, crashes, ordersRead, takenOver, astray>>
<1>1. PICK o \in Orders :
        \/ \E k \in 1..(book[o].qty - book[o].cum) : BrokerFill(o, k)
        \/ BrokerCancel(o)
  BY DEF Broker, BrokerStep
<1>2. \E c : /\ \/ c = Canceled(book[o])
                \/ \E k \in 1..(book[o].qty - book[o].cum) : c = Filled(book[o], k)
             /\ book' = [book EXCEPT ![o] = c] /\ chan' = Append(chan, ReportOf(o, c))
  BY <1>1 DEF BrokerFill, BrokerCancel
<1>3. PICK c : /\ \/ c = Canceled(book[o])
                  \/ \E k \in 1..(book[o].qty - book[o].cum) : c = Filled(book[o], k)
               /\ book' = [book EXCEPT ![o] = c] /\ chan' = Append(chan, ReportOf(o, c))
  BY <1>2
<1>4. /\ Working(o) /\ UNCHANGED <<dryRun, engine, manager, pos, delivered, applied>>
      /\ UNCHANGED <<phase, crashes, ordersRead, takenOver, astray>>
  BY <1>1 DEF BrokerFill, BrokerCancel, Broker
<1>5. book[o] \in BookEntry /\ book[o].status = "working"
  BY <1>4 DEF TypeOK, Working
<1>6. /\ c \in BookEntry /\ c.cum >= book[o].cum /\ c.kind = book[o].kind
      /\ c.status \in {"working", "filled", "canceled"}
      /\ ReportOf(o, c) \in Report /\ ReportOf(o, c).id = o /\ ReportOf(o, c).cum = c.cum
      /\ c.status = "working" => ReportOf(o, c).st = "partial"
  BY <1>3, <1>5, EventFacts
<1>7. /\ book' \in [Orders -> BookEntry] /\ book'[o] = c
      /\ \A x \in Orders : x # o => book'[x] = book[x]
  BY <1>3, <1>6 DEF TypeOK
<1>8. \A x \in Orders : /\ book'[x].kind = book[x].kind
                        /\ Working(x)' => Working(x)
                        /\ book[x].cum \in Nat /\ book'[x].cum \in Nat
                        /\ book[x].cum <= book'[x].cum
                        /\ book'[x].status = "unused" <=> book[x].status = "unused"
                        /\ book'[x].status = "unused" => book'[x] = book[x]
  <2>1. \A x \in Orders : book[x].cum \in Nat /\ book'[x].cum \in Nat
    BY <1>7 DEF TypeOK, BookEntry
  <2>2. ASSUME NEW x \in Orders, x # o PROVE book'[x] = book[x]
    BY <1>7, <2>2
  <2>3. /\ book'[o].kind = book[o].kind /\ book[o].cum <= book'[o].cum
        /\ book[o].status # "unused" /\ book'[o].status # "unused"
    BY <1>5, <1>6, <1>7
  <2>4. book[o].cum \in Nat /\ Working(o)
    BY <1>4, <2>1
  <2> QED BY <2>1, <2>2, <2>3, <2>4 DEF Working
<1>9. TrueReport(ReportOf(o, c))'
  BY <1>6, <1>7 DEF TrueReport, Working, BookEntry
<1>10. \A r \in Report : TrueReport(r) => TrueReport(r)'
  <2>1. \A r \in Report : r.id \in Orders /\ r.cum \in Nat
    BY DEF Report
  <2> QED BY <1>8, <2>1 DEF TrueReport
<1>11. ReportsTrue' /\ chan' \in Seq(Report)
  BY <1>3, <1>4, <1>6, <1>9, <1>10, BookStep
<1>12. net' \in Int
  <2>1. ASSUME NEW k \in 1..(book[o].qty - book[o].cum), BrokerFill(o, k) PROVE net' \in Int
    <3>1. book[o].qty \in Nat /\ book[o].cum \in Nat /\ book[o].side \in Side /\ net \in Int
      BY <1>5 DEF TypeOK, BookEntry
    <3>2. net' = net + Signed(book[o].side, k) /\ k \in Int
      BY <2>1, <3>1 DEF BrokerFill
    <3> QED BY <3>1, <3>2 DEF Signed
  <2>2. CASE BrokerCancel(o)
    BY <2>2 DEF BrokerCancel, TypeOK
  <2> QED BY <1>1, <2>1, <2>2
<1> QED BY <1>4, <1>7, <1>8, <1>11, <1>12

\* What record_close takes off the position, and leaves of it.
LEMMA CloseFacts ==
    ASSUME NEW p \in Int, NEW q \in Nat
    PROVE  RecordClose(p, q) \in Int /\ Smaller(q, Magnitude(p)) \in 0..q
BY DEF RecordClose, Smaller, Magnitude

\* What a handled report may do at most, on any of its paths.
LEMMA HandleFacts ==
    ASSUME TypeOK, pendingEntries \cap pendingExits = {}, NEW r \in Report, HandleReport(r)
    PROVE  /\ cumFills' \in [Orders -> Nat] /\ applied' \in [Orders -> Nat] /\ pos' \in Int
           /\ pendingEntries' \subseteq pendingEntries /\ pendingExits' \subseteq pendingExits
           /\ Registered \ Registered' \subseteq {r.id}
           /\ pendingExits \ pendingExits' \subseteq {r.id}
           /\ r.st = "partial" => Registered' = Registered /\ pendingExits' = pendingExits
           /\ \A o \in Orders : o # r.id => applied'[o] = applied[o] /\ cumFills'[o] = cumFills[o]
           /\ r.id \notin Registered => applied' = applied
           /\ cumFills'[r.id] \in {0, r.cum, cumFills[r.id]}
           /\ \/ r.id \notin Registered' /\ applied'[r.id] = applied[r.id]
              \/ r.id \notin Registered'
                   /\ applied'[r.id] <= applied[r.id] + (r.cum - cumFills[r.id])
              \/ cumFills'[r.id] = r.cum /\ cumFills[r.id] <= r.cum
                   /\ applied'[r.id] <= applied[r.id] + (r.cum - cumFills[r.id])
              \/ cumFills' = cumFills /\ applied' = applied
           /\ UNCHANGED <<dryRun, pc, cur, book, net, unheard>>
<1> USE DEF TypeOK, Report, Registered, IsFill, Recount
<1>a. UNCHANGED <<dryRun, pc, cur, book, net, unheard>>
  BY DEF HandleReport, engine
<1>b. r.id \in Orders /\ r.cum \in Nat /\ pos \in Int /\ r.st \in {"partial", "filled", "canceled"}
  OBVIOUS
<1>1. CASE ReportCanceled(r)
  BY <1>1, <1>a, <1>b DEF ReportCanceled
<1>2. CASE ReportStale(r)
  BY <1>2, <1>a, <1>b DEF ReportStale, manager
<1>3. CASE ReportUnknown(r)
  BY <1>3, <1>a, <1>b DEF ReportUnknown
<1>4. CASE ReportEntryFill(r)
  <2>1. Increment(r) \in Nat /\ book[r.id].side \in Side
    BY <1>4, <1>b DEF ReportEntryFill, Increment, BookEntry
  <2>2. pos' \in Int
    BY <1>4, <1>b, <2>1, RecordFacts DEF ReportEntryFill
  <2>3. /\ applied' \in [Orders -> Nat] /\ \A o \in Orders : o # r.id => applied'[o] = applied[o]
        /\ applied'[r.id] <= applied[r.id] + Increment(r)
    BY <1>4, <1>b, <2>1 DEF ReportEntryFill
  <2>4. Increment(r) = r.cum - cumFills[r.id] /\ cumFills[r.id] <= r.cum
    BY <1>b, <2>1 DEF Increment
  <2>5. /\ cumFills' \in [Orders -> Nat]
        /\ \A o \in Orders : o # r.id => cumFills'[o] = cumFills[o]
        /\ cumFills'[r.id] \in {0, r.cum}
        /\ r.id \notin Registered' \/ cumFills'[r.id] = r.cum
        /\ pendingExits' = pendingExits /\ pendingEntries' \subseteq pendingEntries
        /\ pendingEntries \ pendingEntries' \subseteq {r.id}
        /\ r.st = "partial" => pendingEntries' = pendingEntries
        /\ r.id \in pendingEntries
    BY <1>4, <1>b DEF ReportEntryFill
  <2> QED BY <1>a, <2>2, <2>3, <2>4, <2>5
<1>5. CASE ReportExitFill(r)
  <2>1. Increment(r) \in Nat
    BY <1>5, <1>b DEF ReportExitFill, Increment
  <2>2. RecordClose(pos, Increment(r)) \in Int
        /\ Smaller(Increment(r), Magnitude(pos)) \in 0..Increment(r)
    BY <1>b, <2>1, CloseFacts
  <2>3. /\ applied' \in [Orders -> Nat] /\ \A o \in Orders : o # r.id => applied'[o] = applied[o]
        /\ applied'[r.id] <= applied[r.id] + Increment(r)
    <3> DEFINE n == Smaller(Increment(r), Magnitude(pos))
    <3>1. applied' = [applied EXCEPT ![r.id] = @ + n]
      BY <1>5 DEF ReportExitFill
    <3>2. n \in Nat /\ n <= Increment(r) /\ applied[r.id] \in Nat
      BY <1>b, <2>1, <2>2
    <3> HIDE DEF n
    <3> QED BY <1>b, <2>1, <3>1, <3>2
  <2>4. pos' \in Int
    BY <1>5, <2>2 DEF ReportExitFill, ExitLeaves
  <2>5. Increment(r) = r.cum - cumFills[r.id] /\ cumFills[r.id] <= r.cum
    BY <1>b, <2>1 DEF Increment
  <2>6. /\ cumFills' \in [Orders -> Nat]
        /\ \A o \in Orders : o # r.id => cumFills'[o] = cumFills[o]
        /\ cumFills'[r.id] \in {0, r.cum}
        /\ r.id \notin Registered' \/ cumFills'[r.id] = r.cum
        /\ pendingEntries' = pendingEntries /\ pendingExits' \subseteq pendingExits
        /\ pendingExits \ pendingExits' \subseteq {r.id}
        /\ r.st = "partial" => pendingExits' = pendingExits
        /\ r.id \in pendingExits
    BY <1>5, <1>b DEF ReportExitFill
  <2> QED BY <1>a, <2>3, <2>4, <2>5, <2>6
<1> QED BY <1>1, <1>2, <1>3, <1>4, <1>5 DEF HandleReport

\* The report a step of the channel handles, a true one, and what is left.
LEMMA ReportTaken ==
    ASSUME TypeOK, ReportsTrue, ReportStep
    PROVE  /\ \E r \in Report : TrueReport(r) /\ HandleReport(r)
           /\ chan' \in Seq(Report) /\ delivered' \subseteq Report /\ ReportsTrue'
<1>1. CASE Deliver
  <2>1. Head(chan) \in Report /\ TrueReport(Head(chan)) /\ HandleReport(Head(chan))
        /\ chan' = Tail(chan) /\ Tail(chan) \in Seq(Report)
        /\ \A i \in 1..Len(Tail(chan)) : TrueReport(Tail(chan)[i])
    BY <1>1, HeadReport DEF Deliver
  <2>2. delivered' = delivered \cup {Head(chan)} /\ book' = book
    BY <2>1 DEF HandleReport
  <2> QED BY <2>1, <2>2 DEF ReportsTrue, TrueReport, Working, TypeOK
<1>2. ASSUME NEW r \in delivered, Redeliver(r)
      PROVE  /\ \E x \in Report : TrueReport(x) /\ HandleReport(x)
             /\ chan' \in Seq(Report) /\ delivered' \subseteq Report /\ ReportsTrue'
  <2>1. r \in Report /\ TrueReport(r) /\ HandleReport(r) /\ chan' = chan
    BY <1>2 DEF Redeliver, ReportsTrue, TypeOK
  <2>2. delivered' = delivered \cup {r} /\ book' = book
    BY <2>1 DEF HandleReport
  <2> QED BY <2>1, <2>2 DEF ReportsTrue, TrueReport, Working, TypeOK
<1> QED BY <1>1, <1>2 DEF ReportStep

LEMMA InitBase == RInit => Base
<1> SUFFICES ASSUME RInit PROVE Base
  OBVIOUS
<1>1. TypeOK /\ ReportsTrue
  BY OrderAssumption
     DEF RInit, Fresh, TypeOK, ReportsTrue, BookEntry, Status, Kind, Side, Report
<1> QED BY <1>1 DEF RInit, Fresh, Base, Phases, CallsWhileUp, OrdersUsed, Known, Registered

LEMMA PlacedBase ==
    ASSUME Base, NEW o \in Orders, NEW k \in Kind, Placed(o, k)
    PROVE  Base'
<1> USE DEF Base
<1>1. /\ book' \in [Orders -> BookEntry]
      /\ \A x \in Orders : x # o => book'[x] = book[x]
      /\ book'[o].status = "working" /\ book'[o].kind = k /\ book'[o].cum = 0
      /\ pendingEntries' = pendingEntries /\ pendingExits' = pendingExits
      /\ cumFills' = cumFills /\ Registered' = Registered
  BY PlacedFacts
<1>2. /\ phase = "up" /\ pc = "idle" /\ book[o].status = "unused" /\ o \notin Registered
      /\ \/ pc' \in {"entryPlaced", "exitPlaced"} /\ cur' = o /\ unheard' = unheard
         \/ pc' = pc /\ cur' = cur /\ unheard' = unheard \cup {o}
      /\ UNCHANGED <<dryRun, pos, net, chan, delivered, applied, phase, ordersRead>>
  BY DEF Placed, OrdersUsed
<1>3. TypeOK'
  BY <1>1, <1>2 DEF TypeOK
<1>4. ReportsTrue'
  <2>1. \A r \in Report : TrueReport(r) => TrueReport(r)'
    BY <1>1, <1>2 DEF TrueReport, Working, Report
  <2> QED BY <1>2, <2>1, BookStep
<1>5. CallsWhileUp'
  BY <1>1, <1>2 DEF CallsWhileUp
<1>6. OrdersUsed'
  BY <1>1, <1>2 DEF OrdersUsed, TypeOK, Registered
<1>7. Known'
  BY <1>1, <1>2 DEF Known, Working
<1> QED BY <1>2, <1>3, <1>4, <1>5, <1>6, <1>7

LEMMA EventBase ==
    ASSUME Base, Broker
    PROVE  Base'
<1> USE DEF Base
<1>1. /\ book' \in [Orders -> BookEntry]
      /\ \A x \in Orders : /\ Working(x)' => Working(x)
                           /\ book'[x].status = "unused" <=> book[x].status = "unused"
                           /\ book'[x].status = "unused" => book'[x] = book[x]
      /\ chan' \in Seq(Report) /\ ReportsTrue' /\ net' \in Int
      /\ UNCHANGED <<dryRun, engine, manager, pos, delivered, applied>>
      /\ UNCHANGED <<phase, crashes, ordersRead, takenOver, astray>>
  BY EventStep
<1>2. Registered' = Registered /\ UNCHANGED <<pc, cur, unheard, pendingEntries, pendingExits,
                                              cumFills, dryRun, pos, delivered, applied>>
  BY <1>1 DEF Registered, engine, manager
<1>3. TypeOK'
  BY <1>1, <1>2 DEF TypeOK
<1>4. CallsWhileUp' /\ OrdersUsed'
  BY <1>1, <1>2 DEF CallsWhileUp, OrdersUsed, TypeOK, Registered
<1>5. Known'
  BY <1>1, <1>2 DEF Known
<1> QED BY <1>1, <1>2, <1>3, <1>4, <1>5

LEMMA ReportBase ==
    ASSUME Base, Reports
    PROVE  Base'
<1> USE DEF Base
<1>1. PICK r \in Report : TrueReport(r) /\ HandleReport(r)
  BY ReportTaken DEF Reports
<1>2. chan' \in Seq(Report) /\ delivered' \subseteq Report /\ ReportsTrue'
  BY ReportTaken DEF Reports
<1>3. /\ cumFills' \in [Orders -> Nat] /\ applied' \in [Orders -> Nat] /\ pos' \in Int
      /\ pendingEntries' \subseteq pendingEntries /\ pendingExits' \subseteq pendingExits
      /\ Registered \ Registered' \subseteq {r.id}
      /\ r.st = "partial" => Registered' = Registered
      /\ UNCHANGED <<dryRun, pc, cur, book, net, unheard>>
  BY <1>1, HandleFacts DEF OrdersUsed
<1>4. UNCHANGED <<phase, ordersRead>> /\ Registered' \subseteq Registered
  BY <1>3 DEF Reports, Registered
<1>5. TypeOK'
  BY <1>2, <1>3 DEF TypeOK
<1>6. CallsWhileUp'
  BY <1>3, <1>4 DEF CallsWhileUp
<1>7. OrdersUsed'
  BY <1>3, <1>4 DEF OrdersUsed
<1>8. Known'
  BY <1>1, <1>3, <1>4 DEF Known, Working, TrueReport
<1> QED BY <1>2, <1>3, <1>4, <1>5, <1>6, <1>7, <1>8

\* Every step keeps Base: one step per action of RNext.
LEMMA NextBase == Base /\ [RNext]_rvars => Base'
<1> SUFFICES ASSUME Base, [RNext]_rvars PROVE Base'
  OBVIOUS
<1> USE DEF Base
<1>1. CASE Crash
  <2>1. chan' \in Seq(Report) /\ \A i \in 1..Len(chan') : TrueReport(chan'[i])
    <3>1. CASE chan' = chan
      BY <3>1 DEF TypeOK, ReportsTrue
    <3>2. CASE chan' = <<>>
      BY <3>2
    <3> QED BY <1>1, <3>1, <3>2 DEF Crash
  <2>2. TypeOK' /\ ReportsTrue'
    BY <1>1, <2>1 DEF Crash, TypeOK, ReportsTrue, TrueReport, Working
  <2> QED BY <1>1, <2>2 DEF Crash, Phases, CallsWhileUp, OrdersUsed, Known, Registered
<1>2. CASE Restart \/ PositionFails \/ OrdersFail
  <2>1. TypeOK' /\ ReportsTrue' /\ UNCHANGED <<vars, ordersRead>>
        /\ phase' \in Phases /\ phase # "up" /\ Registered' = Registered
    BY <1>2 DEF Restart, PositionFails, OrdersFail, vars, Phases, TypeOK, ReportsTrue,
                TrueReport, Working, Registered
  <2> QED BY <2>1 DEF vars, CallsWhileUp, OrdersUsed, Known
<1>3. CASE ReconcilePosition
  <2>1. TypeOK' /\ ReportsTrue'
    BY <1>3 DEF ReconcilePosition, engine, manager, broker, TypeOK, BookEntry, ReportsTrue,
                TrueReport, Working
  <2> QED BY <1>3, <2>1 DEF ReconcilePosition, engine, manager, broker, Phases, CallsWhileUp,
                            OrdersUsed, Known, Registered
<1>4. CASE ReconcileOrders
  <2>1. /\ pendingExits' \subseteq Orders /\ pendingEntries' \subseteq Orders
        /\ Registered' = OpenOrders /\ pendingEntries' \cap pendingExits' = {}
    BY <1>4 DEF ReconcileOrders, ClassifiedExits, OpenOrders, Registered
  <2>2. TypeOK' /\ ReportsTrue'
    BY <1>4, <2>1 DEF ReconcileOrders, broker, TypeOK, BookEntry, ReportsTrue, TrueReport, Working
  <2> QED BY <1>4, <2>1, <2>2 DEF ReconcileOrders, broker, OpenOrders, Phases,
                 CallsWhileUp, OrdersUsed, Known, Working
<1>5. CASE Trading
  <2>1. phase = "up" /\ phase' = phase /\ ordersRead' = ordersRead
    BY <1>5, TradingCases
  <2>2. ASSUME NEW o \in Orders, NEW k \in Kind, Placed(o, k)
        PROVE  Base'
    BY <2>2, PlacedBase
  <2>3. CASE CountEntry
    <3>1. TypeOK' /\ ReportsTrue'
      BY <2>3 DEF CountEntry, broker, TypeOK, ReportsTrue, TrueReport, Working
    <3> QED BY <2>1, <2>3, <3>1 DEF CountEntry, broker, CallsWhileUp, OrdersUsed, Known,
                                    Working, Registered
  <2>4. CASE RegisterEntry \/ RegisterExit
    <3>1. /\ pc # "idle" /\ Registered' = Registered \cup {cur} /\ pc' = "idle"
          /\ cumFills' = cumFills /\ book' = book /\ chan' = chan /\ delivered' = delivered
          /\ dryRun' = dryRun /\ cur' = NoOrder /\ pos' = pos /\ applied' = applied /\ net' = net
          /\ unheard' = unheard
          /\ pendingEntries' \subseteq pendingEntries \cup {cur}
          /\ pendingExits' \subseteq pendingExits \cup {cur}
          /\ pendingEntries' = pendingEntries \/ pendingExits' = pendingExits
      BY <2>4 DEF RegisterEntry, RegisterExit, Registered, broker
    <3>2. cur \in Orders /\ cur \notin Registered /\ book[cur].status # "unused"
      BY <3>1 DEF CallsWhileUp
    <3>3. TypeOK' /\ ReportsTrue'
      BY <3>1, <3>2 DEF TypeOK, ReportsTrue, TrueReport, Working
    <3>4. pendingEntries' \cap pendingExits' = {}
      BY <3>1, <3>2 DEF OrdersUsed, Registered
    <3> QED BY <2>1, <3>1, <3>2, <3>3, <3>4 DEF CallsWhileUp, OrdersUsed, Known, Working
  <2> QED BY <1>5, <2>2, <2>3, <2>4, TradingCases
<1>6. CASE Broker
  BY <1>6, EventBase
<1>7. CASE Reports
  BY <1>7, ReportBase
<1>8. CASE UNCHANGED rvars
  BY <1>8 DEF rvars, vars, TypeOK, ReportsTrue, TrueReport, CallsWhileUp, OrdersUsed,
              Known, Working, Registered
<1> QED BY <1>1, <1>2, <1>3, <1>4, <1>5, <1>6, <1>7, <1>8 DEF RNext

\* Whatever is lost, filled, overlapping or failed around a restart, once its
\* orders request has succeeded the manager knows every order that works, but
\* for those whose own call raised since.
THEOREM AllWorkingKnown == RSpec => []WorkingKnown
<1>1. Base => WorkingKnown
  BY DEF Base, Known, WorkingKnown
<1> QED BY <1>1, InitBase, NextBase, PTL DEF RSpec
-----------------------------------------------------------------------------
(* No fill is booked twice, but those of an exit taken over.               *)

LEMMA InitCounted == RInit => Counted
BY DEF RInit, Fresh, Counted, Registered

LEMMA PlacedCounted ==
    ASSUME Base, Counted, NEW o \in Orders, NEW k \in Kind, Placed(o, k)
    PROVE  Counted'
<1>1. /\ \A x \in Orders : x # o => book'[x] = book[x]
      /\ book'[o].status = "working" /\ book'[o].cum = 0
      /\ cumFills' = cumFills /\ Registered' = Registered
  BY PlacedFacts DEF Base
<1>2. /\ book[o].status = "unused" /\ applied' = applied /\ takenOver' = takenOver
      /\ pc = "idle" /\ phase = "up" /\ phase' = phase
      /\ pc' # "idle" => cur' = o
  BY DEF Placed
<1>3. applied[o] = 0 /\ cumFills[o] = 0
  BY <1>2 DEF Counted
<1>4. \A x \in Orders :
        /\ cumFills'[x] <= book'[x].cum
        /\ x \notin takenOver' => applied'[x] <= book'[x].cum
        /\ x \in Registered' \ takenOver' => applied'[x] <= cumFills'[x]
        /\ book'[x].status = "unused" => applied'[x] = 0 /\ cumFills'[x] = 0
  BY <1>1, <1>2, <1>3 DEF Counted
<1> QED BY <1>2, <1>3, <1>4 DEF Counted

LEMMA EventCounted ==
    ASSUME Base, Counted, Broker
    PROVE  Counted'
<1>1. /\ book' \in [Orders -> BookEntry]
      /\ \A x \in Orders : /\ book[x].cum <= book'[x].cum
                           /\ book'[x].status = "unused" <=> book[x].status = "unused"
      /\ UNCHANGED <<engine, manager, applied, phase, takenOver>>
  BY EventStep DEF Base
<1>2. /\ Registered' = Registered /\ cumFills' = cumFills /\ applied' = applied
      /\ takenOver' = takenOver /\ phase' = phase /\ pc' = pc /\ cur' = cur
  BY <1>1 DEF Registered, engine, manager
<1>3. \A x \in Orders : /\ book[x].cum \in Nat /\ book'[x].cum \in Nat
                        /\ cumFills[x] \in Nat /\ applied[x] \in Nat
  BY <1>1 DEF Base, TypeOK, BookEntry
<1>4. ASSUME NEW x \in Orders
      PROVE  /\ cumFills[x] <= book'[x].cum
             /\ x \notin takenOver => applied[x] <= book'[x].cum
  BY <1>1, <1>3 DEF Counted
<1> QED BY <1>1, <1>2, <1>4 DEF Counted

LEMMA ReportCounted ==
    ASSUME Base, Counted, Reports
    PROVE  Counted'
<1>1. PICK r \in Report : TrueReport(r) /\ HandleReport(r)
  BY ReportTaken DEF Reports, Base
<1>2. /\ cumFills' \in [Orders -> Nat] /\ applied' \in [Orders -> Nat]
      /\ Registered' \subseteq Registered
      /\ \A o \in Orders : o # r.id => applied'[o] = applied[o] /\ cumFills'[o] = cumFills[o]
      /\ r.id \notin Registered => applied' = applied
      /\ cumFills'[r.id] \in {0, r.cum, cumFills[r.id]}
      /\ \/ r.id \notin Registered' /\ applied'[r.id] = applied[r.id]
         \/ r.id \notin Registered'
              /\ applied'[r.id] <= applied[r.id] + (r.cum - cumFills[r.id])
         \/ cumFills'[r.id] = r.cum /\ cumFills[r.id] <= r.cum
              /\ applied'[r.id] <= applied[r.id] + (r.cum - cumFills[r.id])
         \/ cumFills' = cumFills /\ applied' = applied
      /\ pc' = pc /\ cur' = cur /\ book' = book
  BY <1>1, HandleFacts DEF Base, OrdersUsed, Registered
<1>3. phase' = phase /\ takenOver' = takenOver
  BY DEF Reports
<1>4. /\ r.id \in Orders /\ r.cum \in Nat /\ book[r.id].cum \in Nat
      /\ r.cum <= book[r.id].cum /\ book[r.id].status # "unused"
      /\ cumFills[r.id] \in Nat /\ applied[r.id] \in Nat
      /\ cumFills'[r.id] \in Nat /\ applied'[r.id] \in Nat
  BY <1>1, <1>2 DEF TrueReport, Report, Base, TypeOK, BookEntry
<1>5. pc' # "idle" => applied'[cur'] = 0
  <2>1. pc # "idle" => cur \in Orders /\ cur \notin Registered /\ applied[cur] = 0
    BY DEF Base, CallsWhileUp, Counted
  <2> QED BY <1>2, <2>1
<1>6. cumFills'[r.id] <= book[r.id].cum
  BY <1>2, <1>4 DEF Counted
<1>7. ASSUME r.id \notin takenOver
      PROVE  /\ applied'[r.id] <= book[r.id].cum
             /\ r.id \in Registered' => applied'[r.id] <= cumFills'[r.id]
  <2>1. applied[r.id] <= book[r.id].cum
        /\ (r.id \in Registered => applied[r.id] <= cumFills[r.id])
    BY <1>4, <1>7 DEF Counted
  <2>2. CASE applied'[r.id] = applied[r.id]
    <3>1. r.id \in Registered' => cumFills'[r.id] = cumFills[r.id] \/ applied[r.id] <= cumFills'[r.id]
      BY <1>2, <1>4, <2>1
    <3> QED BY <1>2, <2>1, <2>2, <3>1
  <2>3. CASE applied'[r.id] # applied[r.id]
    <3>1. r.id \in Registered /\ applied'[r.id] <= applied[r.id] + (r.cum - cumFills[r.id])
          /\ (r.id \in Registered' => cumFills'[r.id] = r.cum)
      BY <1>2, <2>3
    <3>2. applied[r.id] <= cumFills[r.id]
      BY <2>1, <3>1
    <3>3. applied'[r.id] <= r.cum
      BY <1>4, <3>1, <3>2
    <3> QED BY <1>4, <3>1, <3>3
  <2> QED BY <2>2, <2>3
<1>8. ASSUME NEW x \in Orders
      PROVE  /\ cumFills'[x] <= book[x].cum
             /\ x \notin takenOver => applied'[x] <= book[x].cum
             /\ x \in Registered' \ takenOver => applied'[x] <= cumFills'[x]
             /\ book[x].status = "unused" => applied'[x] = 0 /\ cumFills'[x] = 0
  <2>1. CASE x = r.id
    BY <1>4, <1>6, <1>7, <2>1
  <2>2. CASE x # r.id
    BY <1>2, <2>2 DEF Counted
  <2> QED BY <2>1, <2>2
<1> QED BY <1>2, <1>3, <1>5, <1>8 DEF Counted

LEMMA NextCounted == Base /\ Counted /\ [RNext]_rvars => Counted'
<1> SUFFICES ASSUME Base, Counted, [RNext]_rvars PROVE Counted'
  OBVIOUS
<1>a. \A x \in Orders : book[x].cum \in Nat /\ applied[x] \in Nat /\ cumFills[x] \in Nat
  BY DEF Base, TypeOK, BookEntry
<1>1. CASE Crash
  BY <1>1, <1>a DEF Crash, Counted, Registered
<1>2. CASE Restart \/ PositionFails \/ OrdersFail
  BY <1>2 DEF Restart, PositionFails, OrdersFail, vars, Counted, Registered
<1>3. CASE ReconcilePosition
  BY <1>3, <1>a DEF ReconcilePosition, engine, manager, broker, Counted, Registered, Base,
                    CallsWhileUp, OrdersUsed
<1>4. CASE ReconcileOrders
  <2>1. /\ phase' = "up" /\ pc = "idle" /\ pc' = pc /\ applied' = applied /\ book' = book
        /\ takenOver = {} /\ takenOver' = ClassifiedExits
        /\ Registered' \ takenOver' = OpenOrders \ ClassifiedExits
    BY <1>4 DEF ReconcileOrders, broker, Counted, Base, CallsWhileUp, Registered
  <2>2. ASSUME NEW x \in Orders
        PROVE  /\ cumFills'[x] = IF x \in OpenOrders \ ClassifiedExits THEN book[x].cum ELSE 0
               /\ applied[x] <= book[x].cum
               /\ x \in OpenOrders => book[x].status # "unused"
    BY <1>4, <2>1 DEF ReconcileOrders, Counted, OpenOrders, Working
  <2>3. ASSUME NEW x \in Orders
        PROVE  /\ cumFills'[x] <= book[x].cum
               /\ x \in Registered' \ takenOver' => applied[x] <= cumFills'[x]
               /\ book[x].status = "unused" => applied[x] = 0 /\ cumFills'[x] = 0
    <3>1. book[x].status = "unused" => applied[x] = 0
      BY DEF Counted
    <3> QED BY <1>a, <2>1, <2>2, <3>1
  <2> QED BY <2>1, <2>2, <2>3 DEF Counted
<1>5. CASE Trading
  <2>1. phase = "up" /\ phase' = phase /\ takenOver' = takenOver
    BY <1>5, TradingCases
  <2>2. ASSUME NEW o \in Orders, NEW k \in Kind, Placed(o, k)
        PROVE  Counted'
    BY <2>2, PlacedCounted
  <2>3. CASE CountEntry
    <3>1. /\ cur \in Orders /\ cur \notin Registered /\ applied[cur] = 0
          /\ cumFills' = [cumFills EXCEPT ![cur] = 0] /\ cur' = cur /\ applied' = applied
          /\ book' = book /\ Registered' = Registered /\ cumFills \in [Orders -> Nat]
      BY <2>3 DEF CountEntry, Base, CallsWhileUp, Counted, Registered, broker, TypeOK
    <3> QED BY <1>a, <2>1, <3>1 DEF Counted
  <2>4. CASE RegisterEntry \/ RegisterExit
    <3>1. /\ pc # "idle" /\ Registered' = Registered \cup {cur} /\ pc' = "idle"
          /\ cumFills' = cumFills /\ book' = book /\ applied' = applied
      BY <2>4 DEF RegisterEntry, RegisterExit, Registered, broker
    <3>2. cur \in Orders /\ applied[cur] = 0
      BY <3>1 DEF Base, CallsWhileUp, Counted
    <3> QED BY <1>a, <2>1, <3>1, <3>2 DEF Counted
  <2> QED BY <1>5, <2>2, <2>3, <2>4, TradingCases
<1>6. CASE Broker
  BY <1>6, EventCounted
<1>7. CASE Reports
  BY <1>7, ReportCounted
<1>8. CASE UNCHANGED rvars
  BY <1>8 DEF rvars, vars, Counted, Registered
<1> QED BY <1>1, <1>2, <1>3, <1>4, <1>5, <1>6, <1>7, <1>8 DEF RNext

\* Of a taken-over entry, and of every order a process sends itself, no fill is
\* booked twice, on top of the fetched position or by a resent report, for any
\* orders, quantities, failed requests and number of restarts.
THEOREM CountedOnceAcrossRestarts == RSpec => []CountedOnce
<1>1. Counted => CountedOnce
  BY DEF Counted, CountedOnce
<1>2. RInit => Base /\ Counted
  BY InitBase, InitCounted
<1>3. Base /\ Counted /\ [RNext]_rvars => Base' /\ Counted'
  BY NextBase, NextCounted
<1> QED BY <1>1, <1>2, <1>3, PTL DEF RSpec
-----------------------------------------------------------------------------
(* Only a start that loses hold of a working exit makes room for another.  *)

LEMMA NextExits == Base /\ ExitsHeld /\ [RNext]_rvars => ExitsHeld'
<1> SUFFICES ASSUME Base, ExitsHeld, [RNext]_rvars PROVE ExitsHeld'
  OBVIOUS
<1> USE DEF HeardExit, Working
<1>1. CASE Crash
  BY <1>1 DEF Crash, ExitsHeld
<1>2. CASE Restart \/ PositionFails
  BY <1>2 DEF Restart, PositionFails, vars, ExitsHeld
<1>3. CASE OrdersFail
  BY <1>3 DEF OrdersFail, OpenExits, vars, ExitsHeld
<1>4. CASE ReconcilePosition
  BY <1>4 DEF ReconcilePosition, engine, broker, ExitsHeld
<1>5. CASE ReconcileOrders
  <2>1. SUFFICES ASSUME ~astray'
                 PROVE  /\ \A x, y \in Orders : HeardExit(x)' /\ HeardExit(y)' => x = y
                        /\ \A o \in Orders : HeardExit(o)' => o \in pendingExits'
    BY DEF ExitsHeld
  <2>2. /\ ~astray /\ OpenExits \cap unheard = {} /\ OpenExits \subseteq ClassifiedExits
        /\ pendingExits' = ClassifiedExits /\ book' = book
    BY <1>5, <2>1 DEF ReconcileOrders, LosesHold, broker
  <2>3. \A o \in Orders : HeardExit(o)' => o \in OpenExits /\ HeardExit(o)
    BY <2>2 DEF OpenExits
  <2> QED BY <2>2, <2>3 DEF ExitsHeld
<1>6. CASE Trading
  <2>1. phase = "up" /\ phase' = phase /\ astray' = astray
    BY <1>6, TradingCases
  <2>2. ASSUME NEW o \in Orders, NEW k \in Kind, Placed(o, k)
        PROVE  ExitsHeld'
    <3>1. /\ \A x \in Orders : x # o => book'[x] = book[x]
          /\ book'[o].kind = k /\ pendingExits' = pendingExits
      BY <2>2, PlacedFacts DEF Base
    <3>2. /\ pc = "idle"
          /\ \/ /\ pc' = (IF k = "exit" THEN "exitPlaced" ELSE "entryPlaced")
                /\ cur' = o /\ unheard' = unheard
             \/ pc' = pc /\ unheard' = unheard \cup {o}
          /\ k = "exit" => pendingExits = {}
      BY <2>2 DEF Placed
    <3>3. CASE HeardExit(o)'
      <4>1. k = "exit" /\ pc' = "exitPlaced" /\ cur' = o /\ unheard' = unheard
        BY <3>1, <3>2, <3>3
      <4>2. ~astray => \A x \in Orders : x # o => ~HeardExit(x)'
        BY <2>1, <3>1, <3>2, <4>1 DEF ExitsHeld
      <4> QED BY <2>1, <4>1, <4>2 DEF ExitsHeld
    <3>4. CASE ~HeardExit(o)'
      <4>1. \A x \in Orders : HeardExit(x)' => HeardExit(x)
        BY <3>1, <3>2, <3>4
      <4> QED BY <2>1, <3>1, <3>2, <4>1 DEF ExitsHeld
    <3> QED BY <3>3, <3>4
  <2>3. CASE CountEntry
    BY <2>1, <2>3 DEF CountEntry, broker, ExitsHeld
  <2>4. CASE RegisterEntry
    BY <2>1, <2>4 DEF RegisterEntry, broker, ExitsHeld
  <2>5. CASE RegisterExit
    BY <2>1, <2>5 DEF RegisterExit, broker, ExitsHeld
  <2> QED BY <1>6, <2>2, <2>3, <2>4, <2>5, TradingCases
<1>7. CASE Broker
  <2>1. /\ \A x \in Orders : book'[x].kind = book[x].kind /\ (Working(x)' => Working(x))
        /\ UNCHANGED <<engine, manager, phase, astray>>
    BY <1>7, EventStep DEF Base
  <2>2. \A x \in Orders : HeardExit(x)' => HeardExit(x)
    BY <2>1 DEF engine
  <2> QED BY <2>1, <2>2 DEF engine, manager, ExitsHeld
<1>8. CASE Reports
  <2>1. PICK r \in Report : TrueReport(r) /\ HandleReport(r)
    BY <1>8, ReportTaken DEF Reports, Base
  <2>2. /\ pendingExits \ pendingExits' \subseteq {r.id}
        /\ r.st = "partial" => pendingExits' = pendingExits
        /\ UNCHANGED <<pc, cur, book, unheard>>
    BY <2>1, HandleFacts DEF Base, OrdersUsed
  <2>3. phase' = phase /\ astray' = astray
    BY <1>8 DEF Reports
  <2>4. r.st # "partial" => ~HeardExit(r.id)
    BY <2>1 DEF TrueReport
  <2>5. \A x \in Orders : HeardExit(x)' => HeardExit(x)
    BY <2>2
  <2> QED BY <2>2, <2>3, <2>4, <2>5 DEF ExitsHeld
<1>9. CASE UNCHANGED rvars
  BY <1>9 DEF rvars, vars, ExitsHeld
<1> QED BY <1>1, <1>2, <1>3, <1>4, <1>5, <1>6, <1>7, <1>8, <1>9 DEF RNext

\* Two exits never work at once, restarts and overlapping entries included,
\* unless some start lost hold of a working one; with or without a callback
\* thread.
THEOREM SingleExitAcrossRestarts == RSpec => []OneExitAcrossRestarts
<1>1. RInit => Base /\ ExitsHeld
  BY InitBase DEF RInit, Fresh, ExitsHeld, HeardExit, Working
<1>2. Base /\ ExitsHeld /\ [RNext]_rvars => Base' /\ ExitsHeld'
  BY NextBase, NextExits
<1>3. ExitsHeld => OneExitAcrossRestarts
  BY DEF ExitsHeld, HeardExit, OneExitAcrossRestarts, OneExitWorking
<1> QED BY <1>1, <1>2, <1>3, PTL DEF RSpec
=============================================================================
