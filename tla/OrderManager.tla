---------------------------- MODULE OrderManager ----------------------------
(***************************************************************************)
(* The live order path of the paper trader: OrderManager.submit_entry,     *)
(* submit_exit and on_execution_report, the part of Tracker they drive     *)
(* (the signed position), and the broker behind the FIX client.            *)
(*                                                                         *)
(* The engine's thread runs the submit calls.  place_order returns after   *)
(* the broker has the order; the dictionaries are written afterwards, one  *)
(* statement at a time, so a report handled in between finds an order the  *)
(* manager does not know yet.                                              *)
(***************************************************************************)
EXTENDS Positions, Sequences

CONSTANTS
    Orders,     \* client order ids, each used by at most one order
    NoOrder,    \* "no order": what cur holds between two submissions
    MaxQty,     \* largest quantity the position sizer returns
    Threaded    \* TRUE if the FIX client runs the report callback on its own thread

ASSUME OrderAssumption ==
    /\ NoOrder \notin Orders
    /\ MaxQty \in Nat \ {0}
    /\ Threaded \in BOOLEAN

VARIABLES
    dryRun,          \* _dry_run: orders are logged and filled locally
    pc,              \* where the engine's thread is inside a submit call
    cur,             \* the order that call has placed
    pendingEntries,  \* keys of _pending_entries
    pendingExits,    \* keys of _pending_exits
    cumFills,        \* _cum_fills, 0 standing for an absent key (as .get(id, 0) reads it)
    pos,             \* Tracker's position: positive long, negative short, 0 flat
    book,            \* the broker's orders
    net,             \* the broker's position in the instrument
    chan,            \* execution reports on their way, oldest first
    delivered,       \* reports handled so far, any of which may be resent
    applied,         \* history: quantity of each order's reports the tracker booked; what the
                     \* safety net closes on top of the reports is not part of it
    unheard          \* history: orders the broker took although place_order raised

engine == <<pc, cur, unheard>>
manager == <<pendingEntries, pendingExits, cumFills>>
broker == <<book, net, chan>>
vars == <<dryRun, pc, cur, pendingEntries, pendingExits, cumFills, pos,
          book, net, chan, delivered, applied, unheard>>

-----------------------------------------------------------------------------
Kind == {"entry", "exit"}
Status == {"unused", "working", "filled", "canceled"}

BookEntry == [status : Status, kind : Kind, side : Side,
              qty : Nat, cum : Nat]

\* "canceled" stands for FIX status 4 and 8, which the handler treats alike.
Report == [id : Orders, st : {"partial", "filled", "canceled"}, cum : Nat]

TypeOK ==
    /\ dryRun \in BOOLEAN
    /\ pc \in {"idle", "entryPlaced", "entryCounted", "exitPlaced"}
    /\ cur \in Orders \cup {NoOrder}
    /\ pendingEntries \subseteq Orders
    /\ pendingExits \subseteq Orders
    /\ cumFills \in [Orders -> Nat]
    /\ pos \in Int
    /\ book \in [Orders -> BookEntry]
    /\ net \in Int
    /\ chan \in Seq(Report)
    /\ delivered \subseteq Report
    /\ applied \in [Orders -> Nat]
    /\ unheard \subseteq Orders

\* A process that has sent nothing yet, at a broker that knows no order of ours.
Fresh ==
    /\ dryRun \in BOOLEAN
    /\ pc = "idle"
    /\ cur = NoOrder
    /\ pendingEntries = {}
    /\ pendingExits = {}
    /\ cumFills = [o \in Orders |-> 0]
    /\ pos = 0
    /\ book = [o \in Orders |-> [status |-> "unused", kind |-> "entry", side |-> "BUY",
                                 qty |-> 0, cum |-> 0]]
    /\ chan = <<>>
    /\ delivered = {}
    /\ applied = [o \in Orders |-> 0]
    /\ unheard = {}

Init == Fresh /\ net = 0

-----------------------------------------------------------------------------
Working(o) == book[o].status = "working"
Registered == pendingEntries \cup pendingExits

-----------------------------------------------------------------------------
(* The engine's thread.                                                    *)

Accept(o, k, s, q) ==
    book' = [book EXCEPT ![o] = [status |-> "working", kind |-> k, side |-> s,
                                 qty |-> q, cum |-> 0]]

\* SignalHandler asks for an entry whenever the tracker is flat, whatever is
\* still working at the broker.
PlaceEntry(o, s, q) ==
    /\ ~dryRun
    /\ pc = "idle"
    /\ pos = 0
    /\ book[o].status = "unused"
    /\ Accept(o, "entry", s, q)
    /\ pc' = "entryPlaced"
    /\ cur' = o
    /\ UNCHANGED <<dryRun, manager, pos, net, chan, delivered, applied, unheard>>

\* place_order raises although the broker has the order: it is logged and no
\* dictionary ever holds it.  (A call that raises before that changes nothing.)
EntryRaises(o, s, q) ==
    /\ ~dryRun
    /\ pc = "idle"
    /\ pos = 0
    /\ book[o].status = "unused"
    /\ Accept(o, "entry", s, q)
    /\ unheard' = unheard \cup {o}
    /\ UNCHANGED <<dryRun, pc, cur, manager, pos, net, chan, delivered, applied>>

\* Mutant of the next step: the id is dropped before it is registered.
CountEntryAndDrop ==
    /\ pc = "entryPlaced"
    /\ cumFills' = [cumFills EXCEPT ![cur] = 0]
    /\ pc' = "entryCounted"
    /\ cur' = NoOrder
    /\ UNCHANGED <<dryRun, pendingEntries, pendingExits, pos, broker, delivered, applied,
                   unheard>>

\* self._cum_fills[cl_ord_id] = 0
CountEntry ==
    /\ pc = "entryPlaced"
    /\ cumFills' = [cumFills EXCEPT ![cur] = 0]
    /\ pc' = "entryCounted"
    /\ UNCHANGED <<dryRun, cur, pendingEntries, pendingExits, pos, broker, delivered, applied,
                   unheard>>

\* self._pending_entries[cl_ord_id] = {...}
RegisterEntry ==
    /\ pc = "entryCounted"
    /\ pendingEntries' = pendingEntries \cup {cur}
    /\ pc' = "idle"
    /\ cur' = NoOrder
    /\ UNCHANGED <<dryRun, pendingExits, cumFills, pos, broker, delivered, applied, unheard>>

\* The two refusals of submit_exit.  Mutant: the pending-exit test is gone.
ExitAllowedAnyway == pos # 0
ExitAllowed == pendingExits = {} /\ pos # 0

\* submit_exit up to place_order.
PlaceExit(o) ==
    /\ ~dryRun
    /\ pc = "idle"
    /\ ExitAllowed
    /\ book[o].status = "unused"
    /\ Accept(o, "exit", ExitSide(pos), Magnitude(pos))
    /\ pc' = "exitPlaced"
    /\ cur' = o
    /\ UNCHANGED <<dryRun, manager, pos, net, chan, delivered, applied, unheard>>

ExitRaises(o) ==
    /\ ~dryRun
    /\ pc = "idle"
    /\ ExitAllowed
    /\ book[o].status = "unused"
    /\ Accept(o, "exit", ExitSide(pos), Magnitude(pos))
    /\ unheard' = unheard \cup {o}
    /\ UNCHANGED <<dryRun, pc, cur, manager, pos, net, chan, delivered, applied>>

\* self._pending_exits[cl_ord_id] = reason
RegisterExit ==
    /\ pc = "exitPlaced"
    /\ pendingExits' = pendingExits \cup {cur}
    /\ pc' = "idle"
    /\ cur' = NoOrder
    /\ UNCHANGED <<dryRun, pendingEntries, cumFills, pos, broker, delivered, applied, unheard>>

\* Dry-run: the fill is booked on the spot and no order id is created.
DryEntry(s, q) ==
    /\ dryRun
    /\ pos = 0
    /\ pos' = RecordOpen(pos, s, q)
    /\ UNCHANGED <<dryRun, engine, manager, broker, delivered, applied>>

DryExit ==
    /\ dryRun
    /\ ExitAllowed
    /\ pos' = RecordClose(pos, Magnitude(pos))
    /\ UNCHANGED <<dryRun, engine, manager, broker, delivered, applied>>

-----------------------------------------------------------------------------
(* The broker (external): fills a working order in parts, cancels or       *)
(* rejects it, and sends one report for each event, in order.              *)

\* The book entry after k more contracts, and the report an event sends.
Filled(b, k) ==
    [b EXCEPT !.cum = b.cum + k,
              !.status = IF b.cum + k = b.qty THEN "filled" ELSE "working"]

ReportOf(o, b) ==
    [id |-> o, cum |-> b.cum, st |-> IF b.status = "working" THEN "partial" ELSE b.status]

BrokerFill(o, k) ==
    /\ Working(o)
    /\ book' = [book EXCEPT ![o] = Filled(book[o], k)]
    /\ chan' = Append(chan, ReportOf(o, Filled(book[o], k)))
    /\ net' = net + Signed(book[o].side, k)
    /\ UNCHANGED <<dryRun, engine, manager, pos, delivered, applied>>

Canceled(b) == [b EXCEPT !.status = "canceled"]

BrokerCancel(o) ==
    /\ Working(o)
    /\ book' = [book EXCEPT ![o] = Canceled(book[o])]
    /\ chan' = Append(chan, ReportOf(o, Canceled(book[o])))
    /\ UNCHANGED <<dryRun, engine, manager, pos, net, delivered, applied>>

-----------------------------------------------------------------------------
(* OrderManager.on_execution_report, one alternative per path through it.  *)

\* Mutant of the next path: a canceled exit keeps its lock.
CanceledKeepsLock(r) ==
    /\ r.st = "canceled"
    /\ cumFills' = [cumFills EXCEPT ![r.id] = 0]
    /\ pendingEntries' = pendingEntries \ {r.id}
    /\ UNCHANGED <<pendingExits, pos, applied>>

\* Status 4 or 8: forget the order whatever it was.
ReportCanceled(r) ==
    /\ r.st = "canceled"
    /\ cumFills' = [cumFills EXCEPT ![r.id] = 0]
    /\ pendingEntries' = pendingEntries \ {r.id}
    /\ pendingExits' = pendingExits \ {r.id}
    /\ UNCHANGED <<pos, applied>>

IsFill(r) == r.st \in {"partial", "filled"}

\* The part of cum_qty not booked yet.  Mutant: cum_qty taken for the last fill.
WholeFill(r) == r.cum
Increment(r) == r.cum - cumFills[r.id]

\* incremental_qty <= 0: the handler returns before it looks at the status.
ReportStale(r) ==
    /\ IsFill(r)
    /\ Increment(r) <= 0
    /\ UNCHANGED <<manager, pos, applied>>

\* After a FILLED report the counter is dropped, otherwise it moves to cum_qty.
Recount(r) == cumFills' = [cumFills EXCEPT ![r.id] = IF r.st = "filled" THEN 0 ELSE r.cum]

ReportEntryFill(r) ==
    /\ IsFill(r)
    /\ Increment(r) > 0
    /\ r.id \in pendingEntries
    /\ pos' = RecordOpen(pos, book[r.id].side, Increment(r))
    /\ applied' = IF Opens(pos, book[r.id].side)
                  THEN [applied EXCEPT ![r.id] = @ + Increment(r)] ELSE applied
    /\ Recount(r)
    /\ pendingEntries' = IF r.st = "filled" THEN pendingEntries \ {r.id} ELSE pendingEntries
    /\ UNCHANGED pendingExits

\* The position after a report on an exit: the increment is booked up to the
\* open quantity, and a FILLED report closes whatever is left (the "safety
\* net").  Mutant: no safety net.
ExitLeavesRest(r) == RecordClose(pos, Increment(r))
ExitLeaves(r) == IF r.st = "filled" THEN 0 ELSE RecordClose(pos, Increment(r))

ReportExitFill(r) ==
    /\ IsFill(r)
    /\ Increment(r) > 0
    /\ r.id \notin pendingEntries
    /\ r.id \in pendingExits
    /\ pos' = ExitLeaves(r)
    /\ applied' = [applied EXCEPT ![r.id] = @ + Smaller(Increment(r), Magnitude(pos))]
    /\ Recount(r)
    /\ pendingExits' = IF r.st = "filled" THEN pendingExits \ {r.id} ELSE pendingExits
    /\ UNCHANGED pendingEntries

\* An id in neither dictionary: only _cum_fills remembers the report.
ReportUnknown(r) ==
    /\ IsFill(r)
    /\ Increment(r) > 0
    /\ r.id \notin Registered
    /\ cumFills' = [cumFills EXCEPT ![r.id] = r.cum]
    /\ UNCHANGED <<pendingEntries, pendingExits, pos, applied>>

HandleReport(r) ==
    /\ Threaded \/ pc = "idle"
    /\ \/ ReportCanceled(r)
       \/ ReportStale(r)
       \/ ReportEntryFill(r)
       \/ ReportExitFill(r)
       \/ ReportUnknown(r)
    /\ delivered' = delivered \cup {r}
    /\ UNCHANGED <<dryRun, engine, book, net>>

Deliver ==
    /\ chan # <<>>
    /\ HandleReport(Head(chan))
    /\ chan' = Tail(chan)

\* A FIX resend: a report the handler has already seen arrives again.
Redeliver(r) ==
    /\ r \in delivered
    /\ HandleReport(r)
    /\ UNCHANGED chan

-----------------------------------------------------------------------------
EngineStep ==
    \/ \E o \in Orders, s \in Side, q \in 1..MaxQty : PlaceEntry(o, s, q)
    \/ \E o \in Orders, s \in Side, q \in 1..MaxQty : EntryRaises(o, s, q)
    \/ CountEntry
    \/ RegisterEntry
    \/ \E o \in Orders : PlaceExit(o)
    \/ \E o \in Orders : ExitRaises(o)
    \/ RegisterExit
    \/ \E s \in Side, q \in 1..MaxQty : DryEntry(s, q)
    \/ DryExit

BrokerStep ==
    \/ \E o \in Orders : \E k \in 1..(book[o].qty - book[o].cum) : BrokerFill(o, k)
    \/ \E o \in Orders : BrokerCancel(o)

ReportStep ==
    \/ Deliver
    \/ \E r \in delivered : Redeliver(r)

Next == EngineStep \/ BrokerStep \/ ReportStep

Spec == Init /\ [][Next]_vars

\* The event loop finishes a call it has begun and a sent report arrives.
\* Nothing makes the broker finish an order, nor the strategy submit one.
Fairness == WF_vars(CountEntry \/ RegisterEntry \/ RegisterExit) /\ WF_vars(Deliver)

FairSpec == Spec /\ Fairness

-----------------------------------------------------------------------------
(* Properties.                                                             *)

\* Of the exits whose place_order returned, at most one is ever working at the
\* broker: submit_exit refuses a second one while _pending_exits holds the
\* first, and the first leaves the dictionary only on a report that ends it.
OneExitWorking ==
    \A x, y \in Orders \ unheard :
        /\ Working(x) /\ book[x].kind = "exit"
        /\ Working(y) /\ book[y].kind = "exit"
        => x = y

\* No fill is booked twice: of each order's reports the tracker has booked at
\* most what the broker filled, however reports are resent or overtake
\* registration (the cum_qty arithmetic of on_execution_report; contracts that
\* the safety net closes come from no report).
NoDoubleCount == \A o \in Orders : applied[o] <= book[o].cum

\* No step turns a long position into a short one or back without passing
\* through flat (record_open ignores a reversing fill, record_close is capped).
NoReversal ==
    [][(pos > 0 => pos' >= 0) /\ (pos < 0 => pos' <= 0)]_vars

\* An order the broker has finished with is eventually forgotten, so that its
\* entry in _pending_exits does not block later exits for ever.
FinishedForgotten ==
    \A o \in Orders : (book[o].status \in {"filled", "canceled"}) ~> (o \notin Registered)

-----------------------------------------------------------------------------
\* The abstraction the handlers rely on: an order is in progress from
\* place_order until a report ends it, with the quantity not booked yet.
Outstanding(o) == book[o].qty - cumFills[o]
EntriesInProgress ==
    pendingEntries \cup (IF pc \in {"entryPlaced", "entryCounted"} THEN {cur} ELSE {})
ExitsInProgress == pendingExits \cup (IF pc = "exitPlaced" THEN {cur} ELSE {})

\* What the desk sees of an order in progress, of all entries, and of the exit.
Seen(o) == [id |-> o, side |-> book[o].side, left |-> Outstanding(o)]
SeenEntries == {Seen(o) : o \in EntriesInProgress}
SeenExit ==
    IF ExitsInProgress = {} THEN 0 ELSE Outstanding(CHOOSE o \in ExitsInProgress : TRUE)

Desk == INSTANCE OrderDesk WITH entering <- SeenEntries, exiting <- SeenExit

\* With the callback on the event loop, OrderManager behaves as OrderDesk:
\* one exit at a time, sized to the position, an order's parts booked once
\* each and in full, its end forgetting it, however reports are resent.
ImplementsDesk == Desk!DeskSpec
=============================================================================
