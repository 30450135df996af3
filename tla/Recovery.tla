------------------------------ MODULE Recovery ------------------------------
(***************************************************************************)
(* Restarting the paper trader.  The process may stop anywhere; what it    *)
(* kept in memory is gone, the broker's orders work on.  At the next start *)
(* Reconciler fetches the position and then the open orders, two requests  *)
(* between which the broker may fill an order, each of which may fail and  *)
(* is then skipped.  reconcile_cash, the request in between, touches       *)
(* neither.                                                                *)
(***************************************************************************)
EXTENDS OrderManager

CONSTANTS
    MaxCrashes,   \* bound on the number of restarts
    MayFail       \* which requests may fail: a subset of {"position", "orders"}

ASSUME RecoveryAssumption ==
    /\ MaxCrashes \in Nat
    /\ MayFail \subseteq {"position", "orders"}

VARIABLES
    phase,      \* how far PaperEngine.start has got
    crashes,    \* restarts so far (bounded by MaxCrashes)
    ordersRead, \* history: this start's orders request succeeded
    takenOver,  \* history: the orders this start filed as exits
    astray      \* history: some start lost hold of a working exit

rvars == <<vars, phase, crashes, ordersRead, takenOver, astray>>

\* The account may hold a position from before.
RInit ==
    /\ Fresh
    /\ net \in -MaxQty..MaxQty
    /\ ~dryRun
    /\ phase = "starting"
    /\ crashes = 0
    /\ ordersRead = FALSE
    /\ takenOver = {}
    /\ astray = FALSE

-----------------------------------------------------------------------------
\* The process ends; reports on their way are resent at the next logon or lost.
Crash ==
    /\ phase # "down"
    /\ crashes < MaxCrashes
    /\ crashes' = crashes + 1
    /\ phase' = "down"
    /\ pc' = "idle"
    /\ cur' = NoOrder
    /\ pendingEntries' = {}
    /\ pendingExits' = {}
    /\ cumFills' = [o \in Orders |-> 0]
    /\ pos' = 0
    /\ applied' = [o \in Orders |-> 0]
    /\ chan' \in {chan, <<>>}
    /\ ordersRead' = FALSE
    /\ takenOver' = {}
    /\ UNCHANGED <<dryRun, book, net, delivered, unheard, astray>>

Restart ==
    /\ phase = "down"
    /\ phase' = "starting"
    /\ UNCHANGED <<vars, crashes, ordersRead, takenOver, astray>>

\* reconcile_position: sync_position takes the broker's quantity over.
ReconcilePosition ==
    /\ phase = "starting"
    /\ phase' = "positioned"
    /\ pos' = net
    /\ applied' = [o \in Orders |-> book[o].cum]
    /\ UNCHANGED <<dryRun, engine, manager, broker, delivered, crashes, ordersRead,
                   takenOver, astray>>

PositionFails ==
    /\ phase = "starting"
    /\ "position" \in MayFail
    /\ phase' = "positioned"
    /\ UNCHANGED <<vars, crashes, ordersRead, takenOver, astray>>

\* The orders of the broker's answer that sync_open_orders keeps.
\* Mutant: orders already filled in part are skipped with the finished ones.
UnfilledOnly == {o \in Orders : Working(o) /\ book[o].cum = 0}
OpenOrders == {o \in Orders : Working(o)}

\* An open order is an exit if its side closes the tracked position.
ClassifiedExits == {o \in OpenOrders : pos # 0 /\ book[o].side = ExitSide(pos)}

\* A start goes astray if it files a working exit with the entries, or finds one
\* that the process before it had lost and may have sent another beside.
OpenExits == {o \in Orders : Working(o) /\ book[o].kind = "exit"}
LosesHold == OpenExits \cap unheard # {} \/ ~(OpenExits \subseteq ClassifiedExits)

\* Mutant of the next step: the counters are cleared and not set again.
ReconcileUncounted ==
    /\ phase = "positioned"
    /\ phase' = "up"
    /\ pendingExits' = ClassifiedExits
    /\ pendingEntries' = OpenOrders \ ClassifiedExits
    /\ cumFills' = [o \in Orders |-> 0]
    /\ ordersRead' = TRUE
    /\ takenOver' = ClassifiedExits
    /\ unheard' = {}
    /\ astray' = (astray \/ LosesHold)
    /\ UNCHANGED <<dryRun, pc, cur, pos, broker, delivered, applied, crashes>>

\* sync_open_orders: rebuild the three dictionaries; exits get no counter.  The
\* broker's answer has the orders whose call raised, too.
ReconcileOrders ==
    /\ phase = "positioned"
    /\ phase' = "up"
    /\ pendingExits' = ClassifiedExits
    /\ pendingEntries' = OpenOrders \ ClassifiedExits
    /\ cumFills' = [o \in Orders |->
                       IF o \in OpenOrders \ ClassifiedExits THEN book[o].cum ELSE 0]
    /\ ordersRead' = TRUE
    /\ takenOver' = ClassifiedExits
    /\ unheard' = {}
    /\ astray' = (astray \/ LosesHold)
    /\ UNCHANGED <<dryRun, pc, cur, pos, broker, delivered, applied, crashes>>

OrdersFail ==
    /\ phase = "positioned"
    /\ "orders" \in MayFail
    /\ phase' = "up"
    /\ astray' = (astray \/ OpenExits # {})
    /\ UNCHANGED <<vars, crashes, ordersRead, takenOver>>

\* The three parts of OrderManager's next-state relation, when they may run.
\* Mutant: bars are handled before the orders were asked for.
TradingEarly ==
    /\ phase \in {"positioned", "up"}
    /\ EngineStep
    /\ UNCHANGED <<phase, crashes, ordersRead, takenOver, astray>>
Trading ==
    /\ phase = "up"
    /\ EngineStep
    /\ UNCHANGED <<phase, crashes, ordersRead, takenOver, astray>>

Broker == BrokerStep /\ UNCHANGED <<phase, crashes, ordersRead, takenOver, astray>>

HandlesReports == phase \in (IF Threaded THEN {"starting", "positioned", "up"} ELSE {"up"})

Reports ==
    /\ HandlesReports
    /\ ReportStep
    /\ UNCHANGED <<phase, crashes, ordersRead, takenOver, astray>>

RNext ==
    \/ Crash
    \/ Restart
    \/ ReconcilePosition
    \/ PositionFails
    \/ ReconcileOrders
    \/ OrdersFail
    \/ Trading
    \/ Broker
    \/ Reports

RSpec == RInit /\ [][RNext]_rvars

-----------------------------------------------------------------------------
(* Properties.                                                             *)

\* Once the orders request of a start has succeeded no working order is unknown
\* to the manager, whatever was filled or canceled between the requests, however
\* entries overlap, whatever reports were lost and whether the position came: the
\* orders that an earlier process lost are found again.  Only one whose own call
\* raised since then is missing.
WorkingKnown ==
    ordersRead /\ pc = "idle" =>
        \A o \in Orders \ unheard : Working(o) => o \in Registered

\* So no second exit is sent while one works, restarts included.  The guess of
\* sync_open_orders may be wrong, when an entry works beside the exit or when a
\* request failed; but that a start lost hold of a working exit is the only way
\* to two of them.
OneExitAcrossRestarts == ~astray => OneExitWorking

\* Restarts count no fill twice but those of an exit taken over (for these see
\* NoDoubleCount): an entry's counter starts where the fetched position ends or
\* later, even for an exit mistaken for an entry, and whatever is resent.
CountedOnce == \A o \in Orders \ takenOver : applied[o] <= book[o].cum
=============================================================================
