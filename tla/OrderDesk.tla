----------------------------- MODULE OrderDesk -----------------------------
(***************************************************************************)
(* What OrderManager promises the handlers that call it, without broker,   *)
(* reports or dictionaries.  An entry or the one exit is an amount still   *)
(* to be booked; fills book it in parts, an end of the order drops it.     *)
(***************************************************************************)
EXTENDS Positions

CONSTANTS
    Orders,     \* client order ids
    MaxQty      \* largest quantity the position sizer returns

ASSUME DeskAssumption == MaxQty \in Nat \ {0}

VARIABLES
    dryRun,     \* fills are booked on the spot, no order is created
    pos,        \* Tracker's position
    entering,   \* entries in progress: id, side and the quantity left to book
    exiting     \* quantity left to book of the exit in progress, 0 if there is none

desk == <<dryRun, pos, entering, exiting>>

EntryRecord == [id : Orders, side : Side, left : Nat]

DeskInit ==
    /\ dryRun \in BOOLEAN
    /\ pos = 0
    /\ entering = {}
    /\ exiting = 0

\* submit_entry: SignalHandler calls it only when the tracker is flat.
Enter(o, s, q) ==
    /\ ~dryRun
    /\ pos = 0
    /\ \A e \in entering : e.id # o
    /\ entering' = entering \cup {[id |-> o, side |-> s, left |-> q]}
    /\ UNCHANGED <<dryRun, pos, exiting>>

EnterDry(s, q) ==
    /\ dryRun
    /\ pos = 0
    /\ pos' = RecordOpen(pos, s, q)
    /\ UNCHANGED <<dryRun, entering, exiting>>

\* k contracts of an entry are booked; the last of them ends it.
EntryFills(e, k) ==
    /\ pos' = RecordOpen(pos, e.side, k)
    /\ entering' = (entering \ {e}) \cup
           (IF k < e.left THEN {[e EXCEPT !.left = e.left - k]} ELSE {})
    /\ UNCHANGED <<dryRun, exiting>>

EntryDropped(e) ==
    /\ entering' = entering \ {e}
    /\ UNCHANGED <<dryRun, pos, exiting>>

\* submit_exit: refused while an exit is in progress and when flat.
Exit ==
    /\ ~dryRun
    /\ exiting = 0
    /\ pos # 0
    /\ exiting' = Magnitude(pos)
    /\ UNCHANGED <<dryRun, pos, entering>>

ExitDry ==
    /\ dryRun
    /\ exiting = 0
    /\ pos # 0
    /\ pos' = RecordClose(pos, Magnitude(pos))
    /\ UNCHANGED <<dryRun, entering, exiting>>

\* k contracts of the exit are booked; its last one leaves the tracker flat,
\* whatever entries added in the meantime.
ExitFills(k) ==
    /\ exiting' = exiting - k
    /\ pos' = IF k = exiting THEN 0 ELSE RecordClose(pos, k)
    /\ UNCHANGED <<dryRun, entering>>

ExitDropped ==
    /\ exiting > 0
    /\ exiting' = 0
    /\ UNCHANGED <<dryRun, pos, entering>>

Submits ==
    \/ \E o \in Orders, s \in Side, q \in 1..MaxQty : Enter(o, s, q)
    \/ \E s \in Side, q \in 1..MaxQty : EnterDry(s, q)
    \/ Exit
    \/ ExitDry

Outcomes ==
    \/ \E e \in entering : \E k \in 1..e.left : EntryFills(e, k)
    \/ \E e \in entering : EntryDropped(e)
    \/ \E k \in 1..exiting : ExitFills(k)
    \/ ExitDropped

DeskNext == Submits \/ Outcomes

DeskSpec == DeskInit /\ [][DeskNext]_desk
=============================================================================
