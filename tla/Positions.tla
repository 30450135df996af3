----------------------------- MODULE Positions -----------------------------
(***************************************************************************)
(* What a fill does to the tracked position: the quantity arithmetic of    *)
(* Tracker.record_open and Tracker.record_close, and the side of an exit.  *)
(* A position is an integer: positive long, negative short, 0 flat.        *)
(***************************************************************************)
EXTENDS Integers

Side == {"BUY", "SELL"}

\* The size of an exit.
Magnitude(p) == IF p < 0 THEN -p ELSE p
Smaller(a, b) == IF a <= b THEN a ELSE b
Signed(s, q) == IF s = "BUY" THEN q ELSE -q

\* Side of the order that closes position p.
ExitSide(p) == IF p > 0 THEN "SELL" ELSE "BUY"

\* Does record_open book a fill on side s when the position is p?
\* Mutant: the test for a reversing fill is gone.
OpensAnyway(p, s) == TRUE
Opens(p, s) == \/ p = 0
               \/ p > 0 /\ s = "BUY"
               \/ p < 0 /\ s = "SELL"

\* Tracker.record_open: open, scale in, or ignore a fill that would reverse.
RecordOpen(p, s, q) == IF Opens(p, s) THEN p + Signed(s, q) ELSE p

\* Tracker.record_close: reduce towards flat, never through it.
RecordClose(p, q) ==
    LET k == Smaller(q, Magnitude(p)) IN IF p > 0 THEN p - k ELSE p + k
=============================================================================
