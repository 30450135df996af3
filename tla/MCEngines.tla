----------------------------- MODULE MCEngines -----------------------------
(* Both engines for TLC: five bars of five minutes around the moments that   *)
(* matter, small prices, a strategy that may answer anything in Answers.     *)
EXTENDS Engines

\* The close with and without an auction bar, and the day after; lunch; the
\* middle of a session.
Tuesday == MinutesPerDay
Days ==
    {<<HM(14, 15), HM(14, 20), HM(14, 25), HM(14, 30), Tuesday + HM(9, 0)>>,
     <<HM(14, 15), HM(14, 20), HM(14, 25), Tuesday + HM(9, 0), Tuesday + HM(9, 5)>>,
     <<HM(11, 15), HM(11, 20), HM(11, 25), HM(13, 0), HM(13, 5)>>,
     <<HM(10, 0), HM(10, 5), HM(10, 10), HM(10, 15), HM(10, 20)>>}

Prices(o, h, l, c) == [open |-> o, high |-> h, low |-> l, close |-> c]
Quiet == Prices(5, 5, 5, 5)
Wide == Prices(5, 7, 3, 5)
Rising == Prices(5, 6, 5, 6)
Falling == Prices(5, 5, 4, 4)
GapUp == Prices(8, 8, 8, 8)
GapDown == Prices(3, 3, 3, 3)
AllShapes == {Quiet, Wide, Rising, Falling, GapUp, GapDown}

Answer(k, o, p, s, t) == [kind |-> k, ord |-> o, price |-> p, sl |-> s, tp |-> t]
Answers ==
    {Answer("hold", "LIMIT", 0, 0, 0),
     Answer("exit", "LIMIT", 0, 0, 0),
     Answer("long", "MARKET", 0, 4, 7),
     Answer("long", "LIMIT", 4, 3, 6),
     Answer("short", "LIMIT", 6, 7, 4)}
=============================================================================
