--------------------------- MODULE MCPaperEngine ---------------------------
(* PaperEngine for TLC: a Monday of half-hour bars, or of 45-minute bars,    *)
(* whose 12:45 bucket starts before the session; two working entries at      *)
(* most, quantities up to 2.                                                *)
EXTENDS PaperEngine, TLC

\* config/schemas/paper.py as shipped.
Shipped == [mode |-> "live", freq |-> 30, forceFlat |-> TRUE, preclose |-> 4,
            lastCandle |-> TRUE, cutoff |-> 0, late |-> FALSE, defer |-> FALSE,
            closeOnShutdown |-> FALSE, calm |-> TRUE]

\* Live with the last-candle test and a cutoff of one bar; live with the
\* pre-close window alone; dry runs on the 45-minute bars with a cutoff and,
\* so that a position may reach the lunch bucket, without; a replayed day, whose
\* cutoff is lifted, and one with it.
Careful == [Shipped EXCEPT !.cutoff = 30]
Preclosing == [Shipped EXCEPT !.freq = 45, !.preclose = 45, !.lastCandle = FALSE,
                              !.cutoff = 45, !.defer = TRUE, !.closeOnShutdown = TRUE]
DryRun == [Careful EXCEPT !.mode = "dry", !.freq = 45, !.cutoff = 45, !.defer = TRUE]
LateDryRun == [DryRun EXCEPT !.cutoff = 0]
Replay == [Shipped EXCEPT !.mode = "sim", !.cutoff = 30, !.late = TRUE, !.defer = TRUE,
                          !.closeOnShutdown = TRUE]
LongReplay == [Replay EXCEPT !.freq = 45, !.cutoff = 45, !.late = FALSE]

\* The two ways of recognising the session's end, in a rough market.
Rough == {[Shipped EXCEPT !.calm = FALSE], [Preclosing EXCEPT !.calm = FALSE]}

EverySetting == {Careful, Preclosing, DryRun, LateDryRun, Replay, LongReplay} \cup Rough
ShippedOnly == {Shipped}
=============================================================================
