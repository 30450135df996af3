---------------------------- MODULE WarmupCache ----------------------------
(***************************************************************************)
(* load_with_cache: the trades of the last n days when the paper engine    *)
(* starts, past days from one file each, today always from the database.   *)
(***************************************************************************)
EXTENDS QuoteDatabase

CONSTANTS
    Window,     \* n_days
    Stamp(_)    \* the timestamp of a trade, given by its day and number

ASSUME WindowAssumption ==
    /\ Window \in Nat \ {0}
    /\ \A d \in Days, k, l \in 1..MaxTicks : k <= l => Stamp(<<d, k>>) <= Stamp(<<d, l>>)

VARIABLES
    dayFile,    \* a past day's file: "none", "torn" or "whole" with its trades
    primed      \* the last warm-up: what it returned, and history for the properties

dayVars == <<dayFile, primed>>

NoDay == [kind |-> "none", ticks |-> 0]
TornDay == [kind |-> "torn", ticks |-> 0]
WholeDay(n) == [kind |-> "whole", ticks |-> n]

Trades == Days \X (1..MaxTicks)
NotPrimed == [on |-> 0, got |-> [t \in Trades |-> 0], trouble |-> TRUE, seen |-> 0]

InitDays ==
    /\ dayFile = [d \in Days |-> NoDay]
    /\ primed = NotPrimed

\* The days asked for; _is_trading_day leaves out the weekend, not a holiday.
Asked == {d \in Days : d <= day /\ d + Window > day}
PastDays == Asked \ {day}
Cached == {d \in PastDays : dayFile[d].kind = "whole"}
Missing == PastDays \ Cached

\* One query from the first missing day to the last, cached days between included.
FetchedPast(outcome) ==
    IF Missing = {} THEN Nothing
    ELSE LET first == CHOOSE d \in Missing : \A e \in Missing : d <= e
             last == CHOOSE d \in Missing : \A e \in Missing : e <= d
         IN Answer(first, last, outcome)

\* _save_days: the missing days with trades.  Mutant: today as well.
SavesToday == Asked \ Cached
Saves == Missing
DayFates == {"saved", "torn", "unwritten"}
SaveDay(d, n, fate) ==
    IF d \notin Saves \/ n = 0 \/ fate = "unwritten" THEN dayFile[d]
    ELSE IF fate = "torn" THEN TornDay ELSE WholeDay(n)

\* The frames one after another, then drop_duplicates by time and symbol: a trade
\* stays unless an earlier one has its timestamp.  Mutant: none are dropped.
Frames(past, today, t) ==
    Cardinality({f \in {"cached", "past", "today"} :
        t[2] <= CASE f = "cached" -> IF t[1] \in Cached THEN dayFile[t[1]].ticks ELSE 0
                  [] f = "past" -> past[t[1]]
                  [] f = "today" -> today[t[1]]})
AllFrames(past, today) == [t \in Trades |-> Frames(past, today, t)]
Distinct(past, today) ==
    [t \in Trades |->
        IF /\ Frames(past, today, t) > 0
           /\ \A k \in 1..t[2] - 1 : Stamp(<<t[1], k>>) # Stamp(t) \/ Frames(past, today, <<t[1], k>>) = 0
        THEN 1 ELSE 0]

\* The whole of load_with_cache; the process may die before it returns.
WarmUp(first, second, fates) ==
    LET past == FetchedPast(first)
        today == Answer(day, day, second)
    IN /\ dayFile' = [d \in Days |-> SaveDay(d, IF d = day THEN today[d] ELSE past[d], fates[d])]
       /\ primed' \in {NotPrimed,
                       [on |-> day, got |-> Distinct(past, today), seen |-> traded[day],
                        trouble |-> second # "answered" \/ (Missing # {} /\ first # "answered")]}
       /\ Connects(second)
       /\ UNCHANGED <<day, early, traded>>

\* evict_old_files, with any age; the process may die on the way.
Evict(gone) ==
    /\ gone # {} /\ \A d \in gone : d < day /\ dayFile[d].kind # "none"
    /\ dayFile' = [d \in Days |-> IF d \in gone THEN NoDay ELSE dayFile[d]]
    /\ UNCHANGED <<primed, dbVars>>

NextDays ==
    \/ \E first, second \in Outcomes, fates \in [Missing -> DayFates] :
           WarmUp(first, second, [d \in Days |-> IF d \in Missing THEN fates[d] ELSE "saved"])
    \/ \E gone \in SUBSET Days : Evict(gone)

-----------------------------------------------------------------------------
(* Properties.                                                             *)

\* A day file that can be read holds the whole day, whatever failed when it, or
\* its neighbours, were written: nothing will ever fetch it again.
DayFilesAreWhole ==
    \A d \in Days : dayFile[d].kind = "whole" => d < day /\ dayFile[d].ticks = traded[d]

\* A warm-up whose queries were answered returns, for every timestamp traded in
\* the window, exactly one trade, from whichever mix of files and queries.
Stamps(d, n) == {Stamp(<<d, k>>) : k \in 1..n}
WarmupIsTheWindow ==
    ~primed.trouble => \A d \in Days : d <= primed.on /\ d + Window > primed.on =>
        \A s \in Stamps(d, IF d = primed.on THEN primed.seen ELSE traded[d]) :
            \E t \in {u \in Trades : u[1] = d /\ Stamp(u) = s} :
                /\ primed.got[t] = 1
                /\ \A u \in Trades : u[1] = d /\ Stamp(u) = s /\ u # t => primed.got[u] = 0
=============================================================================
