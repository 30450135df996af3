---------------------------- MODULE QuoteDatabase ----------------------------
(***************************************************************************)
(* The quote database as the program sees it: PostgresDataService over one *)
(* DatabaseConnection.  A query that fails for whatever reason is answered *)
(* with no rows and no error, so no caller can tell a failure from a quiet *)
(* day.  A day's trades are numbered in their order; they all fall into    *)
(* one minute, so the day has one bar, which changes until the last trade. *)
(***************************************************************************)
EXTENDS Naturals, FiniteSets

CONSTANTS
    LastDay,    \* bound: the days are 1..LastDay
    Closed,     \* the days without trading: weekends and holidays
    MaxTicks    \* trades of a trading day

Days == 1..LastDay

ASSUME DatabaseAssumption ==
    /\ LastDay \in Nat \ {0}
    /\ Closed \subseteq Days
    /\ MaxTicks \in Nat \ {0}

VARIABLES
    day,        \* today in Asia/Ho_Chi_Minh
    early,      \* before 07:00, when UTC still has yesterday; the market is closed
    traded,     \* trades of each day so far
    conn        \* DatabaseConnection._conn: "none", "open", or "dead" when the
                \* server has dropped it

dbVars == <<day, early, traded, conn>>

UtcDay == IF early THEN day - 1 ELSE day

InitDatabase ==
    /\ day = 1
    /\ early = TRUE
    /\ traded = [d \in Days |-> 0]
    /\ conn = "none"

Trade ==
    /\ ~early /\ day \notin Closed /\ traded[day] < MaxTicks
    /\ traded' = [traded EXCEPT ![day] = @ + 1]
    /\ UNCHANGED <<day, early, conn>>

\* A trading day is over with its last trade.
PassTime ==
    /\ early \/ day \in Closed \/ traded[day] = MaxTicks
    /\ IF early THEN early' = FALSE /\ UNCHANGED day
                ELSE early' = TRUE /\ day' = day + 1
    /\ day' \in Days
    /\ UNCHANGED <<traded, conn>>

ServerDrops ==
    /\ conn = "open"
    /\ conn' = "dead"
    /\ UNCHANGED <<day, early, traded>>

World == Trade \/ PassTime \/ ServerDrops

\* A query meets a server that answers, cannot be reached (connect gives up after
\* its attempts), or answers too late (the statement timeout).
Outcomes == {"answered", "unreachable", "timeout"}

\* ensure_connected: a lost connection is closed and opened again.
Reconnected(outcome) == IF outcome = "unreachable" THEN "none" ELSE "open"
Connects(outcome) == conn' = Reconnected(outcome)

\* get_matched_data for the days from..to.
Nothing == [d \in Days |-> 0]
Ticks(from, to) == [d \in Days |-> IF d \in from..to THEN traded[d] ELSE 0]
Answer(from, to, outcome) ==
    IF outcome = "answered" THEN Ticks(from, to) ELSE Nothing
=============================================================================
