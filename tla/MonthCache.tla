----------------------------- MODULE MonthCache -----------------------------
(***************************************************************************)
(* DataLoader: one-minute bars by calendar month, in a parquet file each,  *)
(* with a manifest that says which months are complete.  Several processes *)
(* (optimiser, backtest, data loader) share the files; each reads the      *)
(* manifest once and writes its own copy back whole.  A process may die    *)
(* between any two steps, and any write may fail or leave a torn file.     *)
(***************************************************************************)
EXTENDS QuoteDatabase

CONSTANTS
    Jobs,       \* processes that load at the same time
    MonthOf(_), \* the month of a day
    FirstDay(_), FinalDay(_),   \* _month_bounds
    Requests    \* what a load may be asked: first and last day, and the months it
                \* fetches anew (use_cache off, force_months, older than max_age_days)

Months == {MonthOf(d) : d \in Days}

ASSUME MonthAssumption ==
    /\ Months \subseteq Nat \ {0}
    /\ \A m \in Months : FirstDay(m) \in Days /\ FinalDay(m) \in Days
    /\ \A m \in Months, d \in Days : MonthOf(d) = m <=> FirstDay(m) <= d /\ d <= FinalDay(m)
    /\ \A d, e \in Days : d <= e => MonthOf(d) <= MonthOf(e)
    /\ Requests \subseteq [from : Days, to : Days, forced : SUBSET Months]

VARIABLES
    file,       \* parquet file of a month: "none", "torn" or "whole" with its rows
    manifest,   \* manifest.json; a torn one reads as no months at all
    snap,       \* the CacheManifest object of each load: what it read and recorded
    job         \* the loads under way

monthVars == <<file, manifest, snap, job>>

\* _effective_fetch_end (market time), _is_current_month (UTC)
EffectiveEnd(m) == IF FinalDay(m) < day THEN FinalDay(m) ELSE day
IsCurrent(m) == UtcDay \in Days /\ MonthOf(UtcDay) = m

NoEntry == [complete |-> FALSE, synced |-> 0]
NoMonths == [m \in Months |-> NoEntry]
NoFile == [kind |-> "none", rows |-> Nothing]
Torn == [kind |-> "torn", rows |-> Nothing]
Whole(rows) == [kind |-> "whole", rows |-> rows]

\* got: the months read so far; trouble, today, seen: history, for the properties.
Idle == [at |-> 0, from |-> 1, to |-> LastDay, forced |-> {}, got |-> Nothing,
         trouble |-> FALSE, today |-> 0, seen |-> 0]

InitMonths ==
    /\ file = [m \in Months |-> NoFile]
    /\ manifest = NoMonths
    /\ snap = [j \in Jobs |-> NoMonths]
    /\ job = [j \in Jobs |-> Idle]

\* _dedup_sort of existing and new bars: of one minute the last one stays.
KeepLast(old, new) == [d \in Days |-> IF new[d] > 0 THEN new[d] ELSE old[d]]

-----------------------------------------------------------------------------
(* One month of DataLoader.load.                                           *)

Loading(j, m) == job[j].at = m /\ m \in MonthOf(job[j].from)..MonthOf(job[j].to)

Stored(m) == file[m].kind # "none"
NeedsFetch(j, m) ==
    m \in job[j].forced \/ ~snap[j][m].complete \/ ~Stored(m) \/ IsCurrent(m)

\* The incremental path, from the day of the last stored bar on.
\* Mutant: from the day after.
Incremental(j, m) == IsCurrent(m) /\ snap[j][m].synced > 0 /\ file[m].kind = "whole"
FetchFromNext(j, m) == IF Incremental(j, m) THEN snap[j][m].synced + 1 ELSE FirstDay(m)
FetchFrom(j, m) == IF Incremental(j, m) THEN snap[j][m].synced ELSE FirstDay(m)
Fetched(j, m, outcome) == Answer(FetchFrom(j, m), EffectiveEnd(m), outcome)
Merged(j, m) ==
    IF Incremental(j, m) THEN KeepLast(file[m].rows, Fetched(j, m, "answered"))
                         ELSE Fetched(j, m, "answered")

LastBar(rows) == CHOOSE d \in Days : rows[d] > 0 /\ \A e \in d + 1..LastDay : rows[e] = 0

\* manifest.record.  Mutant: complete whatever the month.
RecordComplete(m, rows) ==
    [complete |-> TRUE, synced |-> LastBar(rows)]
Record(m, rows) ==
    [complete |-> ~IsCurrent(m), synced |-> LastBar(rows)]

\* _save_month_parquet, every exception swallowed: all is written; the parquet
\* alone, the manifest being left as it was or torn; a torn parquet; nothing.
Fates == {"saved", "unrecorded", "wiped", "torn", "unwritten"}
SaveMonth(m, known, rows, fate) ==
    /\ file' = CASE fate = "torn" -> [file EXCEPT ![m] = Torn]
                 [] fate = "unwritten" -> file
                 [] OTHER -> [file EXCEPT ![m] = Whole(rows)]
    /\ manifest' = CASE fate = "saved" -> [known EXCEPT ![m] = Record(m, rows)]
                     [] fate = "wiped" -> NoMonths
                     [] OTHER -> manifest

\* A month that was read, to the job's chunks; the next month is due.
Took(load, rows, trouble) ==
    [load EXCEPT !.at = @ + 1, !.got = KeepLast(@, rows), !.trouble = @ \/ trouble]
Returns(j, rows, trouble) == job' = [job EXCEPT ![j] = Took(job[j], rows, trouble)]
Knows(j, m, entry) == snap' = [snap EXCEPT ![j] = [@ EXCEPT ![m] = entry]]

\* _read_month_cache of a file that cannot be read: it is deleted and its entry
\* dropped; a load that relied on it goes on without the month.
Discard(j, m) ==
    /\ file' = [file EXCEPT ![m] = NoFile]
    /\ manifest' = [snap[j] EXCEPT ![m] = NoEntry]
    /\ Knows(j, m, NoEntry)

FromCache(j, m) ==
    /\ Loading(j, m) /\ ~NeedsFetch(j, m)
    /\ IF file[m].kind = "whole"
       THEN /\ Returns(j, file[m].rows, FALSE)
            /\ UNCHANGED <<file, manifest, snap>>
       ELSE /\ Returns(j, Nothing, TRUE)
            /\ Discard(j, m)
    /\ UNCHANGED dbVars

\* Before the fetch, the incremental path meets a torn file of its month.
DropTorn(j, m) ==
    /\ Loading(j, m) /\ NeedsFetch(j, m)
    /\ IsCurrent(m) /\ snap[j][m].synced > 0 /\ file[m].kind = "torn"
    /\ Discard(j, m)
    /\ UNCHANGED <<job, dbVars>>

Fetching(j, m, outcome) ==
    /\ Loading(j, m) /\ NeedsFetch(j, m)
    /\ ~(IsCurrent(m) /\ snap[j][m].synced > 0 /\ file[m].kind = "torn")
    /\ Connects(outcome)
    /\ UNCHANGED <<day, early, traded>>

\* No rows: the stored bars of the current month, or nothing at all, a partial
\* file of a month just over included.
Unanswered(j, m, outcome) ==
    /\ Fetching(j, m, outcome)
    /\ Fetched(j, m, outcome) = Nothing
    /\ Returns(j, IF Incremental(j, m) THEN file[m].rows ELSE Nothing, outcome # "answered")
    /\ UNCHANGED <<file, manifest, snap>>

\* The validator finds an impossible bar: the month is neither kept nor returned.
Refused(j, m) ==
    /\ Fetching(j, m, "answered")
    /\ Fetched(j, m, "answered") # Nothing
    /\ Returns(j, Nothing, TRUE)
    /\ UNCHANGED <<file, manifest, snap>>

\* The manifest check, the read of the stored bars, the fetch and the write are one
\* step here.  In the code another process may write the file in between; what is
\* assumed is that no fetch lasts the seven hours from the market's midnight to UTC's.
FetchAndCache(j, m, fate) ==
    LET rows == Merged(j, m)
    IN /\ Fetching(j, m, "answered")
       /\ Fetched(j, m, "answered") # Nothing
       /\ SaveMonth(m, snap[j], rows, fate)
       /\ Returns(j, rows, FALSE)
       /\ IF fate \in {"torn", "unwritten"} THEN UNCHANGED snap
                                            ELSE Knows(j, m, Record(m, rows))

-----------------------------------------------------------------------------
(* The life of a load, and what else touches the files.                    *)

Begun(r) ==
    [at |-> MonthOf(r.from), from |-> r.from, to |-> r.to, forced |-> r.forced,
     got |-> Nothing, trouble |-> FALSE, today |-> day, seen |-> traded[day]]
Start(j, r) ==
    /\ job[j] = Idle
    /\ job' = [job EXCEPT ![j] = Begun(r)]
    /\ snap' = [snap EXCEPT ![j] = manifest]
    /\ UNCHANGED <<file, manifest, dbVars>>

\* It returns, raises (no data) or is killed.
End(j) ==
    /\ job[j] # Idle
    /\ job' = [job EXCEPT ![j] = Idle]
    /\ snap' = [snap EXCEPT ![j] = NoMonths]
    /\ UNCHANGED <<file, manifest, dbVars>>

\* load_tick_csv where the month is not cached or force_refresh is given.  Assumed of
\* the file: an export of all the month's trades so far.  The code takes what rows it
\* has, and records a month that is over as complete with them.
Import(m, fate) ==
    LET rows == Ticks(FirstDay(m), EffectiveEnd(m))
    IN /\ rows # Nothing
       /\ SaveMonth(m, manifest, rows, fate)
       /\ UNCHANGED <<snap, job, dbVars>>

\* invalidate_cache of one month or of all: files first, then the manifest; it may
\* die on the way.
InvalidateMonth(m) ==
    /\ Stored(m)
    /\ file' = [file EXCEPT ![m] = NoFile]
    /\ manifest' \in {manifest, [manifest EXCEPT ![m] = NoEntry]}
    /\ UNCHANGED <<snap, job, dbVars>>

InvalidateAll(gone) ==
    /\ file' = [m \in Months |-> IF m \in gone THEN NoFile ELSE file[m]]
    /\ manifest' = manifest \/ (manifest' = NoMonths /\ \A m \in Months : file'[m] = NoFile)
    /\ UNCHANGED <<snap, job, dbVars>>

NextMonths ==
    \/ \E j \in Jobs, r \in Requests : Start(j, r)
    \/ \E j \in Jobs : End(j)
    \/ \E j \in Jobs, m \in Months :
        \/ FromCache(j, m)
        \/ DropTorn(j, m)
        \/ \E outcome \in Outcomes : Unanswered(j, m, outcome)
        \/ Refused(j, m)
        \/ \E fate \in Fates : FetchAndCache(j, m, fate)
    \/ \E m \in Months, fate \in Fates : Import(m, fate)
    \/ \E m \in Months : InvalidateMonth(m)
    \/ \E gone \in SUBSET Months : InvalidateAll(gone)

-----------------------------------------------------------------------------
(* Properties.                                                             *)

\* A month the manifest calls complete, and whose file can be read, holds every
\* bar of the month in its final form: nothing will ever fetch it again.
CompleteMonthsAreWhole ==
    \A m \in Months : manifest[m].complete /\ file[m].kind = "whole"
        => file[m].rows = Ticks(FirstDay(m), FinalDay(m))

\* A load that met no failed query, no unreadable file and no impossible bar
\* returns what the database held when it began, or later: after crashes, torn
\* files, forgotten manifests, another process's writes and the turn of a month.
Ended(j) == job[j].at > MonthOf(job[j].to)
LoadIsTheDatabase ==
    \A j \in Jobs : Ended(j) /\ ~job[j].trouble =>
        \A d \in job[j].from..job[j].to :
            /\ d # job[j].today => job[j].got[d] = traded[d] \/ d > job[j].today
            /\ d = job[j].today => job[j].got[d] \in job[j].seen..traded[d]
=============================================================================
