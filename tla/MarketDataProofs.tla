-------------------------- MODULE MarketDataProofs --------------------------
(***************************************************************************)
(* What the two caches keep for good is right: for any calendar, number of *)
(* processes, requests, crashes, torn files and failed queries.            *)
(***************************************************************************)
EXTENDS MarketData, Integers, FiniteSetTheorems, TLAPS

DatabaseInv ==
    /\ day \in Days
    /\ early \in BOOLEAN
    /\ traded \in [Days -> Nat]
    /\ \A d \in Days : traded[d] > 0 => d <= UtcDay

\* A month that some manifest, stored or in a process, calls complete is over in
\* UTC, and its file is the whole month.  A process that trusts an old manifest,
\* or writes it back, can therefore do no harm.
Settled(m) ==
    /\ FinalDay(m) < UtcDay
    /\ file[m].kind = "whole" => file[m].rows = Ticks(FirstDay(m), FinalDay(m))
Called(m) == manifest[m].complete \/ \E j \in Jobs : snap[j][m].complete
MonthInv ==
    /\ file = [m \in Months |-> file[m]]
    /\ manifest = [m \in Months |-> manifest[m]]
    /\ snap = [j \in Jobs |-> snap[j]]
    /\ \A j \in Jobs : snap[j] = [m \in Months |-> snap[j][m]]
    /\ \A m \in Months : Called(m) => Settled(m)

DayInv ==
    /\ dayFile = [d \in Days |-> dayFile[d]]
    /\ DayFilesAreWhole

CacheInv == DatabaseInv /\ MonthInv /\ DayInv

LEMMA DaysAreNumbers == Days \subseteq Nat /\ (\A d \in Days : 1 <= d /\ d <= LastDay) /\ LastDay \in Nat
BY DatabaseAssumption DEF Days

LEMMA CacheInit == Init => CacheInv
<1> SUFFICES ASSUME Init PROVE CacheInv
  OBVIOUS
<1>1. DatabaseInv
  BY DatabaseAssumption DEF Init, InitDatabase, DatabaseInv, Days
<1>2. MonthInv
  BY DEF Init, InitMonths, MonthInv, Called, NoMonths, NoEntry
<1>3. DayInv
  BY DEF Init, InitDays, DayInv, DayFilesAreWhole, NoDay
<1> QED BY <1>1, <1>2, <1>3 DEF CacheInv

-----------------------------------------------------------------------------
(* The world goes on.                                                      *)

LEMMA WorldFacts ==
    ASSUME DatabaseInv, World
    PROVE  /\ DatabaseInv'
           /\ UtcDay \in Nat /\ UtcDay' \in Nat /\ UtcDay' >= UtcDay /\ day' >= day
           /\ \A d \in Days : d < day => traded'[d] = traded[d]
           /\ UtcDay <= day
<1>1. day \in Days /\ day \in Nat /\ day >= 1
  BY DaysAreNumbers DEF DatabaseInv
<1>2. CASE Trade
  BY <1>1, <1>2, DaysAreNumbers DEF Trade, DatabaseInv, UtcDay
<1>3. CASE PassTime
  <2>1. traded' = traded /\ day' \in Days /\ day' \in Nat
    BY <1>3, DaysAreNumbers DEF PassTime
  <2>2. CASE early
    <3>1. early' = FALSE /\ day' = day
      BY <1>3, <2>2 DEF PassTime
    <3>2. UtcDay = day - 1 /\ UtcDay' = day'
      BY <2>2, <3>1, Zenon DEF UtcDay
    <3>3. UtcDay \in Nat /\ UtcDay' \in Nat /\ UtcDay' >= UtcDay /\ day' >= day /\ UtcDay <= day
      BY <1>1, <3>1, <3>2
    <3>4. \A d \in Days : traded'[d] > 0 => d <= UtcDay'
      BY <2>1, <3>3, DaysAreNumbers DEF DatabaseInv
    <3>5. DatabaseInv'
      BY <2>1, <3>1, <3>4 DEF DatabaseInv
    <3> QED BY <2>1, <3>3, <3>5
  <2>3. CASE ~early
    <3>1. early' = TRUE /\ day' = day + 1
      BY <1>3, <2>3 DEF PassTime
    <3>2. UtcDay = day /\ UtcDay' = day' - 1
      BY <2>3, <3>1, Zenon DEF UtcDay
    <3>3. UtcDay \in Nat /\ UtcDay' \in Nat /\ UtcDay' >= UtcDay /\ day' >= day /\ UtcDay <= day
      BY <1>1, <3>1, <3>2
    <3>4. \A d \in Days : traded'[d] > 0 => d <= UtcDay'
      BY <2>1, <3>3, DaysAreNumbers DEF DatabaseInv
    <3>5. DatabaseInv'
      BY <2>1, <3>1, <3>4 DEF DatabaseInv
    <3> QED BY <2>1, <3>3, <3>5
  <2> QED BY <2>2, <2>3
<1>4. CASE ServerDrops
  BY <1>1, <1>4 DEF ServerDrops, DatabaseInv, UtcDay
<1> QED BY <1>2, <1>3, <1>4 DEF World

\* A past range has its final trades.
LEMMA PastTicks ==
    ASSUME DatabaseInv, World, NEW m \in Months, FinalDay(m) < UtcDay
    PROVE  Ticks(FirstDay(m), FinalDay(m))' = Ticks(FirstDay(m), FinalDay(m))
<1>1. \A d \in Days : d \in FirstDay(m)..FinalDay(m) => traded'[d] = traded[d]
  <2> SUFFICES ASSUME NEW d \in Days, d \in FirstDay(m)..FinalDay(m) PROVE traded'[d] = traded[d]
    OBVIOUS
  <2>1. FirstDay(m) \in Nat /\ FinalDay(m) \in Nat /\ d \in Nat /\ day \in Nat
    BY MonthAssumption, DaysAreNumbers DEF DatabaseInv
  <2>2. d <= FinalDay(m)
    BY <2>1
  <2>3. UtcDay \in Nat /\ UtcDay <= day
    BY WorldFacts
  <2>4. d < day
    BY <2>1, <2>2, <2>3
  <2> QED BY <2>4, WorldFacts
<1> QED BY <1>1 DEF Ticks

LEMMA WorldKeeps ==
    ASSUME CacheInv, World, UNCHANGED <<monthVars, dayVars>>
    PROVE  CacheInv'
<1>1. DatabaseInv /\ UNCHANGED <<file, manifest, snap, dayFile>>
  BY DEF CacheInv, monthVars, dayVars
<1>2. MonthInv'
  <2>1. ASSUME NEW m \in Months, Called(m)' PROVE Settled(m)'
    <3>1. Settled(m)
      BY <1>1, <2>1 DEF Called, CacheInv, MonthInv
    <3>2. FinalDay(m) < UtcDay'
      <4>1. FinalDay(m) \in Nat /\ UtcDay \in Nat /\ UtcDay' \in Nat /\ UtcDay' >= UtcDay
        BY <1>1, WorldFacts, MonthAssumption, DaysAreNumbers
      <4> QED BY <3>1, <4>1 DEF Settled
    <3>3. Ticks(FirstDay(m), FinalDay(m))' = Ticks(FirstDay(m), FinalDay(m))
      BY <1>1, <3>1, PastTicks DEF Settled
    <3> QED BY <1>1, <3>1, <3>2, <3>3 DEF Settled
  <2> QED BY <1>1, <2>1 DEF CacheInv, MonthInv
<1>3. DayInv'
  BY <1>1, WorldFacts, DaysAreNumbers DEF CacheInv, DayInv, DayFilesAreWhole, DatabaseInv
<1> QED BY <1>1, <1>2, <1>3, WorldFacts DEF CacheInv

-----------------------------------------------------------------------------
(* The months.                                                             *)

\* A month is under way in UTC, or it is over, or nothing was traded in it.
LEMMA MonthIsOver ==
    ASSUME DatabaseInv, NEW m \in Months, ~IsCurrent(m),
           Ticks(FirstDay(m), EffectiveEnd(m)) # Nothing
    PROVE  FinalDay(m) < UtcDay /\ EffectiveEnd(m) = FinalDay(m)
<1> DEFINE a == FirstDay(m)
           b == FinalDay(m)
           u == UtcDay
<1>1. a \in Days /\ b \in Days /\ a \in Nat /\ b \in Nat /\ day \in Days /\ day \in Nat
  BY MonthAssumption, DaysAreNumbers DEF DatabaseInv
<1>2. EffectiveEnd(m) = IF b < day THEN b ELSE day
  BY DEF EffectiveEnd
<1>3. EffectiveEnd(m) \in Nat /\ EffectiveEnd(m) <= b /\ EffectiveEnd(m) <= day
  BY <1>1, <1>2
<1>4. PICK d \in Days : d \in a..EffectiveEnd(m) /\ traded[d] # 0
  BY DEF Ticks, Nothing
<1>5. d \in Nat /\ a <= d /\ d <= b /\ d >= 1
  BY <1>1, <1>3, <1>4, DaysAreNumbers
<1>6. traded[d] > 0
  BY <1>4 DEF DatabaseInv
<1>7. d <= u
  BY <1>6 DEF DatabaseInv
<1>8. u \in Int /\ u <= day
  <2>1. CASE early
    BY <1>1, <2>1 DEF UtcDay
  <2>2. CASE ~early
    BY <1>1, <2>2 DEF UtcDay
  <2> QED BY <2>1, <2>2
<1>9. u \in Days
  BY <1>1, <1>5, <1>7, <1>8, DaysAreNumbers DEF Days
<1>10. MonthOf(u) # m
  BY <1>9 DEF IsCurrent
<1>11. ~(a <= u /\ u <= b)
  BY <1>9, <1>10, MonthAssumption
<1> HIDE DEF a, b, u
<1>12. b < u
  BY <1>1, <1>5, <1>7, <1>8, <1>11
<1> QED BY <1>1, <1>2, <1>8, <1>12 DEF b, u

\* A month under way is called complete by nobody.
LEMMA CurrentIsNotCalled ==
    ASSUME DatabaseInv, MonthInv, NEW m \in Months, IsCurrent(m)
    PROVE  ~Called(m)
<1> SUFFICES ASSUME Settled(m) PROVE FALSE
  BY DEF MonthInv
<1>1. UtcDay \in Days /\ MonthOf(UtcDay) = m
  BY DEF IsCurrent
<1>2. UtcDay <= FinalDay(m) /\ UtcDay \in Nat /\ FinalDay(m) \in Nat
  BY <1>1, MonthAssumption, DaysAreNumbers
<1> QED BY <1>2 DEF Settled

\* A save, by a process that knows the stored manifest or an older one.
LEMMA SaveKeeps ==
    ASSUME DatabaseInv, MonthInv, UNCHANGED <<day, early, traded>>,
           NEW m \in Months, NEW rows, NEW known, NEW fate \in Fates,
           SaveMonth(m, known, rows, fate),
           known = manifest \/ \E j \in Jobs : known = snap[j],
           ~IsCurrent(m) => FinalDay(m) < UtcDay /\ rows = Ticks(FirstDay(m), FinalDay(m)),
           \/ UNCHANGED snap
           \/ fate \notin {"torn", "unwritten"} /\ \E j \in Jobs : Knows(j, m, Record(m, rows))
    PROVE  MonthInv'
<1>1. known = [x \in Months |-> known[x]]
  BY DEF MonthInv
<1>2. /\ file' = [x \in Months |-> file'[x]]
      /\ \A x \in Months \ {m} : file'[x] = file[x]
      /\ file'[m] \in {Torn, file[m], Whole(rows)}
      /\ file'[m] = file[m] => fate = "unwritten" \/ file[m] \in {Torn, Whole(rows)}
  BY DEF SaveMonth, MonthInv, Fates
<1>3. /\ manifest' = [x \in Months |-> manifest'[x]]
      /\ \A x \in Months \ {m} : manifest'[x] \in {known[x], manifest[x], NoEntry}
      /\ manifest'[m] \in {Record(m, rows), manifest[m], NoEntry}
      /\ fate = "unwritten" => manifest' = manifest
  BY <1>1 DEF SaveMonth, MonthInv, Fates, NoMonths
<1>4. /\ snap' = [j \in Jobs |-> snap'[j]]
      /\ \A j \in Jobs : snap'[j] = [x \in Months |-> snap'[j][x]]
      /\ \A j \in Jobs, x \in Months \ {m} : snap'[j][x] = snap[j][x]
      /\ \A j \in Jobs : snap'[j][m] \in {snap[j][m], Record(m, rows)}
      /\ fate = "unwritten" => snap' = snap
  BY DEF MonthInv, Knows
<1>5. Record(m, rows).complete = ~IsCurrent(m) /\ NoEntry.complete = FALSE
  BY DEF Record, NoEntry
<1>6. UNCHANGED <<day, early, traded>>
  OBVIOUS
<1>7. ASSUME NEW x \in Months, Called(x)' PROVE Settled(x)'
  <2>1. CASE x # m
    <3>1. Called(x)
      BY <1>3, <1>4, <1>5, <1>7, <2>1 DEF Called
    <3>2. Settled(x) /\ file'[x] = file[x]
      BY <1>2, <2>1, <3>1 DEF MonthInv
    <3> QED BY <1>6, <3>2 DEF Settled, Ticks, UtcDay
  <2>2. CASE x = m /\ IsCurrent(m)
    <3>1. ~Called(m)'
      BY <1>3, <1>4, <1>5, <2>2, CurrentIsNotCalled DEF Called
    <3> QED BY <1>7, <2>2, <3>1
  <2>3. CASE x = m /\ ~IsCurrent(m)
    <3>1. FinalDay(m) < UtcDay'
      BY <1>6, <2>3 DEF UtcDay
    <3>2. CASE fate = "unwritten" /\ file'[m] = file[m]
      <4>1. Called(m)
        BY <1>3, <1>4, <1>7, <2>3, <3>2 DEF Called
      <4> QED BY <1>6, <2>3, <3>1, <3>2, <4>1 DEF MonthInv, Settled, Ticks
    <3>3. CASE file'[m] \in {Torn, Whole(rows)}
      BY <1>6, <2>3, <3>1, <3>3 DEF Settled, Torn, Whole, Ticks
    <3> QED BY <1>2, <3>2, <3>3
  <2> QED BY <2>1, <2>2, <2>3
<1> QED BY <1>2, <1>3, <1>4, <1>7 DEF MonthInv

\* A file that cannot be read is dropped.
LEMMA DiscardKeeps ==
    ASSUME MonthInv, UNCHANGED dbVars, NEW m \in Months, NEW j \in Jobs, Discard(j, m)
    PROVE  MonthInv'
<1>1. /\ file' = [x \in Months |-> file'[x]]
      /\ \A x \in Months : file'[x] = IF x = m THEN NoFile ELSE file[x]
  BY DEF Discard, MonthInv
<1>2. /\ manifest' = [x \in Months |-> manifest'[x]]
      /\ \A x \in Months : manifest'[x] = IF x = m THEN NoEntry ELSE snap[j][x]
  BY DEF Discard, MonthInv
<1>3. /\ snap' = [k \in Jobs |-> snap'[k]]
      /\ \A k \in Jobs : snap'[k] = [x \in Months |-> snap'[k][x]]
      /\ \A k \in Jobs, x \in Months : snap'[k][x] \in {snap[k][x], NoEntry}
  BY DEF Discard, Knows, MonthInv
<1>4. UNCHANGED <<day, early, traded>>
  BY DEF dbVars
<1>5. ASSUME NEW x \in Months, Called(x)' PROVE Settled(x)'
  <2>1. Called(x)
    <3>1. NoEntry.complete = FALSE
      BY DEF NoEntry
    <3>2. manifest'[x].complete => snap[j][x].complete
      BY <1>2, <3>1
    <3>3. \A k \in Jobs : snap'[k][x].complete => snap[k][x].complete
      BY <1>3, <3>1
    <3> QED BY <1>5, <3>2, <3>3 DEF Called
  <2>2. Settled(x)
    BY <2>1 DEF MonthInv
  <2> QED BY <1>1, <1>4, <2>2 DEF Settled, NoFile, Ticks, UtcDay
<1> QED BY <1>1, <1>2, <1>3, <1>5 DEF MonthInv

\* Every step of the loads, the import and the clearing of the cache.
LEMMA MonthsKeep ==
    ASSUME DatabaseInv, MonthInv, NextMonths
    PROVE  DatabaseInv' /\ MonthInv'
<1> DEFINE Calm == UNCHANGED <<day, early, traded>>
<1>1. Calm => DatabaseInv'
  BY DEF DatabaseInv, UtcDay
<1>2. Calm /\ UNCHANGED <<file, manifest>> /\ snap' = [j \in Jobs |-> snap'[j]]
      /\ (\A j \in Jobs : snap'[j] \in {snap[j], manifest, NoMonths}) => MonthInv'
  <2> SUFFICES ASSUME Calm, UNCHANGED <<file, manifest>>, snap' = [j \in Jobs |-> snap'[j]],
                      \A j \in Jobs : snap'[j] \in {snap[j], manifest, NoMonths}
               PROVE  MonthInv'
    OBVIOUS
  <2>1. \A x \in Months : NoMonths[x].complete = FALSE
    BY DEF NoMonths, NoEntry
  <2>2. NoMonths = [x \in Months |-> NoMonths[x]]
    BY DEF NoMonths
  <2>3. \A j \in Jobs : snap'[j] = [x \in Months |-> snap'[j][x]]
    BY <2>2 DEF MonthInv
  <2>4. ASSUME NEW x \in Months, Called(x)' PROVE Settled(x)'
    <3>1. Called(x)
      BY <2>1, <2>4 DEF Called
    <3> QED BY <3>1 DEF MonthInv, Settled, Ticks, UtcDay
  <2> QED BY <2>3, <2>4 DEF MonthInv
<1>3. ASSUME NEW j \in Jobs, NEW r \in Requests, Start(j, r)
      PROVE  Calm /\ MonthInv'
  BY <1>2, <1>3 DEF Start, dbVars, MonthInv
<1>4. ASSUME NEW j \in Jobs, End(j)
      PROVE  Calm /\ MonthInv'
  BY <1>2, <1>4 DEF End, dbVars, MonthInv
<1>5. ASSUME NEW j \in Jobs, NEW m \in Months, FromCache(j, m) \/ DropTorn(j, m)
      PROVE  Calm /\ MonthInv'
  <2>1. UNCHANGED dbVars /\ Calm
    BY <1>5 DEF FromCache, DropTorn, dbVars
  <2>2. Discard(j, m) \/ UNCHANGED <<file, manifest, snap>>
    BY <1>5 DEF FromCache, DropTorn
  <2>3. CASE Discard(j, m)
    BY <2>1, <2>3, DiscardKeeps
  <2>4. CASE UNCHANGED <<file, manifest, snap>>
    BY <1>2, <2>1, <2>4 DEF MonthInv
  <2> QED BY <2>1, <2>2, <2>3, <2>4
<1>6. ASSUME NEW j \in Jobs, NEW m \in Months,
             Refused(j, m) \/ \E outcome \in Outcomes : Unanswered(j, m, outcome)
      PROVE  Calm /\ MonthInv'
  <2>1. Calm /\ UNCHANGED <<file, manifest, snap>>
    BY <1>6 DEF Refused, Unanswered, Fetching
  <2> QED BY <1>2, <2>1 DEF MonthInv
<1>7. ASSUME NEW j \in Jobs, NEW m \in Months, NEW fate \in Fates, FetchAndCache(j, m, fate)
      PROVE  Calm /\ MonthInv'
  <2> DEFINE rows == Merged(j, m)
  <2>1. /\ Calm /\ SaveMonth(m, snap[j], rows, fate)
        /\ Fetched(j, m, "answered") # Nothing
        /\ IF fate \in {"torn", "unwritten"} THEN UNCHANGED snap ELSE Knows(j, m, Record(m, rows))
    BY <1>7 DEF FetchAndCache, Fetching
  <2>2. ASSUME ~IsCurrent(m)
        PROVE  FinalDay(m) < UtcDay /\ rows = Ticks(FirstDay(m), FinalDay(m))
    <3>1. rows = Fetched(j, m, "answered") /\ FetchFrom(j, m) = FirstDay(m)
      BY <2>2 DEF Merged, FetchFrom, Incremental
    <3>2. rows = Ticks(FirstDay(m), EffectiveEnd(m))
      BY <3>1 DEF Fetched, Answer
    <3> QED BY <2>1, <2>2, <3>1, <3>2, MonthIsOver
  <2> HIDE DEF rows
  <2>3. \/ UNCHANGED snap
        \/ fate \notin {"torn", "unwritten"} /\ \E i \in Jobs : Knows(i, m, Record(m, rows))
    BY <2>1
  <2>4. MonthInv'
    BY <2>1, <2>2, <2>3, SaveKeeps
  <2> QED BY <2>1, <2>4
<1>8. ASSUME NEW m \in Months, NEW fate \in Fates, Import(m, fate)
      PROVE  Calm /\ MonthInv'
  <2> DEFINE rows == Ticks(FirstDay(m), EffectiveEnd(m))
  <2>1. Calm /\ UNCHANGED snap /\ SaveMonth(m, manifest, rows, fate) /\ rows # Nothing
    BY <1>8 DEF Import, dbVars
  <2>2. ~IsCurrent(m) => FinalDay(m) < UtcDay /\ rows = Ticks(FirstDay(m), FinalDay(m))
    BY <2>1, MonthIsOver
  <2> HIDE DEF rows
  <2>3. MonthInv'
    BY <2>1, <2>2, SaveKeeps
  <2> QED BY <2>1, <2>3
<1>9. ASSUME (\E m \in Months : InvalidateMonth(m)) \/ (\E gone : InvalidateAll(gone))
      PROVE  Calm /\ MonthInv'
  <2>1. Calm /\ UNCHANGED snap
    BY <1>9 DEF InvalidateMonth, InvalidateAll, dbVars
  <2>2. file' = [x \in Months |-> file'[x]] /\ \A x \in Months : file'[x] \in {file[x], NoFile}
    BY <1>9 DEF InvalidateMonth, InvalidateAll, MonthInv
  <2>3. /\ manifest' = [x \in Months |-> manifest'[x]]
        /\ \A x \in Months : manifest'[x] \in {manifest[x], NoEntry}
    BY <1>9 DEF InvalidateMonth, InvalidateAll, NoMonths, MonthInv
  <2>4. ASSUME NEW x \in Months, Called(x)' PROVE Settled(x)'
    <3>1. Called(x)
      BY <2>1, <2>3, <2>4 DEF Called, NoEntry
    <3> QED BY <2>1, <2>2, <3>1 DEF MonthInv, Settled, NoFile, Ticks, UtcDay
  <2> QED BY <2>1, <2>2, <2>3, <2>4 DEF MonthInv
<1> HIDE DEF Calm
<1> QED BY <1>1, <1>3, <1>4, <1>5, <1>6, <1>7, <1>8, <1>9 DEF NextMonths

-----------------------------------------------------------------------------
(* The days.                                                               *)

\* A warm-up and an eviction.
LEMMA DaysKeep ==
    ASSUME DatabaseInv, DayInv, NextDays
    PROVE  DatabaseInv' /\ DayInv'
<1>1. UNCHANGED <<day, early, traded>>
  BY DEF NextDays, WarmUp, Evict, dbVars
<1>2. DatabaseInv'
  BY <1>1 DEF DatabaseInv, UtcDay
<1>3. ASSUME NEW first \in Outcomes, NEW second \in Outcomes, NEW fates, WarmUp(first, second, fates)
      PROVE  DayInv'
  <2> DEFINE past == FetchedPast(first)
             n(d) == IF d = day THEN Answer(day, day, second)[d] ELSE past[d]
  <2>1. /\ dayFile' = [d \in Days |-> dayFile'[d]]
        /\ \A d \in Days : dayFile'[d] = SaveDay(d, n(d), fates[d])
    BY <1>3 DEF WarmUp
  <2>2. ASSUME NEW d \in Days, dayFile'[d].kind = "whole"
        PROVE  d < day /\ dayFile'[d].ticks = traded[d]
    <3>1. CASE dayFile'[d] = dayFile[d]
      BY <2>2, <3>1 DEF DayInv, DayFilesAreWhole
    <3>2. CASE dayFile'[d] # dayFile[d]
      <4>1. d \in Missing /\ n(d) # 0 /\ dayFile'[d] = WholeDay(n(d))
        BY <2>1, <2>2, <3>2 DEF SaveDay, Saves, TornDay
      <4>2. d < day /\ Missing # {}
        BY <4>1, DaysAreNumbers DEF Missing, PastDays, Asked, DatabaseInv
      <4>3. d # day
        BY <4>1 DEF Missing, PastDays
      <4>4. PICK a, b : past = Answer(a, b, first)
        BY <4>2 DEF FetchedPast
      <4>5. past[d] \in {traded[d], 0}
        BY <4>4 DEF Answer, Ticks, Nothing
      <4>6. n(d) = traded[d]
        BY <4>1, <4>3, <4>5
      <4> QED BY <4>1, <4>2, <4>6 DEF WholeDay
    <3> QED BY <3>1, <3>2
  <2> QED BY <1>1, <2>1, <2>2 DEF DayInv, DayFilesAreWhole
<1>4. ASSUME NEW gone, Evict(gone)
      PROVE  DayInv'
  BY <1>1, <1>4 DEF Evict, NoDay, DayInv, DayFilesAreWhole
<1> QED BY <1>2, <1>3, <1>4 DEF NextDays

-----------------------------------------------------------------------------

LEMMA CacheStep == CacheInv /\ [Next]_vars => CacheInv'
<1> SUFFICES ASSUME CacheInv, [Next]_vars PROVE CacheInv'
  OBVIOUS
<1> USE DEF CacheInv
<1>1. CASE World /\ UNCHANGED <<monthVars, dayVars, role>>
  BY <1>1, WorldKeeps
<1>2. CASE NextMonths /\ UNCHANGED <<dayVars, role>>
  <2>1. DatabaseInv' /\ MonthInv' /\ UNCHANGED dayFile
    BY <1>2, MonthsKeep DEF dayVars
  <2>2. UNCHANGED <<day, traded>>
    BY <1>2 DEF NextMonths, Start, End, FromCache, DropTorn, Unanswered, Refused, FetchAndCache,
                Fetching, Import, InvalidateMonth, InvalidateAll, dbVars
  <2> QED BY <2>1, <2>2 DEF DayInv, DayFilesAreWhole
<1>3. CASE NextDays /\ UNCHANGED <<monthVars, role>>
  <2>1. DatabaseInv' /\ DayInv' /\ UNCHANGED <<file, manifest, snap>>
    BY <1>3, DaysKeep DEF monthVars
  <2>2. UNCHANGED <<day, early, traded>>
    BY <1>3 DEF NextDays, WarmUp, Evict, dbVars
  <2> QED BY <2>1, <2>2 DEF MonthInv, Called, Settled, Ticks, UtcDay
<1>4. CASE UNCHANGED vars
  BY <1>4 DEF vars, dbVars, monthVars, dayVars, DatabaseInv, MonthInv, Called, Settled, Ticks, UtcDay,
              DayInv, DayFilesAreWhole
<1> QED BY <1>1, <1>2, <1>3, <1>4 DEF Next

LEMMA CacheAlways == Spec => []CacheInv
BY CacheInit, CacheStep, PTL DEF Spec

\* A month recorded as complete, of any symbol and by any of the processes that
\* share data/cache, holds all its bars in their final form; load() never fetches
\* it again.
THEOREM MonthsAreWhole == Spec => []CompleteMonthsAreWhole
<1>1. CacheInv => CompleteMonthsAreWhole
  BY DEF CacheInv, MonthInv, Called, Settled, CompleteMonthsAreWhole
<1> QED BY <1>1, CacheAlways, PTL

\* A readable day file of the warm-up cache is of a past day and holds all its
\* trades; load_with_cache never fetches it again.
THEOREM DaysAreWhole == Spec => []DayFilesAreWhole
<1>1. CacheInv => DayFilesAreWhole
  BY DEF CacheInv, DayInv
<1> QED BY <1>1, CacheAlways, PTL

-----------------------------------------------------------------------------
(* What a load returns.                                                    *)

\* A set of numbers has a least one: subsets of Nat of the form 0..x are ordered
\* by strict inclusion, which is well founded.
LEMMA LeastNumber ==
  ASSUME NEW T, T \subseteq Nat, T # {}
  PROVE \E x \in T : \A y \in T : x <= y
<1> DEFINE R == StrictSubsetOrdering(Nat)
           F == FiniteSubsetsOf(Nat)
           U == {0..x : x \in T}
<1>1. IsWellFoundedOn(R, F)
  BY FS_StrictSubsetOrderingWellFounded
<1>2. U \subseteq F /\ U # {}
  <2>1. U # {}
    OBVIOUS
  <2>2. ASSUME NEW x \in T PROVE 0..x \in F
    <3>1. IsFiniteSet(0..x)
      BY FS_Interval
    <3>2. 0..x \subseteq Nat
      OBVIOUS
    <3> QED BY <3>1, <3>2 DEF FiniteSubsetsOf
  <2> QED BY <2>1, <2>2
<1> HIDE DEF R, F, U
<1>3. PICK u \in U : \A v \in U : ~(<<v, u>> \in R)
  BY <1>1, <1>2, WFMin
<1>4. PICK x \in T : u = 0..x
  BY DEF U
<1>5. ASSUME NEW y \in T, y < x PROVE FALSE
  <2>1. 0..y \in U /\ x \in Nat /\ y \in Nat
    BY DEF U
  <2>2. 0..y \subseteq 0..x /\ 0..y # 0..x
    <3>1. x \in 0..x /\ x \notin 0..y
      BY <2>1, <1>5
    <3> QED BY <3>1, <2>1, <1>5
  <2>3. <<0..y, u>> \in R
    BY <2>1, <2>2, <1>4 DEF R, StrictSubsetOrdering
  <2> QED BY <1>3, <2>1, <2>3
<1> QED BY <1>5

\* A month's rows have a last bar.
LEMMA LastBarFacts ==
    ASSUME NEW rows \in [Days -> Nat], rows # Nothing
    PROVE  LET l == LastBar(rows) IN l \in Days /\ rows[l] > 0
<1> DEFINE T == {LastDay - d : d \in {e \in Days : rows[e] > 0}}
<1>1. T \subseteq Nat
  BY DaysAreNumbers
<1>2. T # {}
  <2>1. PICK d \in Days : rows[d] # 0
    BY DEF Nothing
  <2> QED BY <2>1
<1>3. PICK x \in T : \A y \in T : x <= y
  <2> HIDE DEF T
  <2> QED BY <1>1, <1>2, LeastNumber
<1>4. PICK l \in Days : rows[l] > 0 /\ x = LastDay - l
  BY <1>3
<1>5. \A e \in l + 1..LastDay : rows[e] = 0
  <2> SUFFICES ASSUME NEW e \in l + 1..LastDay, rows[e] # 0 PROVE FALSE
    OBVIOUS
  <2>1. e \in Days /\ e \in Nat /\ l \in Nat /\ LastDay \in Nat /\ e > l
    BY DaysAreNumbers DEF Days
  <2>2. rows[e] > 0
    BY <2>1
  <2>3. LastDay - e \in T
    BY <2>1, <2>2
  <2>4. LastDay - l <= LastDay - e
    BY <1>3, <1>4, <2>3
  <2> QED BY <2>1, <2>4
<1>6. \E d \in Days : rows[d] > 0 /\ \A e \in d + 1..LastDay : rows[e] = 0
  BY <1>4, <1>5
<1> QED BY <1>6 DEF LastBar

\* What the readable file of a month holds: trades that were made, of its days.
PartOf(m) ==
    file[m].kind = "whole" =>
        /\ file[m].rows \in [Days -> Nat]
        /\ \A d \in Days : file[m].rows[d] <= traded[d]
        /\ \A d \in Days : MonthOf(d) # m => file[m].rows[d] = 0

\* The day an entry of a manifest, stored or read by a process, was synced to: it
\* had trades, and the file, if it can be read, has all that was before it.
Dated(m, s) == s \in Nat /\ (s > 0 => s \in Days /\ MonthOf(s) = m /\ traded[s] > 0)
Covered(m, s) ==
    file[m].kind = "whole" /\ s > 0 =>
        \A d \in Days : MonthOf(d) = m /\ d < s => file[m].rows[d] = traded[d]
Synced(m, s) == Dated(m, s) /\ Covered(m, s)
SyncInv ==
    \A m \in Months : /\ PartOf(m)
                      /\ Synced(m, manifest[m].synced)
                      /\ \A j \in Jobs : Synced(m, snap[j][m].synced)

\* A month's trades so far, as a fetch from its first day on gets them.
SoFar(m) == Ticks(FirstDay(m), EffectiveEnd(m))

LEMMA MonthFacts ==
    ASSUME DatabaseInv, NEW m \in Months
    PROVE  /\ FirstDay(m) \in Days /\ FinalDay(m) \in Days /\ day \in Days
           /\ EffectiveEnd(m) \in Days /\ EffectiveEnd(m) <= day
           /\ EffectiveEnd(m) <= FinalDay(m)
           /\ EffectiveEnd(m) < day => EffectiveEnd(m) = FinalDay(m)
           /\ \A d \in Days : MonthOf(d) = m <=> FirstDay(m) <= d /\ d <= FinalDay(m)
           /\ \A d \in Days : traded[d] \in Nat /\ (traded[d] > 0 => d <= day)
<1>1. FirstDay(m) \in Days /\ FinalDay(m) \in Days /\ day \in Days
  BY MonthAssumption DEF DatabaseInv
<1>2. FinalDay(m) \in Nat /\ day \in Nat
  BY <1>1, DaysAreNumbers
<1>3. EffectiveEnd(m) = IF FinalDay(m) < day THEN FinalDay(m) ELSE day
  BY DEF EffectiveEnd
<1>4. \A d \in Days : MonthOf(d) = m <=> FirstDay(m) <= d /\ d <= FinalDay(m)
  BY MonthAssumption
<1>5. UtcDay <= day /\ UtcDay \in Int
  <2>1. CASE early
    BY <1>2, <2>1 DEF UtcDay
  <2>2. CASE ~early
    BY <1>2, <2>2 DEF UtcDay
  <2> QED BY <2>1, <2>2
<1>6. \A d \in Days : traded[d] \in Nat /\ (traded[d] > 0 => d <= day)
  BY <1>2, <1>5, DaysAreNumbers DEF DatabaseInv
<1> QED BY <1>1, <1>2, <1>3, <1>4, <1>6

\* The trades of a month so far hold every trade of the month up to today.
LEMMA SoFarFacts ==
    ASSUME DatabaseInv, NEW m \in Months
    PROVE  /\ SoFar(m) \in [Days -> Nat]
           /\ \A d \in Days : MonthOf(d) # m => SoFar(m)[d] = 0
           /\ \A d \in Days : MonthOf(d) = m => SoFar(m)[d] = traded[d]
           /\ \A d \in Days : SoFar(m)[d] <= traded[d]
<1> DEFINE f == FirstDay(m)
           b == FinalDay(m)
           e == EffectiveEnd(m)
<1>1. /\ f \in Nat /\ b \in Nat /\ e \in Nat /\ day \in Nat /\ e <= b /\ e <= day
      /\ e < day => e = b
  BY MonthFacts, DaysAreNumbers
<1>2. \A d \in Days : SoFar(m)[d] = IF d \in f..e THEN traded[d] ELSE 0
  BY DEF SoFar, Ticks
<1> HIDE DEF f, b, e
<1>3. \A d \in Days : MonthOf(d) = m <=> f <= d /\ d <= b
  BY MonthFacts DEF f, b
<1>4. \A d \in Days : d \in Nat /\ traded[d] \in Nat /\ (traded[d] > 0 => d <= day)
  BY MonthFacts, DaysAreNumbers
<1>5. ASSUME NEW d \in Days, MonthOf(d) = m, d \notin f..e PROVE traded[d] = 0
  <2>1. f <= d /\ d <= b /\ d > e
    BY <1>1, <1>3, <1>4, <1>5
  <2> QED BY <1>1, <1>4, <2>1
<1>6. ASSUME NEW d \in Days, MonthOf(d) # m PROVE d \notin f..e
  BY <1>1, <1>3, <1>4, <1>6
<1>7. SoFar(m) \in [Days -> Nat]
  BY <1>4 DEF SoFar, Ticks
<1> QED BY <1>2, <1>4, <1>5, <1>6, <1>7

\* The incremental path, which fetches from the last stored day on and keeps the
\* bars before it, arrives at the same rows as a fetch of the whole month.
LEMMA MergedIsSoFar ==
    ASSUME DatabaseInv, SyncInv, NEW m \in Months, NEW j \in Jobs
    PROVE  Merged(j, m) = SoFar(m)
<1>1. CASE ~Incremental(j, m)
  BY <1>1 DEF Merged, Fetched, FetchFrom, Answer, SoFar
<1>2. CASE Incremental(j, m)
  <2> DEFINE s == snap[j][m].synced
             e == EffectiveEnd(m)
             old == file[m].rows
             new == Ticks(s, e)
  <2>1. file[m].kind = "whole" /\ s > 0
    BY <1>2 DEF Incremental
  <2>2. /\ s \in Days /\ MonthOf(s) = m /\ traded[s] > 0
        /\ \A d \in Days : MonthOf(d) = m /\ d < s => old[d] = traded[d]
        /\ old \in [Days -> Nat] /\ \A d \in Days : old[d] <= traded[d]
        /\ \A d \in Days : MonthOf(d) # m => old[d] = 0
    BY <2>1 DEF SyncInv, PartOf, Synced, Dated, Covered
  <2>3. Merged(j, m) = KeepLast(old, new)
    BY <1>2 DEF Merged, Fetched, FetchFrom, Answer
  <2> HIDE DEF s, old
  <2>4. ASSUME NEW d \in Days
        PROVE  (IF new[d] > 0 THEN new[d] ELSE old[d]) = SoFar(m)[d]
    <3>1. /\ new[d] = IF d \in s..e THEN traded[d] ELSE 0
          /\ d \in Nat /\ s \in Nat /\ e \in Nat /\ traded[d] \in Nat
          /\ old[d] \in Nat /\ old[d] <= traded[d] /\ s >= FirstDay(m)
          /\ FirstDay(m) \in Nat
      BY <2>2, MonthFacts, DaysAreNumbers DEF Ticks
    <3>2. CASE traded[d] = 0
      BY <2>2, <3>1, <3>2, SoFarFacts
    <3>3. CASE traded[d] > 0 /\ MonthOf(d) # m
      <4>1. d \notin s..e
        <5>1. ~(FirstDay(m) <= d /\ d <= FinalDay(m)) /\ e <= FinalDay(m)
              /\ FinalDay(m) \in Nat
          BY <3>3, MonthFacts, DaysAreNumbers
        <5> HIDE DEF e
        <5> QED BY <3>1, <5>1
      <4> QED BY <2>2, <3>1, <3>3, <4>1, SoFarFacts
    <3>4. CASE traded[d] > 0 /\ MonthOf(d) = m
      <4>1. d <= e
        <5>1. d <= day /\ d <= FinalDay(m) /\ (e < day => e = FinalDay(m)) /\ e <= day
              /\ day \in Nat
          BY <3>4, MonthFacts, DaysAreNumbers
        <5> HIDE DEF e
        <5> QED BY <3>1, <5>1
      <4>2. SoFar(m)[d] = traded[d]
        BY <3>4, SoFarFacts
      <4>3. CASE d < s
        BY <2>2, <3>1, <3>4, <4>2, <4>3
      <4>4. CASE d >= s
        BY <3>1, <3>4, <4>1, <4>2, <4>4
      <4> QED BY <3>1, <4>3, <4>4
    <3> QED BY <3>1, <3>2, <3>3, <3>4
  <2>5. SoFar(m) = [d \in Days |-> SoFar(m)[d]]
    BY DEF SoFar, Ticks
  <2> HIDE DEF new
  <2> QED BY <2>3, <2>4, <2>5 DEF KeepLast
<1> QED BY <1>1, <1>2

\* The days the entries of a month, stored and read, were synced to.
Known(m) == {0, manifest[m].synced} \cup {snap[j][m].synced : j \in Jobs}

\* Every step of the months leaves a file as it was, unreadable, absent or with the
\* month so far, and records nothing but what was recorded before or the last bar of
\* a file written in the same step.
Recorded(m, s) ==
    s \in Known(m) \/ (SoFar(m) # Nothing /\ s = LastBar(SoFar(m)) /\ file'[m] = Whole(SoFar(m)))

LEMMA SyncKept ==
    ASSUME DatabaseInv, SyncInv, UNCHANGED <<day, early, traded>>,
           \A m \in Months : file'[m] \in {file[m], NoFile, Torn, Whole(SoFar(m))},
           \A m \in Months : Recorded(m, manifest'[m].synced),
           \A m \in Months, j \in Jobs : Recorded(m, snap'[j][m].synced)
    PROVE  SyncInv'
<1> SUFFICES ASSUME NEW m \in Months
             PROVE  /\ PartOf(m)'
                    /\ \A s : Recorded(m, s) => Synced(m, s)'
  BY DEF SyncInv
<1>1. /\ SoFar(m) \in [Days -> Nat]
      /\ \A d \in Days : MonthOf(d) # m => SoFar(m)[d] = 0
      /\ \A d \in Days : MonthOf(d) = m => SoFar(m)[d] = traded[d]
      /\ \A d \in Days : SoFar(m)[d] <= traded[d]
  BY SoFarFacts
<1>2. file'[m] \in {file[m], NoFile, Torn, Whole(SoFar(m))}
  OBVIOUS
<1>3. PartOf(m)'
  <2>1. CASE file'[m] = file[m]
    BY <2>1 DEF SyncInv, PartOf
  <2>2. CASE file'[m] \in {NoFile, Torn}
    BY <2>2 DEF PartOf, NoFile, Torn
  <2>3. CASE file'[m] = Whole(SoFar(m))
    BY <1>1, <2>3 DEF PartOf, Whole
  <2> QED BY <1>2, <2>1, <2>2, <2>3
<1>4. ASSUME NEW s, Dated(m, s), file'[m] = Whole(SoFar(m)) PROVE Synced(m, s)'
  BY <1>1, <1>4 DEF Synced, Dated, Covered, Whole
<1>5. ASSUME NEW s \in Known(m) PROVE Synced(m, s)'
  <2>1. Synced(m, s)
    BY DEF SyncInv, Known, Synced, Dated, Covered
  <2>2. CASE file'[m] = file[m]
    BY <2>1, <2>2 DEF Synced, Dated, Covered
  <2>3. CASE file'[m] \in {NoFile, Torn}
    BY <2>1, <2>3 DEF Synced, Dated, Covered, NoFile, Torn
  <2>4. CASE file'[m] = Whole(SoFar(m))
    BY <1>4, <2>1, <2>4 DEF Synced
  <2> QED BY <1>2, <2>2, <2>3, <2>4
<1>6. ASSUME SoFar(m) # Nothing PROVE Dated(m, LastBar(SoFar(m)))
  <2> DEFINE l == LastBar(SoFar(m))
  <2>1. l \in Days /\ SoFar(m)[l] > 0
    BY <1>1, <1>6, LastBarFacts
  <2> HIDE DEF l
  <2>2. MonthOf(l) = m /\ traded[l] > 0
    BY <1>1, <2>1
  <2>3. Dated(m, l)
    BY <2>1, <2>2, DaysAreNumbers DEF Dated
  <2> QED BY <2>3 DEF l
<1>7. ASSUME NEW s, Recorded(m, s) PROVE Synced(m, s)'
  BY <1>4, <1>5, <1>6, <1>7 DEF Recorded
<1> QED BY <1>3, <1>7

\* A save writes the month so far, or nothing, or a torn file.
LEMMA SaveSyncs ==
    ASSUME DatabaseInv, MonthInv, SyncInv, UNCHANGED <<day, early, traded>>,
           NEW m \in Months, NEW known, NEW fate \in Fates,
           SoFar(m) # Nothing, SaveMonth(m, known, SoFar(m), fate),
           known = manifest \/ \E j \in Jobs : known = snap[j],
           \/ UNCHANGED snap
           \/ fate \notin {"torn", "unwritten"} /\ \E j \in Jobs : Knows(j, m, Record(m, SoFar(m)))
    PROVE  SyncInv'
<1> DEFINE rows == SoFar(m)
           rec == Record(m, rows)
<1>1. rec.synced = LastBar(rows) /\ NoEntry.synced = 0
  BY DEF Record, NoEntry
<1> HIDE DEF rows, rec
<1>2. known = [x \in Months |-> known[x]] /\ \A x \in Months : known[x].synced \in Known(x)
  BY DEF MonthInv, Known
<1>3. /\ \A x \in Months \ {m} : file'[x] = file[x]
      /\ file'[m] \in {Torn, file[m], Whole(rows)}
      /\ fate \notin {"torn", "unwritten"} => file'[m] = Whole(rows)
  BY DEF SaveMonth, MonthInv, Fates, rows
<1>4. /\ \A x \in Months \ {m} : manifest'[x] \in {known[x], manifest[x], NoEntry}
      /\ manifest'[m] \in {manifest[m], NoEntry} \/ (fate = "saved" /\ manifest'[m] = rec)
  BY <1>2 DEF SaveMonth, MonthInv, Fates, NoMonths, rows, rec
<1>5. /\ \A j \in Jobs, x \in Months \ {m} : snap'[j][x] = snap[j][x]
      /\ \A j \in Jobs : snap'[j][m] = snap[j][m]
                         \/ (fate \notin {"torn", "unwritten"} /\ snap'[j][m] = rec)
  BY DEF MonthInv, Knows, rows, rec
<1>6. \A x \in Months : /\ 0 \in Known(x) /\ manifest[x].synced \in Known(x)
                        /\ \A j \in Jobs : snap[j][x].synced \in Known(x)
  BY DEF Known
<1>7. \A x \in Months : file'[x] \in {file[x], NoFile, Torn, Whole(SoFar(x))}
  BY <1>3 DEF rows
<1>8. rows # Nothing
  BY DEF rows
<1>9. fate \notin {"torn", "unwritten"} => Recorded(m, rec.synced)
  BY <1>1, <1>3, <1>8 DEF Recorded, rows
<1>10. ASSUME NEW x \in Months PROVE Recorded(x, manifest'[x].synced)
  <2>1. CASE x # m
    BY <1>1, <1>2, <1>4, <1>6, <2>1 DEF Recorded
  <2>2. CASE x = m
    BY <1>1, <1>4, <1>6, <1>9, <2>2 DEF Recorded
  <2> QED BY <2>1, <2>2
<1>11. ASSUME NEW x \in Months, NEW j \in Jobs PROVE Recorded(x, snap'[j][x].synced)
  <2>1. CASE x # m
    BY <1>5, <1>6, <2>1 DEF Recorded
  <2>2. CASE x = m
    BY <1>5, <1>6, <1>9, <2>2 DEF Recorded
  <2> QED BY <2>1, <2>2
<1> QED BY <1>7, <1>10, <1>11, SyncKept

LEMMA MonthsSync ==
    ASSUME DatabaseInv, MonthInv, SyncInv, NextMonths
    PROVE  SyncInv'
<1>0. \A x \in Months : /\ 0 \in Known(x) /\ manifest[x].synced \in Known(x)
                        /\ \A j \in Jobs : snap[j][x].synced \in Known(x)
  BY DEF Known
<1>1. UNCHANGED <<day, early, traded>>
  BY DEF NextMonths, Start, End, FromCache, DropTorn, Unanswered, Refused, FetchAndCache,
         Fetching, Import, InvalidateMonth, InvalidateAll, dbVars
<1>2. ASSUME \A x \in Months : file'[x] \in {file[x], NoFile, Torn, Whole(SoFar(x))},
             \A x \in Months : manifest'[x].synced \in Known(x),
             \A x \in Months, j \in Jobs : snap'[j][x].synced \in Known(x)
      PROVE  SyncInv'
  BY <1>1, <1>2, SyncKept DEF Recorded
<1>3. \A x \in Months : NoMonths[x].synced = 0 /\ NoEntry.synced = 0
  BY DEF NoMonths, NoEntry
<1>4. ASSUME NEW j \in Jobs, (\E r \in Requests : Start(j, r)) \/ End(j)
      PROVE  SyncInv'
  <2>1. /\ file' = file /\ manifest' = manifest
        /\ \A i \in Jobs : snap'[i] \in {snap[i], manifest, NoMonths}
    BY <1>4 DEF Start, End, MonthInv
  <2> QED BY <1>0, <1>2, <1>3, <2>1
<1>5. ASSUME NEW j \in Jobs, NEW m \in Months, Discard(j, m)
      PROVE  SyncInv'
  <2>1. \A x \in Months : file'[x] \in {file[x], NoFile}
    BY <1>5 DEF Discard, MonthInv
  <2>2. \A x \in Months : manifest'[x] \in {snap[j][x], NoEntry}
    BY <1>5 DEF Discard, MonthInv
  <2>3. \A i \in Jobs, x \in Months : snap'[i][x] \in {snap[i][x], NoEntry}
    BY <1>5 DEF Discard, Knows, MonthInv
  <2> QED BY <1>0, <1>2, <1>3, <2>1, <2>2, <2>3
<1>6. ASSUME UNCHANGED <<file, manifest, snap>> PROVE SyncInv'
  BY <1>0, <1>2, <1>6
<1>7. ASSUME NEW j \in Jobs, NEW m \in Months, NEW fate \in Fates, FetchAndCache(j, m, fate)
      PROVE  SyncInv'
  <2>1. /\ SaveMonth(m, snap[j], SoFar(m), fate)
        /\ IF fate \in {"torn", "unwritten"} THEN UNCHANGED snap
                                             ELSE Knows(j, m, Record(m, SoFar(m)))
    BY <1>7, MergedIsSoFar DEF FetchAndCache
  <2>2. SoFar(m) # Nothing
    <3>1. PICK d \in Days : Fetched(j, m, "answered")[d] # 0
      BY <1>7 DEF FetchAndCache, Fetched, Answer, Ticks, Nothing
    <3>2. Fetched(j, m, "answered")[d] \in Nat
      BY MonthFacts DEF Fetched, Answer, Ticks
    <3>3. Merged(j, m)[d] # 0
      BY <3>1, <3>2 DEF Merged, KeepLast
    <3> QED BY <3>3, MergedIsSoFar DEF Nothing
  <2> QED BY <1>1, <2>1, <2>2, SaveSyncs
<1>8. ASSUME NEW m \in Months, NEW fate \in Fates, Import(m, fate)
      PROVE  SyncInv'
  <2>1. SoFar(m) # Nothing /\ SaveMonth(m, manifest, SoFar(m), fate) /\ UNCHANGED snap
    BY <1>8 DEF Import, SoFar
  <2> QED BY <1>1, <2>1, SaveSyncs
<1>9. ASSUME (\E m \in Months : InvalidateMonth(m)) \/ (\E gone : InvalidateAll(gone))
      PROVE  SyncInv'
  <2>1. snap' = snap /\ \A x \in Months : file'[x] \in {file[x], NoFile}
    BY <1>9 DEF InvalidateMonth, InvalidateAll, MonthInv
  <2>2. \A x \in Months : manifest'[x] \in {manifest[x], NoEntry}
    BY <1>9 DEF InvalidateMonth, InvalidateAll, NoMonths, MonthInv
  <2> QED BY <1>0, <1>2, <1>3, <2>1, <2>2
<1>10. ASSUME NEW j \in Jobs, NEW m \in Months,
              FromCache(j, m) \/ DropTorn(j, m) \/ Refused(j, m)
              \/ \E outcome \in Outcomes : Unanswered(j, m, outcome)
       PROVE  SyncInv'
  BY <1>5, <1>6, <1>10 DEF FromCache, DropTorn, Refused, Unanswered
<1> QED BY <1>4, <1>7, <1>8, <1>9, <1>10 DEF NextMonths

\* As the world goes on, what was traded before a day with trades stays.
LEMMA WorldTrades ==
    ASSUME DatabaseInv, World
    PROVE  /\ \A d \in Days : traded'[d] \in Nat /\ traded'[d] >= traded[d]
           /\ \A d \in Days : d < day => traded'[d] = traded[d]
           /\ \A d, s \in Days : traded[s] > 0 /\ d < s => traded'[d] = traded[d]
<1>1. \A d \in Days : d < day => traded'[d] = traded[d]
  BY WorldFacts
<1>2. \A d \in Days : traded[d] \in Nat /\ traded'[d] \in Nat
  BY WorldFacts DEF DatabaseInv
<1>3. \A d \in Days : traded'[d] >= traded[d]
  <2>1. traded' = traded \/ traded' = [traded EXCEPT ![day] = traded[day] + 1]
    BY DEF World, Trade, PassTime, ServerDrops
  <2> QED BY <1>2, <2>1 DEF DatabaseInv
<1>4. ASSUME NEW d \in Days, NEW s \in Days, traded[s] > 0, d < s PROVE d < day
  <2>1. s <= UtcDay /\ UtcDay <= day /\ UtcDay \in Nat
    BY <1>4, WorldFacts DEF DatabaseInv
  <2>2. d \in Nat /\ s \in Nat /\ day \in Nat
    BY DaysAreNumbers DEF DatabaseInv
  <2> QED BY <1>4, <2>1, <2>2
<1> QED BY <1>1, <1>2, <1>3, <1>4

LEMMA WorldSyncs ==
    ASSUME DatabaseInv, SyncInv, World, UNCHANGED <<file, manifest, snap>>
    PROVE  SyncInv'
<1> SUFFICES ASSUME NEW m \in Months
             PROVE  PartOf(m)' /\ \A s : Synced(m, s) => Synced(m, s)'
  BY DEF SyncInv
<1>1. PartOf(m)'
  <2>1. PartOf(m) /\ file'[m] = file[m]
    BY DEF SyncInv
  <2>2. ASSUME file[m].kind = "whole", NEW d \in Days PROVE file[m].rows[d] <= traded'[d]
    <3>1. file[m].rows[d] \in Nat /\ file[m].rows[d] <= traded[d] /\ traded[d] \in Nat
      BY <2>1, <2>2 DEF PartOf, DatabaseInv
    <3>2. traded'[d] \in Nat /\ traded'[d] >= traded[d]
      BY WorldTrades
    <3> QED BY <3>1, <3>2
  <2> QED BY <2>1, <2>2 DEF PartOf
<1>2. ASSUME NEW s, Synced(m, s) PROVE Synced(m, s)'
  <2>1. CASE s > 0
    <3>1. /\ s \in Days /\ MonthOf(s) = m /\ traded[s] > 0 /\ s \in Nat
          /\ traded[s] \in Nat /\ traded'[s] \in Nat /\ traded'[s] >= traded[s]
      BY <1>2, <2>1, WorldTrades DEF Synced, Dated, DatabaseInv
    <3>2. traded'[s] > 0
      BY <3>1
    <3>3. \A d \in Days : d < s => traded'[d] = traded[d]
      BY <3>1, WorldTrades
    <3> QED BY <1>2, <3>1, <3>2, <3>3 DEF Synced, Dated, Covered
  <2>2. CASE ~(s > 0)
    BY <1>2, <2>2 DEF Synced, Dated, Covered
  <2> QED BY <2>1, <2>2
<1> QED BY <1>1, <1>2

LEMMA InitSyncs == Init => SyncInv
<1> SUFFICES ASSUME Init PROVE SyncInv
  OBVIOUS
<1>1. \A m \in Months : /\ file[m].kind = "none" /\ manifest[m].synced = 0
                        /\ \A j \in Jobs : snap[j][m].synced = 0
  BY DEF Init, InitMonths, NoFile, NoMonths, NoEntry
<1> QED BY <1>1 DEF SyncInv, PartOf, Synced, Dated, Covered

-----------------------------------------------------------------------------
(* The loads under way.                                                    *)

Loads == [at : Nat, from : Days, to : Days, forced : SUBSET Months, got : [Days -> Nat],
          trouble : BOOLEAN, today : Nat, seen : Nat]

\* What a load that met no trouble has got of a day of the months it has read.
GotRight(b, d) ==
    /\ d < b.today => b.got[d] = traded[d]
    /\ d = b.today => b.seen <= b.got[d] /\ b.got[d] <= traded[d]
LoadInv(b) ==
    /\ b \in Loads
    /\ b.today <= day
    /\ b.today \in Days => b.seen <= traded[b.today]
    /\ b.at = 0 \/ b.at >= MonthOf(b.from)
    /\ ~b.trouble => \A d \in Days :
         /\ MonthOf(d) >= b.at => b.got[d] = 0
         /\ MonthOf(b.from) <= MonthOf(d) /\ MonthOf(d) < b.at => GotRight(b, d)
JobInv == job = [j \in Jobs |-> job[j]] /\ \A j \in Jobs : LoadInv(job[j])

\* The rows of a month as of today, or later.
RowsOf(m, rows) ==
    /\ rows \in [Days -> Nat]
    /\ \A d \in Days : MonthOf(d) # m => rows[d] = 0
    /\ \A d \in Days : MonthOf(d) = m /\ d <= day => rows[d] = traded[d]

LEMMA MonthsAreNumbers == \A d \in Days : MonthOf(d) \in Months /\ MonthOf(d) \in Nat /\ MonthOf(d) > 0
BY MonthAssumption DEF Months

LEMMA WithMonth ==
    ASSUME NEW b \in Loads, NEW rows \in [Days -> Nat], NEW t \in BOOLEAN
    PROVE  LET c == Took(b, rows, t)
           IN /\ c \in Loads /\ c.at = b.at + 1 /\ c.got = KeepLast(b.got, rows)
              /\ c.trouble = (b.trouble \/ t)
              /\ c.from = b.from /\ c.to = b.to /\ c.today = b.today /\ c.seen = b.seen
<1> DEFINE a == b.at + 1
           g == KeepLast(b.got, rows)
           u == b.trouble \/ t
<1>1. a \in Nat /\ u \in BOOLEAN /\ b.got \in [Days -> Nat]
  BY DEF Loads
<1>2. g \in [Days -> Nat]
  BY <1>1 DEF KeepLast
<1>3. Took(b, rows, t) = [b EXCEPT !.at = a, !.got = g, !.trouble = u]
  BY DEF Took
<1> HIDE DEF a, g, u
<1>4. LET c == [b EXCEPT !.at = a, !.got = g, !.trouble = u]
      IN /\ c \in Loads /\ c.at = a /\ c.got = g /\ c.trouble = u
         /\ c.from = b.from /\ c.to = b.to /\ c.today = b.today /\ c.seen = b.seen
  BY <1>1, <1>2 DEF Loads
<1> QED BY <1>3, <1>4 DEF a, g, u

\* A load that goes on with a month's rows, or notes that it met trouble.
LEMMA ReturnsKeeps ==
    ASSUME DatabaseInv, JobInv, NEW j \in Jobs, NEW m \in Months, Loading(j, m),
           NEW rows \in [Days -> Nat], NEW t \in BOOLEAN, Returns(j, rows, t),
           ~t => RowsOf(m, rows), UNCHANGED <<day, early, traded>>
    PROVE  JobInv'
<1> DEFINE b == job[j]
           g == KeepLast(b.got, rows)
           t2 == b.trouble \/ t
           a == b.at + 1
           c == Took(b, rows, t)
<1>1. b \in Loads /\ LoadInv(b) /\ b.at = m /\ m \in Nat /\ b.at \in Nat /\ a \in Nat
      /\ b.trouble \in BOOLEAN /\ b.got \in [Days -> Nat] /\ b.from \in Days /\ b.today \in Nat
  BY MonthAssumption DEF JobInv, LoadInv, Loading, Loads
<1>2. g \in [Days -> Nat] /\ t2 \in BOOLEAN
  BY <1>1 DEF KeepLast
<1>3. job' = [job EXCEPT ![j] = c]
  BY DEF Returns
<1>4. \A d \in Days : g[d] = IF rows[d] > 0 THEN rows[d] ELSE b.got[d]
  BY DEF KeepLast
<1>5. t2 = FALSE => ~b.trouble /\ ~t
  OBVIOUS
<1>6. /\ c \in Loads /\ c.at = a /\ c.got = g /\ c.trouble = t2
      /\ c.from = b.from /\ c.to = b.to /\ c.today = b.today /\ c.seen = b.seen
  BY <1>1, WithMonth
<1> HIDE DEF b, g, t2, a, c
<1>7. (a = m + 1 /\ m >= MonthOf(b.from)) \/ (a = m + 1 /\ m = 0)
  BY <1>1 DEF a, LoadInv
<1>8. ASSUME ~t2, NEW d \in Days, MonthOf(d) >= a PROVE g[d] = 0
  <2>1. MonthOf(d) # m /\ MonthOf(d) >= m /\ MonthOf(d) \in Nat
    BY <1>1, <1>7, <1>8, MonthsAreNumbers
  <2>2. rows[d] = 0 /\ b.got[d] = 0
    BY <1>1, <1>5, <1>8, <2>1 DEF RowsOf, LoadInv
  <2> QED BY <1>4, <2>2
<1>9. ASSUME ~t2, NEW d \in Days, MonthOf(b.from) <= MonthOf(d), MonthOf(d) < a
      PROVE  GotRight(c, d)
  <2>1. /\ MonthOf(d) \in Nat /\ d \in Nat /\ day \in Nat /\ b.today \in Nat /\ b.seen \in Nat
        /\ b.today <= day /\ traded[d] \in Nat
    BY <1>1, MonthsAreNumbers, DaysAreNumbers DEF LoadInv, Loads, DatabaseInv
  <2>2. CASE MonthOf(d) = m
    <3>1. b.got[d] = 0
      BY <1>1, <1>5, <1>9, <2>1, <2>2 DEF LoadInv
    <3>2. d <= day => g[d] = traded[d]
      BY <1>4, <1>5, <1>9, <2>1, <2>2, <3>1 DEF RowsOf
    <3>3. d = b.today => b.seen <= traded[d]
      BY <1>1 DEF LoadInv
    <3> QED BY <1>6, <2>1, <3>2, <3>3 DEF GotRight
  <2>3. CASE MonthOf(d) # m
    <3>1. g[d] = b.got[d]
      BY <1>4, <1>5, <1>9, <2>3 DEF RowsOf
    <3>2. MonthOf(d) < b.at
      BY <1>1, <1>7, <1>9, <2>1, <2>3
    <3>3. GotRight(b, d)
      BY <1>1, <1>5, <1>9, <3>2 DEF LoadInv
    <3> QED BY <1>6, <3>1, <3>3 DEF GotRight
  <2> QED BY <2>2, <2>3
<1>10. c.at = 0 \/ c.at >= MonthOf(c.from)
  <2>1. MonthOf(b.from) \in Nat
    BY <1>1, MonthsAreNumbers
  <2> QED BY <1>1, <1>6, <1>7, <2>1, MonthAssumption
<1>11. LoadInv(c)
  BY <1>1, <1>6, <1>8, <1>9, <1>10 DEF LoadInv
<1>12. \A i \in Jobs : job'[i] = IF i = j THEN c ELSE job[i]
  BY <1>3 DEF JobInv
<1>13. \A i \in Jobs : LoadInv(job'[i])
  BY <1>11, <1>12 DEF JobInv
<1> QED BY <1>3, <1>13 DEF JobInv, LoadInv, GotRight

\* What a load finds in a month: in a file it trusts, and in a fetch without rows.
LEMMA CacheRows ==
    ASSUME DatabaseInv, MonthInv, NEW j \in Jobs, NEW m \in Months,
           ~NeedsFetch(j, m), file[m].kind = "whole"
    PROVE  RowsOf(m, file[m].rows)
<1>1. Called(m)
  BY DEF NeedsFetch, Called
<1>2. FinalDay(m) < UtcDay /\ file[m].rows = Ticks(FirstDay(m), FinalDay(m))
  BY <1>1 DEF MonthInv, Settled
<1>3. /\ FirstDay(m) \in Nat /\ FinalDay(m) \in Nat
      /\ \A d \in Days : d \in Nat /\ traded[d] \in Nat
      /\ \A d \in Days : MonthOf(d) = m <=> FirstDay(m) <= d /\ d <= FinalDay(m)
  BY MonthFacts, DaysAreNumbers
<1>4. \A d \in Days : file[m].rows[d] = IF d \in FirstDay(m)..FinalDay(m) THEN traded[d] ELSE 0
  BY <1>2 DEF Ticks
<1>5. file[m].rows \in [Days -> Nat]
  BY <1>2, <1>3 DEF Ticks
<1> QED BY <1>3, <1>4, <1>5 DEF RowsOf

LEMMA SoFarRows ==
    ASSUME DatabaseInv, NEW m \in Months
    PROVE  RowsOf(m, SoFar(m))
BY SoFarFacts DEF RowsOf

LEMMA NoRows ==
    ASSUME DatabaseInv, SyncInv, NEW j \in Jobs, NEW m \in Months,
           Fetched(j, m, "answered") = Nothing
    PROVE  ~Incremental(j, m) /\ RowsOf(m, Nothing)
<1> DEFINE e == EffectiveEnd(m)
           s == snap[j][m].synced
<1>1. ~Incremental(j, m)
  <2> SUFFICES ASSUME Incremental(j, m) PROVE FALSE
    OBVIOUS
  <2>1. /\ s \in Days /\ MonthOf(s) = m /\ traded[s] > 0
        /\ Fetched(j, m, "answered") = Ticks(s, e)
    BY DEF Incremental, SyncInv, Synced, Dated, Fetched, FetchFrom, Answer
  <2> HIDE DEF s
  <2>2. /\ s \in Nat /\ e \in Nat /\ day \in Nat /\ FinalDay(m) \in Nat
        /\ s <= day /\ s <= FinalDay(m) /\ (e < day => e = FinalDay(m))
    BY <2>1, MonthFacts, DaysAreNumbers
  <2> HIDE DEF e
  <2>3. s \in s..e
    BY <2>2
  <2>4. Fetched(j, m, "answered")[s] = traded[s]
    BY <2>1, <2>3 DEF Ticks
  <2>5. Nothing[s] = 0
    BY <2>1 DEF Nothing
  <2> QED BY <2>1, <2>4, <2>5
<1>2. SoFar(m) = Nothing
  BY <1>1 DEF Fetched, FetchFrom, Answer, SoFar
<1> QED BY <1>1, <1>2, SoFarRows

LEMMA StartKeeps ==
    ASSUME DatabaseInv, JobInv, NEW j \in Jobs, NEW r \in Requests, Start(j, r)
    PROVE  JobInv'
<1> DEFINE b == Begun(r)
<1>1. /\ r.from \in Days /\ r.to \in Days /\ r.forced \subseteq Months
  BY MonthAssumption
<1>2. /\ MonthOf(r.from) \in Nat /\ day \in Nat /\ day \in Days /\ traded[day] \in Nat
  BY <1>1, MonthsAreNumbers, DaysAreNumbers DEF DatabaseInv
<1>3. UNCHANGED <<day, traded>> /\ job' = [job EXCEPT ![j] = b]
  BY DEF Start, dbVars
<1>4. b = [at |-> MonthOf(r.from), from |-> r.from, to |-> r.to, forced |-> r.forced,
           got |-> Nothing, trouble |-> FALSE, today |-> day, seen |-> traded[day]]
  BY DEF Begun
<1> HIDE DEF b
<1>5. /\ b.at = MonthOf(r.from) /\ b.from = r.from /\ b.got = Nothing /\ b.today = day
      /\ b.seen = traded[day] /\ b.trouble = FALSE
  BY <1>4
<1>6. Nothing \in [Days -> Nat] /\ \A d \in Days : Nothing[d] = 0
  BY DEF Nothing
<1>7. b \in Loads
  BY <1>1, <1>2, <1>4, <1>6 DEF Loads
<1>8. LoadInv(b)
  <2>1. \A d \in Days : MonthOf(d) \in Nat
    BY MonthsAreNumbers
  <2>2. \A d \in Days : ~(MonthOf(b.from) <= MonthOf(d) /\ MonthOf(d) < b.at)
    BY <1>1, <1>5, <2>1
  <2>3. b.today <= day /\ b.seen <= traded[b.today] /\ b.at >= MonthOf(b.from)
    BY <1>2, <1>5
  <2> QED BY <1>5, <1>6, <1>7, <2>2, <2>3 DEF LoadInv
<1>9. \A i \in Jobs : job'[i] = IF i = j THEN b ELSE job[i]
  BY <1>3 DEF JobInv
<1>10. \A i \in Jobs : LoadInv(job'[i])
  BY <1>8, <1>9 DEF JobInv
<1> QED BY <1>3, <1>10 DEF JobInv, LoadInv, GotRight

LEMMA IdleLoad == ASSUME DatabaseInv PROVE LoadInv(Idle)
<1>1. /\ Idle.at = 0 /\ Idle.from = 1 /\ Idle.got = Nothing /\ Idle.today = 0 /\ Idle.seen = 0
      /\ Idle.trouble = FALSE
  BY DEF Idle
<1>2. Nothing \in [Days -> Nat] /\ \A d \in Days : Nothing[d] = 0
  BY DEF Nothing
<1>3. 1 \in Days /\ LastDay \in Days /\ 0 \notin Days /\ day \in Nat
  BY DatabaseAssumption, DaysAreNumbers DEF Days, DatabaseInv
<1>4. Idle \in Loads
  BY <1>2, <1>3 DEF Idle, Loads
<1>5. \A d \in Days : ~(MonthOf(d) < 0)
  BY MonthsAreNumbers
<1> QED BY <1>1, <1>2, <1>3, <1>4, <1>5 DEF LoadInv

\* A step that leaves the load alone.
LEMMA JobsIdle ==
    ASSUME DatabaseInv, JobInv, UNCHANGED <<day, early, traded>>,
           job' = job \/ \E j \in Jobs : job' = [job EXCEPT ![j] = Idle]
    PROVE  JobInv'
<1>1. \A i \in Jobs : job'[i] \in {job[i], Idle}
  BY DEF JobInv
<1>2. \A i \in Jobs : LoadInv(job'[i])
  BY <1>1, IdleLoad DEF JobInv
<1>3. job' = [i \in Jobs |-> job'[i]]
  BY DEF JobInv
<1> QED BY <1>2, <1>3 DEF JobInv, LoadInv, GotRight

LEMMA MonthsLoad ==
    ASSUME DatabaseInv, MonthInv, SyncInv, JobInv, NextMonths
    PROVE  JobInv'
<1>1. UNCHANGED <<day, early, traded>>
  BY DEF NextMonths, Start, End, FromCache, DropTorn, Unanswered, Refused, FetchAndCache,
         Fetching, Import, InvalidateMonth, InvalidateAll, dbVars
<1>2. Nothing \in [Days -> Nat]
  BY DEF Nothing
<1>3. ASSUME NEW j \in Jobs, NEW m \in Months, FromCache(j, m) PROVE JobInv'
  <2>1. CASE file[m].kind = "whole"
    <3>1. RowsOf(m, file[m].rows)
      BY <1>3, <2>1, CacheRows DEF FromCache
    <3>2. Loading(j, m) /\ Returns(j, file[m].rows, FALSE) /\ file[m].rows \in [Days -> Nat]
      BY <1>3, <2>1, <3>1 DEF FromCache, RowsOf
    <3> QED BY <1>1, <3>1, <3>2, ReturnsKeeps
  <2>2. CASE file[m].kind # "whole"
    <3>1. Loading(j, m) /\ Returns(j, Nothing, TRUE)
      BY <1>3, <2>2 DEF FromCache
    <3> QED BY <1>1, <1>2, <3>1, ReturnsKeeps
  <2> QED BY <2>1, <2>2
<1>4. ASSUME NEW j \in Jobs, NEW m \in Months, Refused(j, m) PROVE JobInv'
  <2>1. Loading(j, m) /\ Returns(j, Nothing, TRUE)
    BY <1>4 DEF Refused, Fetching
  <2> QED BY <1>1, <1>2, <2>1, ReturnsKeeps
<1>5. ASSUME NEW j \in Jobs, NEW m \in Months, NEW outcome \in Outcomes,
             Unanswered(j, m, outcome)
      PROVE  JobInv'
  <2> DEFINE rows == IF Incremental(j, m) THEN file[m].rows ELSE Nothing
  <2>1. /\ Loading(j, m) /\ Returns(j, rows, outcome # "answered")
        /\ Fetched(j, m, outcome) = Nothing
    BY <1>5 DEF Unanswered, Fetching
  <2>2. rows \in [Days -> Nat]
    BY <1>2 DEF SyncInv, PartOf, Incremental
  <2>3. outcome = "answered" => RowsOf(m, rows)
    BY <2>1, NoRows
  <2> HIDE DEF rows
  <2>4. (outcome # "answered") \in BOOLEAN /\ (~(outcome # "answered") => RowsOf(m, rows))
    BY <2>3
  <2> QED BY <1>1, <2>1, <2>2, <2>4, ReturnsKeeps
<1>6. ASSUME NEW j \in Jobs, NEW m \in Months, NEW fate \in Fates, FetchAndCache(j, m, fate)
      PROVE  JobInv'
  <2>1. Loading(j, m) /\ Returns(j, SoFar(m), FALSE)
    BY <1>6, MergedIsSoFar DEF FetchAndCache, Fetching
  <2>2. RowsOf(m, SoFar(m)) /\ SoFar(m) \in [Days -> Nat]
    BY SoFarRows DEF RowsOf
  <2> QED BY <1>1, <2>1, <2>2, ReturnsKeeps
<1>7. ASSUME NEW j \in Jobs, NEW m \in Months, DropTorn(j, m) PROVE JobInv'
  BY <1>1, <1>7, JobsIdle DEF DropTorn
<1>8. ASSUME NEW j \in Jobs, End(j) PROVE JobInv'
  BY <1>1, <1>8, JobsIdle DEF End
<1>9. ASSUME \/ \E m \in Months, fate \in Fates : Import(m, fate)
             \/ \E m \in Months : InvalidateMonth(m)
             \/ \E gone : InvalidateAll(gone)
      PROVE  JobInv'
  <2>1. job' = job
    BY <1>9 DEF Import, InvalidateMonth, InvalidateAll
  <2> QED BY <1>1, <2>1, JobsIdle
<1> QED BY <1>3, <1>4, <1>5, <1>6, <1>7, <1>8, <1>9, StartKeeps DEF NextMonths

LEMMA WorldLoads ==
    ASSUME DatabaseInv, JobInv, World, UNCHANGED job
    PROVE  JobInv'
<1> SUFFICES ASSUME NEW j \in Jobs PROVE LoadInv(job[j])'
  BY DEF JobInv
<1> DEFINE b == job[j]
<1>1. LoadInv(b) /\ b \in Loads /\ b.today \in Nat /\ b.seen \in Nat /\ b.got \in [Days -> Nat]
  BY DEF JobInv, LoadInv, Loads
<1>2. day \in Nat /\ day' \in Nat /\ day' >= day
  BY WorldFacts, DaysAreNumbers DEF DatabaseInv
<1>3. \A d \in Days : /\ traded[d] \in Nat /\ traded'[d] \in Nat /\ traded'[d] >= traded[d]
                      /\ d < day => traded'[d] = traded[d]
  BY WorldTrades DEF DatabaseInv
<1>4. \A d \in Days : d \in Nat
  BY DaysAreNumbers
<1>9. b' = b
  OBVIOUS
<1> HIDE DEF b
<1>5. b.today <= day
  BY <1>1 DEF LoadInv
<1>6. ASSUME NEW d \in Days, GotRight(b, d) PROVE GotRight(b, d)'
  <2>1. d < b.today => traded'[d] = traded[d]
    BY <1>1, <1>2, <1>3, <1>4, <1>5
  <2>2. d = b.today => b.got[d] <= traded'[d]
    <3>1. b.got[d] \in Nat /\ traded[d] \in Nat /\ traded'[d] \in Nat /\ traded'[d] >= traded[d]
      BY <1>1, <1>3
    <3> QED BY <1>6, <3>1 DEF GotRight
  <2> QED BY <1>6, <1>9, <2>1, <2>2 DEF GotRight
<1>7. b.today \in Days => b.seen <= traded'[b.today]
  <2> SUFFICES ASSUME b.today \in Days PROVE b.seen <= traded'[b.today]
    OBVIOUS
  <2>1. /\ b.seen \in Nat /\ traded[b.today] \in Nat /\ traded'[b.today] \in Nat
        /\ traded'[b.today] >= traded[b.today] /\ b.seen <= traded[b.today]
    BY <1>1, <1>3 DEF LoadInv
  <2> QED BY <2>1
<1>8. b.today <= day'
  BY <1>1, <1>2, <1>5
<1>10. LoadInv(b)'
  BY <1>1, <1>6, <1>7, <1>8, <1>9 DEF LoadInv
<1> QED BY <1>10 DEF b

LEMMA LoadStep ==
    ASSUME CacheInv, SyncInv, JobInv, [Next]_vars
    PROVE  SyncInv' /\ JobInv'
<1> USE DEF CacheInv
<1>1. CASE World /\ UNCHANGED <<monthVars, dayVars, role>>
  BY <1>1, WorldSyncs, WorldLoads DEF monthVars
<1>2. CASE NextMonths
  BY <1>2, MonthsSync, MonthsLoad
<1>3. CASE (NextDays /\ UNCHANGED <<monthVars, role>>) \/ UNCHANGED vars
  <2>1. UNCHANGED <<day, early, traded>> /\ UNCHANGED <<file, manifest, snap, job>>
    BY <1>3 DEF NextDays, WarmUp, Evict, dbVars, monthVars, vars
  <2> QED BY <2>1 DEF SyncInv, PartOf, Synced, Dated, Covered, JobInv, LoadInv, GotRight
<1> QED BY <1>1, <1>2, <1>3 DEF Next

LEMMA LoadAlways == Spec => [](CacheInv /\ SyncInv /\ JobInv)
<1>1. Init => CacheInv /\ SyncInv /\ JobInv
  <2> SUFFICES ASSUME Init PROVE CacheInv /\ SyncInv /\ JobInv
    OBVIOUS
  <2>1. CacheInv /\ SyncInv /\ DatabaseInv
    BY CacheInit, InitSyncs DEF CacheInv
  <2>2. JobInv
    BY <2>1, IdleLoad DEF Init, InitMonths, JobInv
  <2> QED BY <2>1, <2>2
<1>2. CacheInv /\ SyncInv /\ JobInv /\ [Next]_vars => CacheInv' /\ SyncInv' /\ JobInv'
  BY CacheStep, LoadStep
<1> QED BY <1>1, <1>2, PTL DEF Spec

\* A load() that met no failed query, no unreadable file and no impossible bar
\* returns what the database held when it began, or later, whatever other processes,
\* crashes, imports and clearings did to data/cache before and meanwhile.
THEOREM LoadsAreTheDatabase == Spec => []LoadIsTheDatabase
<1>1. ASSUME CacheInv, JobInv PROVE LoadIsTheDatabase
  <2> SUFFICES ASSUME NEW j \in Jobs, Ended(j), ~job[j].trouble,
                      NEW d \in job[j].from..job[j].to
               PROVE  /\ d # job[j].today => job[j].got[d] = traded[d] \/ d > job[j].today
                      /\ d = job[j].today => job[j].got[d] \in job[j].seen..traded[d]
    BY DEF LoadIsTheDatabase
  <2> DEFINE b == job[j]
  <2>1. /\ LoadInv(b) /\ b.from \in Days /\ b.to \in Days /\ b.at \in Nat /\ b.today \in Nat
        /\ b.seen \in Nat /\ b.got \in [Days -> Nat] /\ ~b.trouble
        /\ b.at > MonthOf(b.to) /\ d \in b.from..b.to
    BY <1>1 DEF JobInv, LoadInv, Loads, Ended
  <2> HIDE DEF b
  <2>2. d \in Days /\ b.from <= d /\ d <= b.to /\ d \in Nat
    BY <2>1, DaysAreNumbers DEF Days
  <2>3. MonthOf(b.from) <= MonthOf(d) /\ MonthOf(d) <= MonthOf(b.to)
    BY <2>1, <2>2, MonthAssumption
  <2>8. MonthOf(d) \in Nat /\ MonthOf(b.to) \in Nat
    BY <2>1, <2>2, MonthsAreNumbers
  <2>4. MonthOf(d) < b.at
    BY <2>1, <2>3, <2>8
  <2>5. GotRight(b, d)
    BY <2>1, <2>2, <2>3, <2>4 DEF LoadInv
  <2>6. traded[d] \in Nat /\ b.got[d] \in Nat
    BY <1>1, <2>1, <2>2 DEF CacheInv, DatabaseInv
  <2>7. /\ d # b.today => b.got[d] = traded[d] \/ d > b.today
        /\ d = b.today => b.got[d] \in b.seen..traded[d]
    BY <2>1, <2>2, <2>5, <2>6 DEF GotRight
  <2> QED BY <2>7 DEF b
<1> QED BY <1>1, LoadAlways, PTL

-----------------------------------------------------------------------------
(* What a warm-up returns.                                                 *)

\* A day has no more trades than MaxTicks, and the last warm-up was not later than
\* today.
PrimedInv ==
    /\ \A d \in Days : traded[d] <= MaxTicks
    /\ primed.on \in Nat /\ primed.on <= day
    /\ WarmupIsTheWindow

LEMMA GreatestDay ==
    ASSUME NEW T, T \subseteq Days, T # {}
    PROVE  \E x \in T : \A y \in T : y <= x
<1> DEFINE U == {LastDay - d : d \in T}
<1>1. U \subseteq Nat /\ U # {}
  <2>1. \A d \in T : LastDay - d \in Nat
    BY DaysAreNumbers
  <2>2. PICK d \in T : TRUE
    OBVIOUS
  <2>3. LastDay - d \in U
    OBVIOUS
  <2> QED BY <2>1, <2>3
<1>2. PICK u \in U : \A v \in U : u <= v
  <2> HIDE DEF U
  <2> QED BY <1>1, LeastNumber
<1>3. PICK x \in T : u = LastDay - x
  BY <1>2
<1>4. ASSUME NEW y \in T PROVE y <= x
  <2>1. LastDay - y \in U /\ x \in Nat /\ y \in Nat /\ LastDay \in Nat
    BY DaysAreNumbers
  <2>2. LastDay - x <= LastDay - y
    BY <1>2, <1>3, <2>1
  <2> QED BY <2>1, <2>2
<1> QED BY <1>4

\* The one query covers every missing day.
LEMMA FetchedPastFacts ==
    ASSUME DatabaseInv, NEW first \in Outcomes
    PROVE  LET past == FetchedPast(first)
           IN /\ past \in [Days -> Nat]
              /\ \A d \in Days : past[d] <= traded[d] /\ (d >= day => past[d] = 0)
              /\ first = "answered" => \A d \in Missing : past[d] = traded[d]
<1> DEFINE past == FetchedPast(first)
<1>1. \A d \in Days : d \in Nat /\ traded[d] \in Nat
  BY DaysAreNumbers DEF DatabaseInv
<1>2. day \in Nat /\ Missing \subseteq Days /\ \A d \in Missing : d < day /\ d \in Nat
  BY DaysAreNumbers DEF DatabaseInv, Missing, PastDays, Asked
<1>3. CASE Missing = {}
  <2>1. past = Nothing
    BY <1>3 DEF FetchedPast
  <2> QED BY <1>1, <1>3, <2>1 DEF Nothing
<1>4. CASE Missing # {}
  <2> DEFINE a == CHOOSE d \in Missing : \A e \in Missing : d <= e
             b == CHOOSE d \in Missing : \A e \in Missing : e <= d
  <2>1. \E d \in Missing : \A e \in Missing : d <= e
    BY <1>2, <1>4, LeastNumber
  <2>2. \E d \in Missing : \A e \in Missing : e <= d
    BY <1>2, <1>4, GreatestDay
  <2>3. /\ a \in Missing /\ \A e \in Missing : a <= e
        /\ b \in Missing /\ \A e \in Missing : e <= b
    BY <2>1, <2>2
  <2>4. past = Answer(a, b, first)
    BY <1>4 DEF FetchedPast
  <2> HIDE DEF a, b, past
  <2>5. CASE first = "answered"
    <3>1. past = [d \in Days |-> IF d \in a..b THEN traded[d] ELSE 0]
      BY <2>4, <2>5 DEF Answer, Ticks
    <3>2. \A d \in Missing : d \in a..b
      BY <1>2, <2>3
    <3>3. \A d \in Days : d >= day => d \notin a..b
      BY <1>1, <1>2, <2>3
    <3>4. \A d \in Days : past[d] = IF d \in a..b THEN traded[d] ELSE 0
      BY <3>1
    <3>5. past \in [Days -> Nat]
      BY <1>1, <3>1
    <3>6. \A d \in Days : past[d] <= traded[d] /\ (d >= day => past[d] = 0)
      BY <1>1, <3>3, <3>4
    <3>7. \A d \in Missing : past[d] = traded[d]
      BY <1>2, <3>2, <3>4
    <3> QED BY <3>5, <3>6, <3>7 DEF past
  <2>6. CASE first # "answered"
    <3>1. past = Nothing
      BY <2>4, <2>6 DEF Answer
    <3> QED BY <1>1, <2>6, <3>1 DEF Nothing, past
  <2> QED BY <2>5, <2>6
<1> QED BY <1>3, <1>4

\* A trade is in some frame when a file, the query of the past or that of today has it.
LEMMA FramesFacts ==
    ASSUME NEW past \in [Days -> Nat], NEW today \in [Days -> Nat], NEW t \in Trades
    PROVE  /\ Frames(past, today, t) > 0 <=>
                \/ t[1] \in Cached /\ t[2] <= dayFile[t[1]].ticks
                \/ t[2] <= past[t[1]]
                \/ t[2] <= today[t[1]]
           /\ Frames(past, today, t) \in Nat
<1> DEFINE has(f) == t[2] <= CASE f = "cached" -> IF t[1] \in Cached THEN dayFile[t[1]].ticks ELSE 0
                               [] f = "past" -> past[t[1]]
                               [] f = "today" -> today[t[1]]
           all == {"cached", "past", "today"}
           S == {f \in all : has(f)}
<1>1. t[1] \in Days /\ t[2] \in Nat /\ t[2] >= 1
  BY DatabaseAssumption DEF Trades
<1>2. /\ has("cached") <=> t[1] \in Cached /\ t[2] <= dayFile[t[1]].ticks
      /\ has("past") <=> t[2] <= past[t[1]]
      /\ has("today") <=> t[2] <= today[t[1]]
  BY <1>1
<1>3. IsFiniteSet(all)
  <2>1. IsFiniteSet({"cached"}) /\ IsFiniteSet({"past"}) /\ IsFiniteSet({"today"})
    BY FS_Singleton
  <2>2. IsFiniteSet({"past"} \cup {"today"})
    BY <2>1, FS_Union
  <2>3. IsFiniteSet({"cached"} \cup ({"past"} \cup {"today"}))
    BY <2>1, <2>2, FS_Union
  <2>4. all = {"cached"} \cup ({"past"} \cup {"today"})
    OBVIOUS
  <2> HIDE DEF all
  <2> QED BY <2>3, <2>4
<1>4. S \subseteq all /\ Frames(past, today, t) = Cardinality(S)
  BY DEF Frames
<1>5. S # {} <=> has("cached") \/ has("past") \/ has("today")
  OBVIOUS
<1> HIDE DEF S, has, all
<1>6. IsFiniteSet(S)
  BY <1>3, <1>4, FS_Subset
<1>7. Cardinality(S) \in Nat /\ (Cardinality(S) = 0 <=> S = {})
  BY <1>6, FS_EmptySet, FS_CardinalityType
<1> QED BY <1>2, <1>4, <1>5, <1>7

\* A warm-up whose queries were answered keeps one trade of each timestamp.
LEMMA WarmedUp ==
    ASSUME DatabaseInv, DayInv, \A d \in Days : traded[d] <= MaxTicks,
           NEW first \in Outcomes, Missing = {} \/ first = "answered",
           NEW d \in Days, d <= day, d + Window > day,
           NEW s \in Stamps(d, traded[d])
    PROVE  LET got == Distinct(FetchedPast(first), Answer(day, day, "answered"))
           IN \E t \in {u \in Trades : u[1] = d /\ Stamp(u) = s} :
                /\ got[t] = 1
                /\ \A u \in Trades : u[1] = d /\ Stamp(u) = s /\ u # t => got[u] = 0
<1> DEFINE past == FetchedPast(first)
           today == Answer(day, day, "answered")
           got == Distinct(past, today)
<1>1. /\ past \in [Days -> Nat]
      /\ \A e \in Days : past[e] <= traded[e] /\ (e >= day => past[e] = 0)
      /\ \A e \in Missing : past[e] = traded[e]
  BY FetchedPastFacts
<1>2. /\ today \in [Days -> Nat]
      /\ \A e \in Days : today[e] = IF e = day THEN traded[e] ELSE 0
  BY DaysAreNumbers DEF Answer, Ticks, DatabaseInv
<1>3. /\ d \in Nat /\ day \in Nat /\ day \in Days /\ traded[d] \in Nat /\ traded[d] <= MaxTicks
      /\ MaxTicks \in Nat
  BY DaysAreNumbers, DatabaseAssumption DEF DatabaseInv
<1>4. d \in Cached => dayFile[d].ticks = traded[d] /\ d < day
  BY DEF Cached, PastDays, Asked, DayInv, DayFilesAreWhole
<1>5. d # day => d \in Cached \/ d \in Missing
  BY DEF Missing, PastDays, Asked
<1> HIDE DEF past, today
<1>6. ASSUME NEW k \in 1..MaxTicks
      PROVE  /\ <<d, k>> \in Trades
             /\ Frames(past, today, <<d, k>>) > 0 <=> k <= traded[d]
             /\ Frames(past, today, <<d, k>>) \in Nat
  <2>1. <<d, k>> \in Trades /\ <<d, k>>[1] = d /\ <<d, k>>[2] = k /\ k \in Nat /\ k > 0
    BY <1>3 DEF Trades
  <2>2. /\ Frames(past, today, <<d, k>>) > 0 <=>
             (d \in Cached /\ k <= dayFile[d].ticks) \/ k <= past[d] \/ k <= today[d]
        /\ Frames(past, today, <<d, k>>) \in Nat
    BY <1>1, <1>2, <2>1, FramesFacts
  <2>3. past[d] \in Nat /\ past[d] <= traded[d] /\ today[d] \in Nat
    BY <1>1, <1>2
  <2>4. CASE d = day
    BY <1>1, <1>2, <1>3, <1>4, <2>1, <2>2, <2>3, <2>4
  <2>5. CASE d # day
    BY <1>1, <1>2, <1>3, <1>4, <1>5, <2>1, <2>2, <2>3, <2>5
  <2> QED BY <2>1, <2>2, <2>4, <2>5
<1> DEFINE K == {k \in 1..MaxTicks : Stamp(<<d, k>>) = s /\ k <= traded[d]}
<1>7. K \subseteq Nat /\ K # {}
  <2>1. PICK k \in 1..traded[d] : s = Stamp(<<d, k>>)
    BY DEF Stamps
  <2>2. k \in 1..MaxTicks /\ k <= traded[d]
    BY <1>3, <2>1
  <2> QED BY <1>3, <2>1, <2>2
<1>8. PICK k \in K : \A l \in K : k <= l
  <2> HIDE DEF K
  <2> QED BY <1>7, LeastNumber
<1> DEFINE t == <<d, k>>
<1>9. k \in 1..MaxTicks /\ k \in Nat /\ Stamp(t) = s /\ k <= traded[d] /\ t \in Trades
  BY <1>3, <1>6, <1>8
<1>10. \A u \in Trades :
         got[u] = IF /\ Frames(past, today, u) > 0
                     /\ \A l \in 1..u[2] - 1 :
                          Stamp(<<u[1], l>>) # Stamp(u) \/ Frames(past, today, <<u[1], l>>) = 0
                  THEN 1 ELSE 0
  BY DEF Distinct
<1> HIDE DEF got
<1>11. got[t] = 1
  <2>1. Frames(past, today, t) > 0
    BY <1>6, <1>9
  <2>2. ASSUME NEW l \in 1..k - 1 PROVE Stamp(<<d, l>>) # Stamp(t)
    <3>1. l \in 1..MaxTicks /\ l <= traded[d] /\ l < k /\ l \in Nat
      BY <1>3, <1>9
    <3> QED BY <1>8, <1>9, <3>1
  <2>3. t[1] = d /\ t[2] = k
    OBVIOUS
  <2> QED BY <1>9, <1>10, <2>1, <2>2, <2>3
<1>12. ASSUME NEW u \in Trades, u[1] = d, Stamp(u) = s, u # t PROVE got[u] = 0
  <2>1. PICK l \in 1..MaxTicks : u = <<d, l>>
    BY <1>12 DEF Trades
  <2>2. l \in Nat /\ l # k /\ u[2] = l
    BY <1>3, <1>12, <2>1
  <2>3. CASE l < k
    <3>1. l <= traded[d]
      BY <1>3, <1>9, <2>2, <2>3
    <3>2. l \in K
      BY <1>12, <2>1, <3>1
    <3> QED BY <1>8, <1>9, <2>2, <2>3, <3>2
  <2>4. CASE k < l
    <3>1. k \in 1..l - 1 /\ Stamp(<<d, k>>) = Stamp(u) /\ Frames(past, today, <<d, k>>) # 0
      BY <1>3, <1>6, <1>9, <1>12, <2>2, <2>4
    <3> QED BY <1>10, <1>12, <2>1, <2>2, <3>1
  <2> QED BY <1>9, <2>2, <2>3, <2>4
<1> QED BY <1>9, <1>11, <1>12 DEF got, past, today

LEMMA PrimedStep ==
    ASSUME CacheInv, PrimedInv, [Next]_vars
    PROVE  PrimedInv'
<1>1. DatabaseInv /\ DayInv
  BY DEF CacheInv
<1>2. /\ \A d \in Days : d \in Nat /\ traded[d] \in Nat
      /\ MaxTicks \in Nat /\ day \in Nat /\ day \in Days /\ primed.on \in Nat
  BY <1>1, DaysAreNumbers, DatabaseAssumption DEF DatabaseInv, PrimedInv
<1>3. ASSUME World, UNCHANGED primed PROVE PrimedInv'
  <2>1. /\ day' \in Nat /\ day' >= day
        /\ \A d \in Days : d < day => traded'[d] = traded[d]
    BY <1>1, <1>3, WorldFacts, DaysAreNumbers DEF DatabaseInv
  <2>2. \A d \in Days : traded'[d] <= MaxTicks
    <3>1. CASE Trade
      BY <1>1, <1>2, <3>1 DEF Trade, PrimedInv, DatabaseInv
    <3>2. CASE PassTime \/ ServerDrops
      BY <3>2 DEF PassTime, ServerDrops, PrimedInv
    <3> QED BY <1>3, <3>1, <3>2 DEF World
  <2>3. primed.on <= day'
    BY <1>2, <2>1 DEF PrimedInv
  <2>4. \A d \in Days : d <= primed.on /\ d # primed.on => traded'[d] = traded[d]
    BY <1>2, <2>1 DEF PrimedInv
  <2>5. WarmupIsTheWindow'
    <3> SUFFICES ASSUME ~primed.trouble, NEW d \in Days, d <= primed.on, d + Window > primed.on
                 PROVE  Stamps(d, IF d = primed.on THEN primed.seen ELSE traded'[d])
                        = Stamps(d, IF d = primed.on THEN primed.seen ELSE traded[d])
      BY <1>3 DEF PrimedInv, WarmupIsTheWindow
    <3> QED BY <2>4
  <2> QED BY <1>2, <1>3, <2>2, <2>3, <2>5 DEF PrimedInv
<1>4. ASSUME UNCHANGED <<day, traded, primed>> PROVE PrimedInv'
  BY <1>4 DEF PrimedInv, WarmupIsTheWindow
<1>5. ASSUME NEW first \in Outcomes, NEW second \in Outcomes, NEW fates,
             WarmUp(first, second, fates)
      PROVE  PrimedInv'
  <2>1. UNCHANGED <<day, traded>>
    BY <1>5 DEF WarmUp
  <2>2. CASE primed' = NotPrimed
    BY <1>2, <2>1, <2>2 DEF PrimedInv, WarmupIsTheWindow, NotPrimed
  <2>3. CASE primed' # NotPrimed
    <3> DEFINE got == Distinct(FetchedPast(first), Answer(day, day, second))
    <3>1. /\ primed'.on = day /\ primed'.got = got /\ primed'.seen = traded[day]
          /\ primed'.trouble = (second # "answered" \/ (Missing # {} /\ first # "answered"))
      BY <1>5, <2>3 DEF WarmUp
    <3> HIDE DEF got
    <3>2. ASSUME ~primed'.trouble, NEW d \in Days, d <= day, d + Window > day,
                 NEW s \in Stamps(d, IF d = day THEN traded[day] ELSE traded[d])
          PROVE  \E t \in {u \in Trades : u[1] = d /\ Stamp(u) = s} :
                   /\ got[t] = 1
                   /\ \A u \in Trades : u[1] = d /\ Stamp(u) = s /\ u # t => got[u] = 0
      <4>1. second = "answered" /\ (Missing = {} \/ first = "answered")
        BY <3>1, <3>2
      <4>2. s \in Stamps(d, traded[d])
        BY <3>2
      <4>3. \A e \in Days : traded[e] <= MaxTicks
        BY DEF PrimedInv
      <4> QED BY <1>1, <3>2, <4>1, <4>2, <4>3, WarmedUp DEF got
    <3>3. WarmupIsTheWindow'
      BY <2>1, <3>1, <3>2 DEF WarmupIsTheWindow
    <3> QED BY <1>2, <2>1, <3>1, <3>3 DEF PrimedInv
  <2> QED BY <2>2, <2>3
<1>6. CASE World /\ UNCHANGED <<monthVars, dayVars, role>>
  BY <1>3, <1>6 DEF dayVars
<1>7. CASE NextMonths /\ UNCHANGED <<dayVars, role>>
  <2>1. UNCHANGED <<day, traded>>
    BY <1>7 DEF NextMonths, Start, End, FromCache, DropTorn, Unanswered, Refused, FetchAndCache,
                Fetching, Import, InvalidateMonth, InvalidateAll, dbVars
  <2> QED BY <1>4, <1>7, <2>1 DEF dayVars
<1>8. CASE NextDays
  <2>1. ASSUME NEW gone, Evict(gone) PROVE PrimedInv'
    BY <1>4, <2>1 DEF Evict, dbVars
  <2> QED BY <1>5, <1>8, <2>1 DEF NextDays
<1>9. CASE UNCHANGED vars
  BY <1>4, <1>9 DEF vars, dbVars, dayVars
<1> QED BY <1>6, <1>7, <1>8, <1>9 DEF Next

\* A warm-up whose queries were answered hands the strategy every timestamp traded in
\* its window once, from whichever mix of files, one query over the gaps and today's
\* query (load_with_cache), for any window and any trades that share a timestamp.
THEOREM WarmupsAreTheWindow == Spec => []WarmupIsTheWindow
<1>1. Init => PrimedInv
  <2> SUFFICES ASSUME Init PROVE PrimedInv
    OBVIOUS
  <2>1. \A d \in Days : traded[d] <= MaxTicks
    BY DatabaseAssumption DEF Init, InitDatabase
  <2> QED BY <2>1, DatabaseAssumption DEF Init, InitDatabase, InitDays, NotPrimed, PrimedInv, WarmupIsTheWindow
<1>2. CacheInv /\ PrimedInv /\ [Next]_vars => PrimedInv'
  BY PrimedStep
<1>3. PrimedInv => WarmupIsTheWindow
  BY DEF PrimedInv
<1> QED BY <1>1, <1>2, <1>3, CacheAlways, PTL DEF Spec
=============================================================================
