------------------------- MODULE PaperEngineProofs -------------------------
(***************************************************************************)
(* Theorems about PaperEngine for any bars, margins and quantities.        *)
(***************************************************************************)
EXTENDS PaperEngine, FiniteSetTheorems, TLAPS

-----------------------------------------------------------------------------
(* The session tests agree with one another at every minute.               *)

\* A time and a later one of the same day.
LEMMA SameDay ==
    ASSUME NEW t \in Nat, NEW f \in Nat, TimeOfDay(t) + f < 1440
    PROVE  /\ TimeOfDay(t) \in 0..1439
           /\ TimeOfDay(t + f) = TimeOfDay(t) + f
           /\ Weekday(t + f) = Weekday(t)
<1> DEFINE d == t \div 1440
           m == t % 1440
<1>1. d \in Nat /\ m \in 0..1439 /\ t = 1440 * d + m
  BY Z3
<1>2. m + f < 1440
  BY DEF TimeOfDay, MinutesPerDay
<1> HIDE DEF d, m
<1>3. (t + f) \div 1440 = d /\ (t + f) % 1440 = m + f
  BY <1>1, <1>2, Z3
<1> QED BY <1>1, <1>3 DEF TimeOfDay, Weekday, MinutesPerDay, d, m

\* RiskHandler recognises the end of a session in two ways: the bar closes
\* outside trading hours (the last-candle test), or get_force_close_reason
\* says that at most one bar is left of it.  For bars no longer than the lunch
\* break the two agree at every minute of trading hours.
THEOREM SessionEndsAgree ==
    \A t \in Nat, f \in 1..90 :
        IsTradingHours(t) => (ClosesOutside(t, f) <=> ForceCloses(t, f))
<1> SUFFICES ASSUME NEW t \in Nat, NEW f \in 1..90, IsTradingHours(t)
             PROVE  ClosesOutside(t, f) <=> ForceCloses(t, f)
  OBVIOUS
<1> USE DEF HM, MorningStart, MorningEnd, AfternoonStart, AfternoonEnd, AtcStart, AtcEnd
<1>1. SessionOf(t) \in {"morning", "afternoon"} /\ Weekday(t) < 5
  BY DEF IsTradingHours
<1>2. CASE SessionOf(t) = "morning"
  <2>1. TimeOfDay(t) \in 540..689
    BY <1>2 DEF SessionOf, InMorning, TimeOfDay, MinutesPerDay
  <2>a. f \in Nat /\ TimeOfDay(t) + f < 1440
    BY <2>1
  <2>2. TimeOfDay(t + f) = TimeOfDay(t) + f /\ Weekday(t + f) < 5
    BY <1>1, <2>a, SameDay
  <2>3. IsTradingHours(t + f) <=> TimeOfDay(t) + f < 690
    BY <2>1, <2>2 DEF IsTradingHours, SessionOf, InMorning, InAfternoon, InAtc
  <2>4. MinutesToEnd(t) = 690 - TimeOfDay(t)
    BY <1>2 DEF MinutesToEnd, SessionEnd
  <2> QED BY <1>2, <2>1, <2>3, <2>4 DEF ClosesOutside, ForceCloses
<1>3. CASE SessionOf(t) = "afternoon"
  <2>1. TimeOfDay(t) \in 780..869
    BY <1>3 DEF SessionOf, InMorning, InAfternoon, TimeOfDay, MinutesPerDay
  <2>a. f \in Nat /\ TimeOfDay(t) + f < 1440
    BY <2>1
  <2>2. TimeOfDay(t + f) = TimeOfDay(t) + f /\ Weekday(t + f) < 5
    BY <1>1, <2>a, SameDay
  <2>3. IsTradingHours(t + f) <=> TimeOfDay(t) + f < 870
    BY <2>1, <2>2 DEF IsTradingHours, SessionOf, InMorning, InAfternoon, InAtc
  <2>4. MinutesToEnd(t) = 870 - TimeOfDay(t)
    BY <1>3 DEF MinutesToEnd, SessionEnd
  <2> QED BY <1>3, <2>1, <2>3, <2>4 DEF ClosesOutside, ForceCloses
<1> QED BY <1>1, <1>2, <1>3

\* A cutoff of one bar keeps entries off every bar the last-candle test
\* flattens, and off those that are skipped anyway.
THEOREM CutoffCoversLastCandle ==
    \A t \in Nat, f \in 1..90 :
        ClosesOutside(t, f) => IsEntryBlocked(t, f, FALSE) \/ ShouldSkipSignal(t)
<1> SUFFICES ASSUME NEW t \in Nat, NEW f \in 1..90, ClosesOutside(t, f), IsTradingHours(t)
             PROVE  IsEntryBlocked(t, f, FALSE)
  BY DEF ShouldSkipSignal
<1>1. ForceCloses(t, f)
  BY SessionEndsAgree
<1> QED BY <1>1 DEF ForceCloses, IsEntryBlocked
-----------------------------------------------------------------------------
(* The deferred exit.                                                      *)

\* In a dry run nothing is ever in progress, and a reason outlives no position.
DryInv ==
    dryRun =>
        /\ entering = {} /\ exiting = 0
        /\ deferred /\ phase # "stopped" => pos # 0

LEMMA DryInit == PInit => DryInv
BY DEF PInit, DryInv

\* A dry exit goes through at once or finds nothing to close.
LEMMA DrySubmits ==
    ASSUME DryInv, dryRun, SubmitExit
    PROVE  /\ entering' = entering /\ exiting' = exiting
           /\ pos = 0 => pos' = pos
BY DEF DryInv, SubmitExit, Exit, ExitDry, ExitRefused, ExitNotNeeded, desk

\* No action turns an order-sending engine into a dry one.
LEMMA DryStays == [PNext]_vars => dryRun' = dryRun
<1> SUFFICES ASSUME [PNext]_vars PROVE dryRun' = dryRun
  OBVIOUS
<1>1. SubmitExit => dryRun' = dryRun
  BY DEF SubmitExit, Exit, ExitDry, ExitRefused, ExitNotNeeded, desk
<1>2. SubmitExitOrDefer(next) => dryRun' = dryRun
  BY <1>1 DEF SubmitExitOrDefer, desk
<1>3. OnBar => dryRun' = dryRun
  BY <1>1, <1>2 DEF OnBar, DeferredExit, RiskExit, ForcedExit, NoSignal, SignalExit,
                    SignalEntry, Enter, EnterDry, desk
<1>4. Outcome => dryRun' = dryRun
  BY DEF Outcome, EntryFills, EntryDropped, ExitFills, ExitDropped
<1> QED BY <1>1, <1>3, <1>4 DEF PNext, EmptyBucket, StopBegins, StopEnds, vars, desk

LEMMA DryBar == ASSUME DryInv, dryRun, OnBar PROVE DryInv'
<1> USE DEF DryInv
<1>0. phase' = phase /\ phase # "stopped"
  BY DEF OnBar
<1>1. CASE DeferredExit(next)
  BY <1>0, <1>1, DrySubmits DEF DeferredExit
<1>2. ASSUME ~DeferredExitIsDue(next), pos # 0, SubmitExitOrDefer(next) PROVE DryInv'
  <2>1. CASE CanExitNow(next) /\ SubmitExit /\ deferred' = FALSE
    BY <2>1, DrySubmits
  <2>2. CASE ~CanExitNow(next) /\ deferred' = (deferred \/ config.defer) /\ UNCHANGED desk
    BY <1>2, <2>2 DEF desk
  <2> QED BY <1>2, <2>1, <2>2 DEF SubmitExitOrDefer
<1>3. CASE NoSignal(next)
  BY <1>0, <1>3 DEF NoSignal, desk
<1>4. CASE SignalExit(next)
  <2>1. ~deferred
    BY <1>4 DEF SignalExit, ReachesSignals, DeferredExitIsDue, ShouldSkipSignal
  <2> QED BY <1>0, <1>4, <2>1, DrySubmits DEF SignalExit
<1>5. CASE SignalEntry(next)
  <2>1. ~deferred
    BY <1>5 DEF SignalEntry, ReachesSignals, DeferredExitIsDue, ShouldSkipSignal
  <2> QED BY <1>5, <2>1 DEF SignalEntry, Enter, EnterDry
<1> QED BY <1>1, <1>2, <1>3, <1>4, <1>5 DEF OnBar, RiskExit, ForcedExit

LEMMA DryStep == DryInv /\ [PNext]_vars => DryInv'
<1> SUFFICES ASSUME DryInv, [PNext]_vars, dryRun PROVE DryInv'
  BY DryStays DEF DryInv
<1> USE DEF DryInv
<1>1. CASE OnBar
  BY <1>1, DryBar
<1>2. CASE EmptyBucket
  BY <1>2 DEF EmptyBucket, desk
<1>3. CASE Outcome
  BY <1>3 DEF Outcome, ExitDropped
<1>4. CASE StopBegins
  BY <1>4 DEF StopBegins, desk
<1>5. CASE StopEnds
  BY <1>5, DrySubmits DEF StopEnds, desk
<1>6. CASE UNCHANGED vars
  BY <1>6 DEF vars, desk
<1> QED BY <1>1, <1>2, <1>3, <1>4, <1>5, <1>6 DEF PNext

\* In a replay or a dry run, whatever the bars, the margins and the triggers,
\* the reason BarHandler acts on always refers to the position that is open:
\* no bar is swallowed by, and no later position closed for, an old reason.
THEOREM DeferralNeverStale == PSpec => []NoStaleDeferral
<1>1. DryInv => NoStaleDeferral
  BY DEF DryInv, NoStaleDeferral
<1> QED BY <1>1, DryInit, DryStep, PTL DEF PSpec
-----------------------------------------------------------------------------
(* The bars of a day.                                                      *)

\* A set of numbers has a least one: subsets of Nat of the form 0..x are ordered
\* by strict inclusion, which is well founded.
LEMMA LeastBar ==
    ASSUME NEW T, T \subseteq Nat, T # {}
    PROVE  \E x \in T : \A y \in T : x <= y
<1> DEFINE R == StrictSubsetOrdering(Nat)
           F == FiniteSubsetsOf(Nat)
           U == {0..x : x \in T}
<1>1. IsWellFoundedOn(R, F)
  BY FS_StrictSubsetOrderingWellFounded
<1>2. U \subseteq F /\ U # {}
  <2>1. U # {}
    OBVIOUS
  <2>2. ASSUME NEW x \in T PROVE 0..x \in F
    <3>1. IsFiniteSet(0..x)
      BY FS_Interval
    <3>2. 0..x \subseteq Nat
      OBVIOUS
    <3> QED BY <3>1, <3>2 DEF FiniteSubsetsOf
  <2> QED BY <2>1, <2>2
<1> HIDE DEF R, F, U
<1>3. PICK u \in U : \A v \in U : ~(<<v, u>> \in R)
  BY <1>1, <1>2, WFMin
<1>4. PICK x \in T : u = 0..x
  BY DEF U
<1>5. ASSUME NEW y \in T, y < x PROVE FALSE
  <2>1. 0..y \in U /\ x \in Nat /\ y \in Nat
    BY DEF U
  <2>2. 0..y \subseteq 0..x /\ 0..y # 0..x
    <3>1. x \in 0..x /\ x \notin 0..y
      BY <2>1, <1>5
    <3> QED BY <3>1, <2>1, <1>5
  <2>3. <<0..y, u>> \in R
    BY <2>1, <2>2, <1>4 DEF R, StrictSubsetOrdering
  <2> QED BY <1>3, <2>1, <2>3
<1> QED BY <1>5

\* Buckets start at the multiples of their length.
LEMMA Buckets ==
    ASSUME NEW f, f \in Nat \ {0}, NEW t, t \in Nat
    PROVE  /\ t % f \in 0..f - 1
           /\ t - (t % f) \in 0..t
           /\ \E k \in Nat : t - (t % f) = f * k
<1> DEFINE k == t \div f
           r == t % f
<1>1. t = f * k + r /\ k \in Int /\ r \in 0..f - 1
  BY Z3
<1>2. k >= 0
  <2> HIDE DEF k, r
  <2>1. \A i \in Int : i < 0 => f * i <= -f
    BY Z3
  <2> QED BY <1>1, <2>1
<1>3. t - r = f * k /\ r <= t
  <2> HIDE DEF k, r
  <2>1. f * k \in Nat
    BY <1>1, <1>2
  <2> DEFINE p == f * k
  <2> HIDE DEF p
  <2>2. t = p + r /\ p \in Nat
    BY <1>1, <2>1 DEF p
  <2>3. t - r = p /\ r <= t
    BY <1>1, <2>2
  <2> QED BY <2>3 DEF p
<1>4. k \in Nat /\ t - r \in 0..t
  <2> HIDE DEF k, r
  <2> QED BY <1>1, <1>2, <1>3
<1>5. \E i \in Nat : t - r = f * i
  <2> HIDE DEF r, k
  <2> QED BY <1>3, <1>4
<1> QED BY <1>1, <1>4, <1>5

\* A multiple starts a bucket, and the next one is a bucket away.
LEMMA Multiples ==
    ASSUME NEW f, f \in Nat \ {0}, NEW j, j \in Nat, NEW k, k \in Nat
    PROVE  /\ (f * j) % f = 0
           /\ f * k > f * j => f * k >= f * j + f
           /\ f * (j + 1) = f * j + f
<1>1. f * (j + 1) = f * j + f
  BY Z3
<1>2. (f * j) % f = 0
  BY Z3
<1>3. f * k > f * j => f * k >= f * j + f
  BY Z3
<1> QED BY <1>1, <1>2, <1>3

\* With more than m minutes of the session left, a bucket no longer than m ends
\* inside the hours.
LEMMA Room ==
    ASSUME NEW t, t \in 0..1439, IsTradingHours(t),
           NEW f, f \in Nat \ {0}, NEW m, m \in Nat, m >= f,
           ~(MinutesToEnd(t) <= m)
    PROVE  IsTradingHours(t + f)
<1> USE DEF HM, MorningStart, MorningEnd, AfternoonStart, AfternoonEnd, AtcStart, AtcEnd
<1>1. TimeOfDay(t) = t /\ Weekday(t) = 0
  BY DEF TimeOfDay, Weekday, MinutesPerDay
<1>2. CASE SessionOf(t) = "morning"
  <2>1. 540 <= t /\ t < 690
    BY <1>1, <1>2 DEF SessionOf, InMorning
  <2>2. t + f < 690
    BY <1>1, <1>2, <2>1 DEF MinutesToEnd, SessionEnd
  <2>3. TimeOfDay(t + f) = t + f /\ Weekday(t + f) = 0
    BY <2>1, <2>2 DEF TimeOfDay, Weekday, MinutesPerDay
  <2> QED BY <2>1, <2>2, <2>3 DEF IsTradingHours, SessionOf, InMorning
<1>3. CASE SessionOf(t) = "afternoon"
  <2>1. 780 <= t /\ t < 870
    BY <1>1, <1>3 DEF SessionOf, InMorning, InAfternoon
  <2>2. t + f < 870
    BY <1>1, <1>3, <2>1 DEF MinutesToEnd, SessionEnd
  <2>3. TimeOfDay(t + f) = t + f /\ Weekday(t + f) = 0
    BY <2>1, <2>2 DEF TimeOfDay, Weekday, MinutesPerDay
  <2> QED BY <2>1, <2>2, <2>3 DEF IsTradingHours, SessionOf, InMorning, InAfternoon
<1> QED BY <1>2, <1>3 DEF IsTradingHours

\* The times of a Monday.
LEMMA MondayHours ==
    ASSUME NEW t, t \in 0..1439, IsTradingHours(t)
    PROVE  (540 <= t /\ t < 690) \/ (780 <= t /\ t < 870)
<1> USE DEF HM, MorningStart, MorningEnd, AfternoonStart, AfternoonEnd, AtcStart, AtcEnd
<1>1. TimeOfDay(t) = t /\ Weekday(t) = 0
  BY DEF TimeOfDay, Weekday, MinutesPerDay
<1> QED BY <1>1 DEF IsTradingHours, IsAtc, SessionOf, InMorning, InAfternoon, InAtc

LEMMA MondayAuction ==
    ASSUME NEW t, t \in 0..1439, IsAtc(t)
    PROVE  870 <= t /\ t < 885
<1> USE DEF HM, MorningStart, MorningEnd, AfternoonStart, AfternoonEnd, AtcStart, AtcEnd
<1>1. TimeOfDay(t) = t /\ Weekday(t) = 0
  BY DEF TimeOfDay, Weekday, MinutesPerDay
<1> QED BY <1>1 DEF IsTradingHours, IsAtc, SessionOf, InMorning, InAfternoon, InAtc

LEMMA MondayOpen ==
    ASSUME NEW t, t \in 0..1439, SessionOf(t) # "closed"
    PROVE  IsTradingHours(t) \/ IsAtc(t)
<1> USE DEF HM, MorningStart, MorningEnd, AfternoonStart, AfternoonEnd, AtcStart, AtcEnd
<1>1. TimeOfDay(t) = t /\ Weekday(t) = 0
  BY DEF TimeOfDay, Weekday, MinutesPerDay
<1> QED BY <1>1 DEF IsTradingHours, IsAtc, SessionOf, InMorning, InAfternoon, InAtc

\* A bar is a bucket of the day; every bucket that starts in the hours is a bar,
\* and in a replay no other but those of the auction.
LEMMA BarsFacts ==
    ASSUME config \in Settings, NEW f, f = config.freq
    PROVE  /\ f \in Nat \ {0}
           /\ \A b \in Bars : b \in 0..1439
           /\ \A b \in Bars : \E k \in Nat : b = f * k
           /\ config.mode = "sim" => \A b \in Bars : SessionOf(b) # "closed"
           /\ \A b : b \in 0..1439 /\ b % f = 0 /\ IsTradingHours(b) => b \in Bars
<1> DEFINE H == {u \in 0..MinutesPerDay - 1 : IsTradingHours(u)}
           O == {u \in 0..MinutesPerDay - 1 : SessionOf(u) # "closed"}
           P == {t - (t % f) : t \in H}
           Q == {b \in {t - (t % f) : t \in O} : SessionOf(b) # "closed"}
<1>1. f \in Nat \ {0}
  BY EngineAssumption DEF Setting
<1>2. BucketStarts[f] = P /\ ReplayedStarts[f] = Q
  BY DEF BucketStarts, ReplayedStarts
<1>3. Bars = IF config.mode = "sim" THEN Q ELSE P
  BY <1>2 DEF Bars
<1>4. /\ \A u : u \in H <=> u \in 0..1439 /\ IsTradingHours(u)
      /\ \A u : u \in O <=> u \in 0..1439 /\ SessionOf(u) # "closed"
  <2>1. 0..MinutesPerDay - 1 = 0..1439
    BY DEF MinutesPerDay
  <2> HIDE DEF H, O
  <2>2. \A u : u \in H <=> u \in 0..1439 /\ IsTradingHours(u)
    BY <2>1 DEF H
  <2>3. \A u : u \in O <=> u \in 0..1439 /\ SessionOf(u) # "closed"
    BY <2>1 DEF O
  <2> QED BY <2>2, <2>3
<1> HIDE DEF H, O
<1> DEFINE Floor(t) == t - (t % f)
<1>5. ASSUME NEW t, t \in 0..1439
      PROVE  Floor(t) \in 0..1439 /\ \E k \in Nat : Floor(t) = f * k
  <2>1. t \in Nat
    BY <1>5
  <2>2. Floor(t) \in 0..t
    BY <1>1, <2>1, Buckets
  <2>3. \E k \in Nat : Floor(t) = f * k
    BY <1>1, <2>1, Buckets
  <2> HIDE DEF Floor
  <2>4. Floor(t) \in 0..1439
    BY <1>5, <2>2
  <2> QED BY <2>3, <2>4
<1>6. \A b \in P \cup Q : \E t : t \in 0..1439 /\ b = t - (t % f)
  BY <1>4
<1>7. ASSUME NEW b, b \in 0..1439, b % f = 0, IsTradingHours(b)
      PROVE  b \in P /\ b \in Q
  <2>1. SessionOf(b) # "closed"
    BY <1>7 DEF IsTradingHours
  <2>2. b \in H /\ b \in O
    BY <1>4, <1>7, <2>1
  <2>3. b - (b % f) = b
    BY <1>7
  <2> QED BY <2>1, <2>2, <2>3
<1>8. \A b \in Q : SessionOf(b) # "closed"
  OBVIOUS
<1> HIDE DEF P, Q
<1>9. Bars \subseteq P \cup Q
  BY <1>3
<1>10. \A b \in P \cup Q : \E t : t \in 0..1439 /\ b = Floor(t)
  BY <1>6
<1> HIDE DEF Floor
<1>11. ASSUME NEW b \in Bars PROVE b \in 0..1439 /\ \E k \in Nat : b = f * k
  <2>1. PICK t : t \in 0..1439 /\ b = Floor(t)
    BY <1>9, <1>10
  <2>2. Floor(t) \in 0..1439
    BY <1>5, <2>1
  <2>3. \E k \in Nat : Floor(t) = f * k
    BY <1>5, <2>1
  <2> QED BY <2>1, <2>2, <2>3
<1>12. config.mode = "sim" => \A b \in Bars : SessionOf(b) # "closed"
  BY <1>3, <1>8
<1>13. \A b : b \in 0..1439 /\ b % f = 0 /\ IsTradingHours(b) => b \in Bars
  BY <1>3, <1>7
<1> QED BY <1>1, <1>11, <1>12, <1>13

\* The day starts with the first bar, and the bar that follows comes next.
LEMMA FollowingFacts ==
    ASSUME config \in Settings, NEW t \in Bars, NEW c \in Bars, c > t
    PROVE  /\ Following(t) \in Bars /\ Following(t) > t
           /\ \A d \in Bars : d > t => Following(t) <= d
           /\ Following(t) # FirstBar
<1> DEFINE L == Later(t)
<1>1. \A b \in Bars : b \in Nat
  BY BarsFacts
<1>2. L = {b \in Bars : b > t} /\ c \in L
  BY DEF Later
<1> HIDE DEF L
<1>3. \E b \in L : \A d \in L : b <= d
  BY <1>1, <1>2, LeastBar
<1>4. Following(t) \in L /\ \A d \in L : Following(t) <= d
  <2>1. Following(t) = CHOOSE b \in L : \A d \in L : b <= d
    BY <1>2 DEF Following, L
  <2> QED BY <1>3, <2>1
<1>5. \E b \in Bars : \A d \in Bars : b <= d
  BY <1>1, LeastBar
<1>6. FirstBar \in Bars /\ \A d \in Bars : FirstBar <= d
  BY <1>5 DEF FirstBar
<1>7. Following(t) # FirstBar
  <2>1. FirstBar <= t /\ FirstBar \in Nat /\ t \in Nat /\ Following(t) > t
    BY <1>1, <1>2, <1>4, <1>6
  <2> QED BY <2>1
<1> QED BY <1>2, <1>4, <1>7

\* A bar whose bucket ends inside the hours is followed by the next bucket.
LEMMA NextBucket ==
    ASSUME config \in Settings, NEW t \in Bars, IsTradingHours(t),
           IsTradingHours(t + config.freq)
    PROVE  Following(t) # FirstBar /\ IsTradingHours(Following(t)) /\ Following(t) \in Bars
<1> DEFINE f == config.freq
           u == t + f
<1>1. f \in Nat \ {0} /\ t \in 0..1439
  BY BarsFacts
<1>2. PICK j \in Nat : t = f * j
  BY BarsFacts
<1>3. t < 870 /\ j >= 1 /\ f <= t
  <2>1. t >= 540 /\ t < 870
    BY <1>1, MondayHours
  <2>2. j # 0
    <3> HIDE DEF f
    <3>1. j = 0 => t = 0
      BY <1>1, <1>2, Z3
    <3> QED BY <2>1, <3>1
  <2>3. f <= f * j
    <3> HIDE DEF f
    <3>1. \A a \in Nat, i \in Nat \ {0} : a <= a * i
      BY Z3
    <3> QED BY <1>1, <2>2, <3>1
  <2> QED BY <1>2, <2>1, <2>2, <2>3
<1>4. u \in 0..1439
  <2> HIDE DEF f
  <2>1. u < 1740 /\ u \in Nat /\ u < 1440 + 540
    BY <1>1, <1>3
  <2>2. CASE u >= 1440
    <3>1. TimeOfDay(u) < 540
      BY <2>1, <2>2 DEF TimeOfDay, MinutesPerDay
    <3>2. TimeOfDay(u) \in Int
      BY <2>1 DEF TimeOfDay, MinutesPerDay
    <3>3. ~InMorning(u) /\ ~InAfternoon(u)
      BY <3>1, <3>2 DEF InMorning, InAfternoon, HM, MorningStart, AfternoonStart
    <3>4. ~IsTradingHours(u)
      BY <3>3 DEF IsTradingHours, SessionOf
    <3> QED BY <3>4 DEF f
  <2> QED BY <2>1, <2>2
<1> HIDE DEF f
<1>5. u = f * (j + 1) /\ j + 1 \in Nat
  BY <1>1, <1>2, Multiples
<1>6. u \in Bars
  <2>1. u % f = 0
    <3> DEFINE i == j + 1
    <3> HIDE DEF i, u
    <3>1. (f * i) % f = 0
      BY <1>1, <1>5, Multiples DEF i
    <3> QED BY <1>5, <3>1 DEF i
  <2>2. IsTradingHours(u) /\ f = config.freq
    BY DEF f
  <2> QED BY <1>4, <2>1, <2>2, BarsFacts
<1>7. u > t
  BY <1>1
<1>8. /\ Following(t) \in Bars /\ Following(t) > t /\ Following(t) <= u
      /\ Following(t) # FirstBar
  BY <1>6, <1>7, FollowingFacts
<1>9. Following(t) = u
  <2>1. PICK k \in Nat : Following(t) = f * k
    BY <1>8, BarsFacts DEF f
  <2>2. Following(t) >= t + f
    BY <1>1, <1>2, <1>8, <2>1, Multiples
  <2>3. Following(t) \in Nat
    BY <1>8, BarsFacts
  <2> QED BY <1>1, <1>8, <2>2, <2>3
<1> QED BY <1>8, <1>9 DEF f

\* In a replay whose bars include the auction, a bar of the hours is followed by
\* one at which an exit may go out.
LEMMA AuctionToCome ==
    ASSUME config \in Settings, config.mode = "sim", NEW t \in Bars, IsTradingHours(t),
           NEW b \in Bars, IsAtc(b)
    PROVE  Following(t) # FirstBar /\ CanExitNow(Following(t)) /\ Following(t) \in Bars
<1>1. t \in 0..1439 /\ b \in 0..1439
  BY BarsFacts
<1>2. b > t
  <2>1. t < 870
    BY <1>1, MondayHours
  <2>2. b >= 870
    BY <1>1, MondayAuction
  <2> QED BY <1>1, <2>1, <2>2
<1>3. Following(t) # FirstBar /\ Following(t) \in Bars
  BY <1>2, FollowingFacts
<1>4. Following(t) \in 0..1439 /\ SessionOf(Following(t)) # "closed"
  BY <1>3, BarsFacts
<1>5. CanExitNow(Following(t))
  BY <1>4, MondayOpen DEF CanExitNow
<1> QED BY <1>3, <1>5
-----------------------------------------------------------------------------
(* The night.                                                              *)

NightTypes ==
    /\ config \in Settings
    /\ pos \in Int /\ exiting \in Nat
    /\ Bars # {} => next \in Bars

\* On a guarded day an exit in progress is all there is and the whole of it, and
\* what is held without one sees another bar of the day at which it may go out.
DayInv ==
    Guarded /\ Bars # {} /\ phase # "stopped" =>
        /\ exiting > 0 => entering = {} /\ exiting = Magnitude(pos)
        /\ exiting = 0 /\ (pos # 0 \/ entering # {}) => next # FirstBar /\ CanExitNow(next)

NightInv == NightTypes /\ DryInv /\ DayInv

LEMMA FollowingIsBar ==
    ASSUME config \in Settings, Bars # {}
    PROVE  /\ FirstBar \in Bars
           /\ \A t \in Bars : Following(t) \in Bars
<1>1. FirstBar \in Bars
  <2>1. Bars \subseteq Nat
    BY BarsFacts
  <2>2. \E b \in Bars : \A c \in Bars : b <= c
    BY <2>1, LeastBar
  <2> QED BY <2>2 DEF FirstBar
<1>2. ASSUME NEW t \in Bars PROVE Following(t) \in Bars
  <2>1. CASE Later(t) = {}
    BY <1>1, <2>1 DEF Following
  <2>2. CASE Later(t) # {}
    <3>1. PICK c \in Bars : c > t
      BY <2>2 DEF Later
    <3> QED BY <3>1, FollowingFacts
  <2> QED BY <2>1, <2>2
<1> QED BY <1>1, <1>2

\* What a submitted exit leaves.
LEMMA SubmitTypes ==
    ASSUME NightTypes, SubmitExit
    PROVE  pos' \in Int /\ exiting' \in Nat
<1>1. pos \in Int /\ exiting \in Nat
  BY DEF NightTypes
<1>2. CASE Exit
  BY <1>1, <1>2 DEF Exit, Magnitude
<1>3. CASE ExitDry
  BY <1>1, <1>3 DEF ExitDry, RecordClose, Magnitude, Smaller
<1>4. CASE ExitRefused \/ ExitNotNeeded
  BY <1>1, <1>4 DEF ExitRefused, ExitNotNeeded, desk
<1> QED BY <1>2, <1>3, <1>4 DEF SubmitExit

LEMMA CalmExit ==
    ASSUME NightTypes, config.calm, Settled, SubmitExit
    PROVE  /\ entering' = {}
           /\ exiting' > 0 => exiting' = Magnitude(pos')
           /\ exiting' = 0 => pos' = 0
<1>1. pos \in Int /\ exiting = 0 /\ entering = {}
  BY DEF NightTypes, Settled
<1>2. CASE Exit
  <2>1. entering' = {} /\ pos' = pos /\ pos # 0 /\ exiting' = Magnitude(pos)
    BY <1>1, <1>2 DEF Exit
  <2>2. Magnitude(pos) > 0
    BY <1>1, <2>1 DEF Magnitude
  <2> QED BY <2>1, <2>2
<1>3. CASE ExitDry
  <2>1. RecordClose(pos, Magnitude(pos)) = 0
    BY <1>1 DEF RecordClose, Magnitude, Smaller
  <2>2. pos' = 0 /\ entering' = {} /\ exiting' = 0
    BY <1>1, <1>3, <2>1 DEF ExitDry
  <2> QED BY <2>2
<1>4. CASE ExitNotNeeded
  BY <1>1, <1>4 DEF ExitNotNeeded, desk
<1>5. ~ExitRefused
  BY DEF ExitRefused
<1> QED BY <1>2, <1>3, <1>4, <1>5 DEF SubmitExit

LEMMA SameSettings ==
    ASSUME config' = config
    PROVE  Bars' = Bars /\ FirstBar' = FirstBar /\ Guarded' = Guarded
<1>1. Bars' = Bars
  BY DEF Bars
<1>2. FirstBar' = FirstBar
  BY <1>1 DEF FirstBar
<1>3. Guarded' = Guarded
  BY <1>1 DEF Guarded
<1> QED BY <1>1, <1>2, <1>3

\* A position that no exit is due for, or an entry that the cutoff lets through,
\* has another bar to come.
LEMMA RoomLeft ==
    ASSUME config \in Settings, Guarded, NEW t \in Bars, IsTradingHours(t)
    PROVE  /\ ~MustForceFlat(t) => Following(t) # FirstBar /\ CanExitNow(Following(t))
           /\ ~IsEntryBlocked(t, config.cutoff, config.late)
                  => Following(t) # FirstBar /\ CanExitNow(Following(t))
<1> DEFINE f == config.freq
<1>1. /\ f \in Nat \ {0} /\ t \in 0..1439
      /\ config.preclose \in Nat /\ config.cutoff \in Nat
  BY BarsFacts, EngineAssumption DEF Setting
<1>2. IsTradingHours(t + f) => Following(t) # FirstBar /\ CanExitNow(Following(t))
  BY NextBucket DEF CanExitNow
<1>3. SessionOf(t) # "closed"
  BY DEF IsTradingHours
<1>4. ASSUME ~MustForceFlat(t) PROVE IsTradingHours(t + f)
  <2>1. /\ ~ForceCloses(t, config.preclose)
        /\ ~(config.lastCandle /\ ClosesOutside(t, f))
        /\ config.lastCandle \/ config.preclose >= f
    BY <1>4 DEF MustForceFlat, Guarded
  <2>2. CASE config.lastCandle
    BY <2>1, <2>2 DEF ClosesOutside
  <2>3. CASE config.preclose >= f
    <3>1. config.preclose > 0
      BY <1>1, <2>3
    <3>2. ~(MinutesToEnd(t) <= config.preclose)
      BY <1>3, <2>1, <3>1 DEF ForceCloses
    <3> QED BY <1>1, <2>3, <3>2, Room
  <2> QED BY <2>1, <2>2, <2>3
<1>5. ASSUME ~IsEntryBlocked(t, config.cutoff, config.late), config.cutoff >= f, ~config.late
      PROVE  IsTradingHours(t + f)
  <2>1. config.cutoff > 0
    BY <1>1, <1>5
  <2>2. ~(MinutesToEnd(t) <= config.cutoff)
    BY <1>3, <1>5, <2>1 DEF IsEntryBlocked
  <2> QED BY <1>1, <1>5, <2>2, Room
<1>6. ASSUME config.mode = "sim", NEW b \in Bars, IsAtc(b)
      PROVE  Following(t) # FirstBar /\ CanExitNow(Following(t))
  BY <1>6, AuctionToCome
<1>7. (config.cutoff >= f /\ ~config.late) \/ (config.mode = "sim" /\ \E b \in Bars : IsAtc(b))
  BY DEF Guarded
<1> QED BY <1>2, <1>4, <1>5, <1>6, <1>7

LEMMA NightInit == PInit => NightInv
<1> SUFFICES ASSUME PInit PROVE NightInv
  OBVIOUS
<1>1. config \in Settings /\ pos = 0 /\ exiting = 0 /\ entering = {} /\ next = FirstBar
  BY DEF PInit
<1>2. Bars # {} => next \in Bars
  BY <1>1, FollowingIsBar
<1> QED BY <1>1, <1>2, DryInit DEF NightInv, NightTypes, DayInv

\* One bar.
LEMMA NightBar ==
    ASSUME NightInv, OnBar
    PROVE  NightTypes' /\ DayInv'
<1> DEFINE t == next
<1>1. /\ config' = config /\ phase' = phase /\ next' = Following(t) /\ phase # "stopped"
      /\ config \in Settings /\ pos \in Int /\ exiting \in Nat /\ NightTypes
  BY DEF OnBar, NightInv, NightTypes
<1>2. Bars' = Bars /\ FirstBar' = FirstBar /\ Guarded' = Guarded
  BY <1>1, SameSettings
<1>3. \/ SubmitExit
      \/ /\ UNCHANGED desk
         /\ pos = 0 \/ ~MustForceFlat(t) \/ ~CanExitNow(t)
      \/ /\ \/ \E o \in Orders, s \in Side, q \in 1..MaxQty : Enter(o, s, q)
            \/ \E s \in Side, q \in 1..MaxQty : EnterDry(s, q)
         /\ IsTradingHours(t)
         /\ ~IsEntryBlocked(t, config.cutoff, config.late)
  BY DEF OnBar, DeferredExit, RiskExit, ForcedExit, NoSignal, SignalExit, SignalEntry,
         SubmitExitOrDefer, ReachesSignals, ShouldSkipSignal
<1>4. NightTypes'
  <2>1. Bars # {} => next' \in Bars
    BY <1>1, FollowingIsBar DEF NightTypes
  <2>2. pos' \in Int /\ exiting' \in Nat
    <3>1. CASE SubmitExit
      BY <1>1, <3>1, SubmitTypes
    <3>2. CASE UNCHANGED desk
      BY <1>1, <3>2 DEF desk
    <3>3. ASSUME NEW o \in Orders, NEW s \in Side, NEW q \in 1..MaxQty, Enter(o, s, q)
          PROVE  pos' \in Int /\ exiting' \in Nat
      BY <1>1, <3>3 DEF Enter
    <3>4. ASSUME NEW s \in Side, NEW q \in 1..MaxQty, EnterDry(s, q)
          PROVE  pos' \in Int /\ exiting' \in Nat
      BY <1>1, <3>4 DEF EnterDry, RecordOpen, Signed
    <3> QED BY <1>3, <3>1, <3>2, <3>3, <3>4
  <2> QED BY <1>1, <1>2, <2>1, <2>2 DEF NightTypes
<1>5. ASSUME Guarded, Bars # {}
      PROVE  /\ exiting' > 0 => entering' = {} /\ exiting' = Magnitude(pos')
             /\ exiting' = 0 /\ (pos' # 0 \/ entering' # {})
                    => Following(t) # FirstBar /\ CanExitNow(Following(t))
  <2>1. config.calm /\ Settled /\ exiting = 0 /\ entering = {} /\ config.forceFlat
    BY <1>5 DEF Guarded, OnBar, Settled
  <2>2. t \in Bars
    BY <1>1, <1>5 DEF NightTypes
  <2>3. pos # 0 => CanExitNow(t)
    BY <1>1, <1>5, <2>1 DEF NightInv, DayInv
  <2>4. CASE SubmitExit
    BY <1>1, <2>1, <2>4, CalmExit
  <2>5. CASE /\ UNCHANGED desk
             /\ pos = 0 \/ ~MustForceFlat(t) \/ ~CanExitNow(t)
    <3>1. pos' = pos /\ exiting' = 0 /\ entering' = {}
      BY <2>1, <2>5 DEF desk
    <3>2. pos # 0 => ~MustForceFlat(t)
      BY <2>3, <2>5
    <3>3. ~MustForceFlat(t) => IsTradingHours(t)
      BY <2>1 DEF MustForceFlat
    <3>4. pos # 0 => Following(t) # FirstBar /\ CanExitNow(Following(t))
      BY <1>1, <1>5, <2>2, <3>2, <3>3, RoomLeft
    <3> QED BY <3>1, <3>4
  <2>6. CASE /\ \/ \E o \in Orders, s \in Side, q \in 1..MaxQty : Enter(o, s, q)
                \/ \E s \in Side, q \in 1..MaxQty : EnterDry(s, q)
             /\ IsTradingHours(t)
             /\ ~IsEntryBlocked(t, config.cutoff, config.late)
    <3>1. exiting' = 0
      BY <2>1, <2>6 DEF Enter, EnterDry
    <3>2. Following(t) # FirstBar /\ CanExitNow(Following(t))
      BY <1>1, <1>5, <2>2, <2>6, RoomLeft
    <3> QED BY <3>1, <3>2
  <2> QED BY <1>3, <2>4, <2>5, <2>6
<1>6. CanExitNow(next') <=> CanExitNow(Following(t))
  BY <1>1
<1>7. DayInv'
  BY <1>1, <1>2, <1>5 DEF DayInv, CanExitNow
<1> QED BY <1>4, <1>7

\* What becomes of an order.
LEMMA NightOutcome ==
    ASSUME NightInv, Outcome
    PROVE  NightTypes' /\ DayInv'
<1>1. /\ config' = config /\ phase' = phase /\ next' = next
      /\ config \in Settings /\ pos \in Int /\ exiting \in Nat
      /\ Bars # {} => next \in Bars
  BY DEF Outcome, NightInv, NightTypes
<1>2. Bars' = Bars /\ FirstBar' = FirstBar /\ Guarded' = Guarded
  BY <1>1, SameSettings
<1> DEFINE Now == /\ exiting > 0 => entering = {} /\ exiting = Magnitude(pos)
                  /\ exiting = 0 /\ (pos # 0 \/ entering # {}) => next # FirstBar /\ CanExitNow(next)
           Then == /\ exiting' > 0 => entering' = {} /\ exiting' = Magnitude(pos')
                   /\ exiting' = 0 /\ (pos' # 0 \/ entering' # {})
                          => next # FirstBar /\ CanExitNow(next)
<1>3. Guarded /\ Bars # {} /\ phase # "stopped" => Now
  BY DEF NightInv, DayInv
<1>4. ASSUME NEW e \in entering, NEW k \in 1..e.left, EntryFills(e, k)
      PROVE  pos' \in Int /\ exiting' \in Nat /\ (Now => Then)
  <2>1. pos' = RecordOpen(pos, e.side, k) /\ exiting' = exiting /\ entering # {}
    BY <1>4 DEF EntryFills
  <2>2. pos' \in Int
    BY <1>1, <2>1 DEF RecordOpen, Signed
  <2> QED BY <1>1, <2>1, <2>2
<1>5. ASSUME NEW e \in entering, EntryDropped(e)
      PROVE  pos' \in Int /\ exiting' \in Nat /\ (Now => Then)
  <2>1. pos' = pos /\ exiting' = exiting /\ entering # {}
    BY <1>5 DEF EntryDropped
  <2> QED BY <1>1, <2>1
<1>6. ASSUME NEW k \in 1..exiting, ExitFills(k)
      PROVE  pos' \in Int /\ exiting' \in Nat /\ (Now => Then)
  <2>1. /\ exiting' = exiting - k /\ entering' = entering
        /\ pos' = IF k = exiting THEN 0 ELSE RecordClose(pos, k)
    BY <1>6 DEF ExitFills
  <2>2. exiting' \in Nat /\ exiting > 0
    BY <1>1, <2>1
  <2>3. CASE k = exiting
    <3>1. pos' = 0 /\ exiting' = 0
      BY <1>1, <2>1, <2>3
    <3> QED BY <2>1, <2>2, <3>1
  <2>4. CASE k # exiting
    <3>1. pos' = RecordClose(pos, k) /\ exiting' > 0
      BY <1>1, <2>1, <2>4
    <3>2. pos' \in Int
      BY <1>1, <3>1 DEF RecordClose, Smaller, Magnitude
    <3>3. exiting = Magnitude(pos) => exiting' = Magnitude(pos')
      BY <1>1, <2>1, <2>4, <3>1 DEF RecordClose, Smaller, Magnitude
    <3> QED BY <2>1, <2>2, <3>1, <3>2, <3>3
  <2> QED BY <2>3, <2>4
<1>7. ASSUME ~config.calm, ExitDropped
      PROVE  pos' \in Int /\ exiting' \in Nat /\ ~Guarded
  BY <1>1, <1>7 DEF ExitDropped, Guarded
<1> HIDE DEF Now, Then
<1>8. pos' \in Int /\ exiting' \in Nat /\ (Guarded /\ Now => Then)
  BY <1>4, <1>5, <1>6, <1>7 DEF Outcome
<1>9. NightTypes'
  BY <1>1, <1>2, <1>8 DEF NightTypes
<1>10. DayInv'
  BY <1>1, <1>2, <1>3, <1>8 DEF DayInv, Then, CanExitNow
<1> QED BY <1>9, <1>10

LEMMA NightStep == NightInv /\ [PNext]_vars => NightInv'
<1> SUFFICES ASSUME NightInv, [PNext]_vars PROVE NightTypes' /\ DayInv'
  BY DryStep DEF NightInv
<1>1. CASE OnBar
  BY <1>1, NightBar
<1>2. CASE Outcome
  BY <1>2, NightOutcome
<1>3. ASSUME config' = config PROVE Bars' = Bars /\ FirstBar' = FirstBar /\ Guarded' = Guarded
  BY <1>3, SameSettings
<1>4. CASE EmptyBucket
  <2>1. /\ config' = config /\ next' = Following(next) /\ UNCHANGED <<pos, exiting>> /\ ~config.calm
        /\ config \in Settings
    BY <1>4 DEF EmptyBucket, desk, NightInv, NightTypes
  <2>2. Bars # {} => next' \in Bars
    BY <2>1, FollowingIsBar DEF NightInv, NightTypes
  <2>3. ~Guarded
    BY <2>1 DEF Guarded
  <2> QED BY <1>3, <2>1, <2>2, <2>3 DEF NightInv, NightTypes, DayInv
<1>5. CASE StopBegins
  <2>1. UNCHANGED <<pos, exiting, entering, config, next>> /\ phase # "stopped"
    BY <1>5 DEF StopBegins, desk
  <2> QED BY <1>3, <2>1 DEF NightInv, NightTypes, DayInv, CanExitNow
<1>6. CASE StopEnds
  <2>1. config' = config /\ next' = next /\ phase' = "stopped"
    BY <1>6 DEF StopEnds
  <2>2. pos' \in Int /\ exiting' \in Nat
    <3>1. CASE SubmitExit
      BY <3>1, SubmitTypes DEF NightInv
    <3>2. CASE UNCHANGED desk
      BY <3>2 DEF desk, NightInv, NightTypes
    <3> QED BY <1>6, <3>1, <3>2 DEF StopEnds
  <2> QED BY <1>3, <2>1, <2>2 DEF NightInv, NightTypes, DayInv
<1>7. CASE UNCHANGED vars
  <2>1. UNCHANGED <<pos, exiting, entering, config, next, phase>>
    BY <1>7 DEF vars, desk
  <2> QED BY <1>3, <2>1 DEF NightInv, NightTypes, DayInv, CanExitNow
<1> QED BY <1>1, <1>2, <1>4, <1>5, <1>6, <1>7 DEF PNext

\* In any mode, for bars of any length and any mix of stops, signals, deferred
\* and forced exits, no position is carried into the next day by an engine whose
\* settings guard it.
THEOREM AlwaysFlatOvernight == PSpec => FlatOvernight
<1>1. NightInv /\ [PNext]_vars => [Guarded /\ next = FirstBar /\ next' # next => pos = 0]_vars
  <2> SUFFICES ASSUME NightInv, PNext, Guarded, next = FirstBar, next' # next
               PROVE  pos = 0
    OBVIOUS
  <2>1. config.calm
    BY DEF Guarded
  <2>2. OnBar
    BY <2>1 DEF PNext, EmptyBucket, Outcome, StopBegins, StopEnds
  <2>3. phase # "stopped" /\ exiting = 0 /\ next' = Following(next)
    BY <2>1, <2>2 DEF OnBar, Settled
  <2>4. CASE Bars = {}
    <3>1. Later(next) = {}
      BY <2>4 DEF Later
    <3> QED BY <2>3, <3>1 DEF Following
  <2>5. CASE Bars # {}
    BY <2>3, <2>5 DEF NightInv, DayInv
  <2> QED BY <2>4, <2>5
<1> QED BY <1>1, NightInit, NightStep, PTL DEF PSpec, FlatOvernight
=============================================================================
