---------------------------- MODULE VN30Session ----------------------------
(***************************************************************************)
(* The exchange day as VN30Session and VN30SessionConfig divide it.        *)
(* A time is a number of minutes since Monday 00:00, local to the market;  *)
(* bars start on whole minutes, so margins are in minutes too.             *)
(***************************************************************************)
EXTENDS Integers, FiniteSets

MinutesPerDay == 24 * 60
HM(h, m) == 60 * h + m

MorningStart == HM(9, 0)
MorningEnd == HM(11, 30)
AfternoonStart == HM(13, 0)
AfternoonEnd == HM(14, 30)
AtcStart == HM(14, 30)
AtcEnd == HM(14, 45)

TradingMinutesPerDay == 255

TimeOfDay(t) == t % MinutesPerDay
Weekday(t) == (t \div MinutesPerDay) % 7

\* VN30SessionConfig.get_session: the first window that holds the time of day.
InMorning(t) == MorningStart <= TimeOfDay(t) /\ TimeOfDay(t) < MorningEnd
InAfternoon(t) == AfternoonStart <= TimeOfDay(t) /\ TimeOfDay(t) < AfternoonEnd
InAtc(t) == AtcStart <= TimeOfDay(t) /\ TimeOfDay(t) < AtcEnd

SessionOf(t) ==
    IF InMorning(t) THEN "morning"
    ELSE IF InAfternoon(t) THEN "afternoon"
    ELSE IF InAtc(t) THEN "atc"
    ELSE "closed"

\* Mutant: the auction taken for the end of the afternoon.
HoursWithAtc(t) == Weekday(t) < 5 /\ SessionOf(t) # "closed"
IsTradingHours(t) == Weekday(t) < 5 /\ SessionOf(t) \in {"morning", "afternoon"}

\* is_atc looks at the time of day alone, on weekends too.
IsAtc(t) == SessionOf(t) = "atc"

\* should_skip_signal
ShouldSkipSignal(t) == ~IsTradingHours(t)

\* should_close_eod, for a manager built with close_at_eod.
ShouldCloseEod(t) == TimeOfDay(t) >= AtcStart

\* _seconds_to_session_end: None outside every window, ATC included as one.
SessionEnd(s) == CASE s = "morning" -> MorningEnd
                   [] s = "afternoon" -> AfternoonEnd
                   [] s = "atc" -> AtcEnd
MinutesToEnd(t) == SessionEnd(SessionOf(t)) - TimeOfDay(t)

\* is_entry_blocked.  Mutant: a strict comparison.
EntryBlockedStrictly(t, cutoff, late) ==
    /\ ~late
    /\ cutoff > 0
    /\ SessionOf(t) # "closed" => MinutesToEnd(t) < cutoff
IsEntryBlocked(t, cutoff, late) ==
    /\ ~late
    /\ cutoff > 0
    /\ SessionOf(t) # "closed" => MinutesToEnd(t) <= cutoff

\* get_force_close_reason
ForceCloses(t, preclose) ==
    /\ preclose > 0
    /\ SessionOf(t) # "closed"
    /\ MinutesToEnd(t) <= preclose

\* should_cancel_pending_entry: another day, or another window of the day.
ShouldCancelPendingEntry(created, now) ==
    \/ created \div MinutesPerDay # now \div MinutesPerDay
    \/ SessionOf(created) # SessionOf(now)

\* RiskHandler's last-candle test for bars of freq minutes.
\* Mutant: the bar's own start is tested.
OpensOutside(t, freq) == ~IsTradingHours(t)
ClosesOutside(t, freq) == ~IsTradingHours(t + freq)
=============================================================================
