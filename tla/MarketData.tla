----------------------------- MODULE MarketData -----------------------------
(* The two caches over the one database.  They share no file, so a host      *)
(* that serves research and one that serves the paper engine are looked at   *)
(* apart: whatever the one does, the other sees the same database.           *)
EXTENDS MonthCache, WarmupCache

CONSTANT ResearchDay    \* bound: the last day a research host is followed to

VARIABLE role   \* what the host is for: "research" or "paper"

vars == <<dbVars, monthVars, dayVars, role>>

Init ==
    /\ InitDatabase
    /\ InitMonths
    /\ InitDays
    /\ role \in {"research", "paper"}

Next ==
    \/ /\ World
       /\ role = "research" => day' <= ResearchDay
       /\ UNCHANGED <<monthVars, dayVars, role>>
    \/ role = "research" /\ NextMonths /\ UNCHANGED <<dayVars, role>>
    \/ role = "paper" /\ NextDays /\ UNCHANGED <<monthVars, role>>

Spec == Init /\ [][Next]_vars
=============================================================================
