---------------------------- MODULE WalkForward -----------------------------
(***************************************************************************)
(* WalkForwardOptimizer: rows 0 to rows - 1 are cut into windows, each of  *)
(* which is searched on its train slice and tested on its test slice with  *)
(* the capital the last test left.  A slice [from, to) ends before to.     *)
(* With a storage file, processes follow one another, each killed at any   *)
(* moment, and a window's search resumes whatever study has its number.    *)
(***************************************************************************)
EXTENDS Ordering

CONSTANTS
    Plans,      \* rows, windows (n_windows), anchored, train (train_pct in
                \* tenths), embargo (embargo_bars), chain (chain_capital) and
                \* stored (Optuna with optuna_storage, the same file for all)
    Capitals    \* what an account may hold, the first capital among them

Plan == [rows : Nat, windows : Nat \ {0, 1}, anchored : BOOLEAN, train : 1..9,
         embargo : Nat, chain : BOOLEAN, stored : BOOLEAN]
ASSUME PlansAssumption == Plans \subseteq Plan

VARIABLES
    plan,       \* the optimizer's configuration and the data
    windows,    \* the windows that were made
    turn,       \* the window the loop is at
    capital,    \* current_capital
    tested,     \* wf_windows, with the rows the test saw and those its
                \* parameters were chosen on
    studies     \* what the file has: the number of a window, the slice that its
                \* trials ran on and, as a history variable, by which plan

walkVars == <<plan, windows, turn, capital, tested, studies>>

FirstCapital == CHOOSE c \in Capitals : \A d \in Capitals : c <= d

Slice(a, b) == [from |-> a, to |-> b]
Least(a, b) == IF a < b THEN a ELSE b
Size(s) == s.to - s.from

\* _anchored_windows
Segment(p) == p.rows \div (p.windows + 1)
Anchored(p) ==
    [i \in 1..p.windows |->
        [train |-> Slice(0, i * Segment(p)),
         test |-> Slice(i * Segment(p), IF i = p.windows THEN p.rows ELSE (i + 1) * Segment(p))]]

\* _rolling_windows
Block(p) == p.rows \div p.windows
Rolling(p) ==
    [i \in 1..p.windows |->
        LET first == (i - 1) * Block(p)
            split == first + (Block(p) * p.train) \div 10
        IN [train |-> Slice(first, split), test |-> Slice(split, Least(first + Block(p), p.rows))]]

\* _create_windows; a window with an empty slice is skipped.
Usable(w) == Size(w.train) > 0 /\ Size(w.test) > 0
Windows(p) ==
    LET all == IF p.anchored THEN Anchored(p) ELSE Rolling(p)
    IN Kept(all, {i \in DOMAIN all : Usable(all[i])})

\* The embargo, which a test slice that is not longer than it escapes.
\* Mutant: it is taken from the end of the slice.
EmbargoAtEnd(s, n) == IF n > 0 /\ Size(s) > n THEN [s EXCEPT !.to = @ - n] ELSE s
Embargoed(s, n) == IF n > 0 /\ Size(s) > n THEN [s EXCEPT !.from = @ + n] ELSE s

NoPlan == [rows |-> 0, windows |-> 2, anchored |-> TRUE, train |-> 1, embargo |-> 0, chain |-> TRUE,
           stored |-> FALSE]
InitWalk ==
    /\ plan = NoPlan
    /\ windows = <<>>
    /\ turn = 1
    /\ capital = FirstCapital
    /\ tested = <<>>
    /\ studies = {}

\* The optimizer is made and optimize called, by the first process or by one after
\* another that ended or was killed.  It raises ValueError when there is no window,
\* and nothing is done.  A process without storage shares nothing and is the only
\* one.
StartWalk ==
    /\ plan' \in Plans
    /\ plan = NoPlan \/ (plan.stored /\ plan'.stored)
    /\ windows' = Windows(plan')
    /\ turn' = 1
    /\ capital' = FirstCapital
    /\ tested' = <<>>
    /\ UNCHANGED studies

Going == turn <= Len(windows)

\* _run_inner_optimizer.  A study of this window's number is resumed, whatever
\* slice its trials ran on: nothing compares them.  They count toward n_trials, so
\* that new trials may be many or none; a flush that fails leaves the file alone.
Resumed == IF plan.stored THEN {s \in studies : s.id = turn} ELSE {}
SearchedOn == {windows[turn].train} \cup {s.train : s \in Resumed}
Flush ==
    \/ UNCHANGED studies
    \/ /\ plan.stored
       /\ studies' = studies \cup {[id |-> turn, train |-> windows[turn].train, by |-> plan]}

\* The search finds nothing, or the test raises.
WindowFails ==
    /\ Going
    /\ turn' = turn + 1
    /\ Flush
    /\ UNCHANGED <<plan, windows, capital, tested>>

\* chain_capital
Carried(end) == IF plan.chain THEN end ELSE capital

TestWindow(end, chosen) ==
    LET w == windows[turn]
    IN /\ Going
       /\ chosen \in SearchedOn
       /\ Flush
       /\ tested' = Append(tested,
              [id |-> turn, train |-> w.train, chosen |-> chosen, test |-> w.test,
               seen |-> Embargoed(w.test, plan.embargo), start |-> capital, end |-> end])
       /\ capital' = Carried(end)
       /\ turn' = turn + 1
       /\ UNCHANGED <<plan, windows>>

NextWalk ==
    \/ StartWalk
    \/ WindowFails
    \/ Going /\ \E end \in Capitals, chosen \in SearchedOn : TestWindow(end, chosen)
-----------------------------------------------------------------------------
(* Properties.                                                             *)

\* All that the file has of a window's number was left by processes with this plan.
OwnStudy(id) == \A s \in studies : s.id = id => s.by = plan

\* Every test is of rows that come after the window's train slice and after those
\* of every test before, and it has some; and its parameters were chosen on the
\* train slice, unless the file had a study of that number from another plan.
\* Anchored windows that all succeed test every row after the first segment, but
\* for the embargoes.  With chaining, a test starts with what the last completed
\* one left, windows that failed in between notwithstanding.
OutOfSample ==
    /\ \A i \in DOMAIN tested :
           LET t == tested[i]
           IN /\ t.train.to <= t.seen.from
              /\ OwnStudy(t.id) => t.chosen.to <= t.seen.from
              /\ t.seen.from < t.seen.to /\ t.seen.to <= plan.rows
              /\ Size(t.test) > plan.embargo => t.seen.from >= t.train.to + plan.embargo
              /\ \A j \in 1..i - 1 : tested[j].seen.to <= t.test.from
    /\ plan.anchored /\ tested # <<>> /\ Len(tested) = plan.windows =>
           /\ \A i \in 2..Len(tested) : tested[i].test.from = tested[i - 1].test.to
           /\ tested[Len(tested)].test.to = plan.rows
    /\ \A i \in DOMAIN tested :
           tested[i].start = IF i > 1 /\ plan.chain THEN tested[i - 1].end ELSE FirstCapital
=============================================================================
