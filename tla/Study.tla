------------------------------- MODULE Study --------------------------------
(***************************************************************************)
(* OptunaSearch with a SQLite file and batched writes, as run_optimize and *)
(* run_optimize_hybrid use it: processes one after the other on a study of *)
(* one name, with spaces that may differ, writes that may fail and ends at *)
(* any moment.  What the sampler proposes is any trial.                    *)
(***************************************************************************)
EXTENDS Scoring, SequencesExt

CONSTANTS
    Spaces,         \* parameter spaces; a space stands for its fingerprint
    Targets,        \* values of n_trials
    Interval,       \* storage_write_interval
    TrialScores,    \* what an objective may return
    MaxStored       \* bound: no process starts on a file with more trials

ASSUME IntervalAssumption == Interval \in Nat \ {0}
ASSUME TargetsAssumption == Targets \subseteq Nat
ASSUME ScoresAssumption == TrialScores \subseteq Int

VARIABLES
    disk,       \* the study in the file: its stamp and its trials
    search      \* the process: its space, n_trials, study in memory, trials left
                \* to run, and where it is (at)

studyVars == <<disk, search>>

NoStamp == "none"
NoStudy == [exists |-> FALSE, stamp |-> NoStamp, trials |-> <<>>]
NoValue == -9999999     \* None: what Optuna keeps of a score that is not a number
Outcomes == TrialScores \cup {NoValue}
Trial == [space : Spaces, score : Outcomes]
NoSearch == [at |-> "idle", space |-> NoStamp, target |-> 0, trials |-> <<>>,
             left |-> 0, results |-> <<>>]

InitStudy ==
    /\ disk = NoStudy
    /\ search = NoSearch

\* check_storage_conflict: a study without trials conflicts with nothing.
Conflicts(space) == disk.exists /\ disk.trials # <<>> /\ disk.stamp # space

\* The command line before optimize: _run_one_study or run_optimize.  A file that
\* cannot be read when it is checked counts as no conflict, and a study that cannot
\* be deleted is resumed.
Check(space, n, policy) ==
    /\ search.at = "idle"
    /\ Len(disk.trials) <= MaxStored
    /\ search' = [NoSearch EXCEPT !.at = "checked", !.space = space, !.target = n]
    /\ \E conflict \in {Conflicts(space), FALSE} :
           /\ conflict => policy # "abort"
           /\ \/ UNCHANGED disk
              \/ conflict /\ policy = "overwrite" /\ disk' = NoStudy

\* optimize up to the batches: the trials of the file become those in memory.
Left(done, n) == IF n > done THEN n - done ELSE 0
Phase(left) == IF left = 0 THEN "over" ELSE "batch"

Load ==
    LET left == Left(Len(disk.trials), search.target)
    IN /\ search.at = "checked"
       /\ search' = [search EXCEPT !.trials = disk.trials, !.left = left, !.at = Phase(left)]
       /\ UNCHANGED disk

\* One batch of study.optimize; an exception of the objective is a score, and a
\* score that is not a number leaves a trial without value.
Batch ==
    LET size == IF search.left < Interval THEN search.left ELSE Interval
    IN /\ search.at = "batch"
       /\ \E scores \in [1..size -> Outcomes] :
              search' = [search EXCEPT
                  !.trials = @ \o [i \in 1..size |-> [space |-> search.space, score |-> scores[i]]],
                  !.left = @ - size,
                  !.at = "flush"]
       /\ UNCHANGED disk

\* _flush_to_disk_storage: load or create, stamp what was created, add what the
\* file does not have.  Each is a transaction.
Create ==
    /\ search.at = "flush"
    /\ ~disk.exists
    /\ disk' = [NoStudy EXCEPT !.exists = TRUE]
    /\ search' = [search EXCEPT !.at = "stamp"]

Stamp ==
    /\ search.at = "stamp"
    /\ disk' = [disk EXCEPT !.stamp = search.space]
    /\ search' = [search EXCEPT !.at = "add"]

Open ==
    /\ search.at = "flush"
    /\ disk.exists
    /\ search' = [search EXCEPT !.at = "add"]
    /\ UNCHANGED disk

\* The next trial in memory whose number is above all of the file's, which are
\* 0 to Len - 1.  Mutant: the new trials are those of the last batch alone.
LastBatch(stored, all) ==
    LET size == IF Len(all) % Interval = 0 THEN Interval ELSE Len(all) % Interval
    IN IF stored < Len(all) - size THEN Len(all) - size + 1 ELSE stored + 1
FirstNew(stored, all) == stored + 1

Add ==
    /\ search.at = "add"
    /\ Len(disk.trials) < Len(search.trials)
    /\ disk' = [disk EXCEPT !.trials =
                    Append(@, search.trials[FirstNew(Len(@), search.trials)])]
    /\ UNCHANGED search

Flushed ==
    /\ search.at = "add"
    /\ Len(disk.trials) = Len(search.trials)
    /\ search' = [search EXCEPT !.at = Phase(search.left)]
    /\ UNCHANGED disk

\* A write that fails is logged, and the search goes on.
WriteFails ==
    /\ search.at \in {"flush", "stamp", "add"}
    /\ search' = [search EXCEPT !.at = Phase(search.left)]
    /\ UNCHANGED disk

\* _collect_results, which skips the trials without value, and the sort.
WithValue(trials) == {i \in DOMAIN trials : trials[i].score # NoValue}
Collect ==
    /\ search.at = "over"
    /\ search' = [search EXCEPT !.results = Ranked(Kept(search.trials, WithValue(search.trials))),
                                 !.at = "done"]
    /\ UNCHANGED disk

\* The process has ended: its work is done, or it was killed.
Quit ==
    /\ search.at # "idle"
    /\ search' = NoSearch
    /\ UNCHANGED disk

Policies == {"resume", "overwrite", "abort"}

NextStudy ==
    \/ \E space \in Spaces, n \in Targets, policy \in Policies : Check(space, n, policy)
    \/ Load \/ Batch
    \/ Create \/ Stamp \/ Open \/ Add \/ Flushed \/ WriteFails
    \/ Collect \/ Quit
-----------------------------------------------------------------------------
(* Properties.                                                             *)

\* While a process runs, the file holds the first of its trials, each once and
\* in order, whichever writes failed and whichever processes were killed before;
\* and a search that ends has its n_trials, or as many as the file had, and a result
\* of each that has a value: a resumed study neither repeats nor skips a trial, nor
\* runs more than what was missing.
FileIsPrefix ==
    search.at \notin {"idle", "checked"} => IsPrefix(disk.trials, search.trials)
ResultsAreAll ==
    search.at = "done" =>
        /\ Len(search.trials) >= search.target
        /\ Len(search.trials) > search.target => Len(disk.trials) = Len(search.trials)
        /\ Len(search.results) = Cardinality(WithValue(search.trials))
ResumesExactly == FileIsPrefix /\ ResultsAreAll
=============================================================================
