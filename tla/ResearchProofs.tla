---------------------------- MODULE ResearchProofs ----------------------------
(***************************************************************************)
(* Theorems about Research, for any spaces, grids, plans, bases and trials. *)
(* Those on the searches rest on one fact about sorting: InOrder lists each *)
(* member of a finite set once, as a strict total order wants them.  Those *)
(* on the scans of a curve rest on an invariant of each scan.              *)
(***************************************************************************)
EXTENDS Research, FiniteSetTheorems, TLAPS

-----------------------------------------------------------------------------
(* Sorting.                                                                *)

LEMMA CountTo == ASSUME NEW n, n \in Nat PROVE IsFiniteSet(1..n) /\ Cardinality(1..n) = n
BY FS_Interval

LEMMA ListedIsSeq ==
    ASSUME NEW S, NEW n, n \in Nat, NEW f, f = [i \in 1..n |-> f[i]], \A i \in 1..n : f[i] \in S
    PROVE  f \in Seq(S) /\ Len(f) = n
<1>1. f \in [1..n -> S]
  OBVIOUS
<1> QED BY <1>1

TotalOrder(K, R) ==
    /\ \A x \in K : <<x, x>> \notin R
    /\ \A x, y, z \in K : <<x, y>> \in R /\ <<y, z>> \in R => <<x, z>> \in R
    /\ \A x, y \in K : x = y \/ <<x, y>> \in R \/ <<y, x>> \in R

LEMMA RankFacts ==
    ASSUME NEW K, IsFiniteSet(K), NEW R, TotalOrder(K, R)
    PROVE  /\ \A x \in K : Rank(K, R, x) \in 0..Cardinality(K) - 1
           /\ \A x, y \in K : <<x, y>> \in R => Rank(K, R, x) < Rank(K, R, y)
<1> DEFINE Under(x) == {y \in K : <<y, x>> \in R}
<1>1. ASSUME NEW x \in K
      PROVE  IsFiniteSet(Under(x)) /\ Cardinality(Under(x)) \in 0..Cardinality(K) - 1
  <2>1. Under(x) \subseteq K /\ x \notin Under(x)
    BY DEF TotalOrder
  <2>2. IsFiniteSet(Under(x)) /\ Cardinality(Under(x)) <= Cardinality(K)
    BY <2>1, FS_Subset
  <2>3. Cardinality(Under(x)) # Cardinality(K)
    BY <2>1, FS_Subset
  <2>4. Cardinality(Under(x)) \in Nat /\ Cardinality(K) \in Nat
    BY <2>2, FS_CardinalityType
  <2> QED BY <2>2, <2>3, <2>4
<1>2. ASSUME NEW x \in K, NEW y \in K, <<x, y>> \in R
      PROVE  Cardinality(Under(x)) < Cardinality(Under(y))
  <2>1. x \notin Under(x) /\ Under(x) \cup {x} \subseteq Under(y)
    BY <1>2 DEF TotalOrder
  <2>2. /\ IsFiniteSet(Under(x) \cup {x})
        /\ Cardinality(Under(x) \cup {x}) = Cardinality(Under(x)) + 1
    BY <1>1, <2>1, FS_AddElement
  <2>3. Cardinality(Under(x) \cup {x}) <= Cardinality(Under(y))
    BY <1>1, <2>1, FS_Subset
  <2>4. Cardinality(Under(x)) \in Int /\ Cardinality(Under(y)) \in Int
    BY <1>1
  <2> QED BY <2>2, <2>3, <2>4
<1> QED BY <1>1, <1>2 DEF Rank

LEMMA InOrderFacts ==
    ASSUME NEW K, IsFiniteSet(K), NEW R, TotalOrder(K, R)
    PROVE  /\ Cardinality(K) \in Nat
           /\ InOrder(K, R) \in [1..Cardinality(K) -> K]
           /\ \A x \in K : \E k \in 1..Cardinality(K) : InOrder(K, R)[k] = x
           /\ \A j, k \in 1..Cardinality(K) :
                  j < k => <<InOrder(K, R)[j], InOrder(K, R)[k]>> \in R
<1> DEFINE n == Cardinality(K)
           f == [x \in K |-> Rank(K, R, x)]
<1>1. n \in Nat
  BY FS_CardinalityType
<1>2. IsFiniteSet(0..n - 1) /\ Cardinality(0..n - 1) = n
  BY <1>1, FS_Interval
<1>3. f \in Injection(K, 0..n - 1)
  <2>1. f \in [K -> 0..n - 1]
    BY RankFacts
  <2>2. ASSUME NEW x \in K, NEW y \in K, x # y PROVE f[x] # f[y]
    <3>1. Rank(K, R, x) < Rank(K, R, y) \/ Rank(K, R, y) < Rank(K, R, x)
      BY <2>2, RankFacts DEF TotalOrder
    <3>2. Rank(K, R, x) \in Int /\ Rank(K, R, y) \in Int
      BY RankFacts
    <3> QED BY <3>1, <3>2
  <2> QED BY <2>1, <2>2 DEF Injection, IsInjective
<1>4. f \in Surjection(K, 0..n - 1)
  BY <1>2, <1>3, FS_Injection
<1>5. ASSUME NEW k \in 1..n
      PROVE  InOrder(K, R)[k] \in K /\ Rank(K, R, InOrder(K, R)[k]) = k - 1
  <2>1. k - 1 \in 0..n - 1
    BY <1>1
  <2>2. \E x \in K : Rank(K, R, x) = k - 1
    BY <1>4, <2>1 DEF Surjection
  <2> QED BY <2>2 DEF InOrder
<1>6. InOrder(K, R) \in [1..n -> K]
  <2>1. InOrder(K, R) = [k \in 1..n |-> InOrder(K, R)[k]]
    BY DEF InOrder
  <2> QED BY <1>5, <2>1
<1>7. ASSUME NEW x \in K PROVE \E k \in 1..n : InOrder(K, R)[k] = x
  <2> DEFINE k == Rank(K, R, x) + 1
             y == InOrder(K, R)[k]
  <2>1. k \in 1..n
    BY <1>1, RankFacts
  <2>2. y \in K /\ Rank(K, R, y) = k - 1
    BY <1>5, <2>1
  <2>3. Rank(K, R, x) \in Int /\ Rank(K, R, y) \in Int
    BY <2>2, RankFacts
  <2>4. f[x] = f[y]
    BY <2>2, <2>3
  <2>5. x = y
    BY <1>3, <2>2, <2>4 DEF Injection, IsInjective
  <2> QED BY <2>1, <2>5
<1>8. ASSUME NEW j \in 1..n, NEW k \in 1..n, j < k
      PROVE  <<InOrder(K, R)[j], InOrder(K, R)[k]>> \in R
  <2> DEFINE x == InOrder(K, R)[j]
             y == InOrder(K, R)[k]
  <2>1. x \in K /\ y \in K /\ Rank(K, R, x) = j - 1 /\ Rank(K, R, y) = k - 1
    BY <1>5
  <2> HIDE DEF x, y
  <2>2. Rank(K, R, x) < Rank(K, R, y)
    BY <1>8, <2>1
  <2>3. x # y
    BY <2>2, <2>1
  <2>4. ~(<<y, x>> \in R)
    <3>1. ASSUME <<y, x>> \in R PROVE FALSE
      <4>1. Rank(K, R, y) < Rank(K, R, x)
        BY <2>1, <3>1, RankFacts
      <4> QED BY <1>8, <2>1, <4>1
    <3> QED BY <3>1
  <2>5. <<x, y>> \in R
    BY <2>1, <2>3, <2>4 DEF TotalOrder
  <2> QED BY <2>5 DEF x, y
<1> QED BY <1>1, <1>6, <1>7, <1>8

LEMMA KeptFacts ==
    ASSUME NEW S, NEW s \in Seq(S), NEW K, K \subseteq DOMAIN s
    PROVE  /\ Cardinality(K) \in Nat
           /\ Ascending(K) \in [1..Cardinality(K) -> K]
           /\ \A i \in K : \E k \in 1..Cardinality(K) : Ascending(K)[k] = i
           /\ \A j, k \in 1..Cardinality(K) : j < k => Ascending(K)[j] < Ascending(K)[k]
           /\ Kept(s, K) = [k \in 1..Cardinality(K) |-> s[Ascending(K)[k]]]
           /\ Kept(s, K) \in Seq(S)
           /\ Len(Kept(s, K)) = Cardinality(K)
<1> DEFINE R == {p \in K \X K : p[1] < p[2]}
           n == Cardinality(K)
<1>1. IsFiniteSet(K) /\ K \subseteq 1..Len(s) /\ Len(s) \in Nat
  <2>1. DOMAIN s = 1..Len(s) /\ Len(s) \in Nat
    OBVIOUS
  <2>2. IsFiniteSet(1..Len(s))
    BY <2>1, FS_Interval
  <2> QED BY <2>1, <2>2, FS_Subset
<1>2. \A x, y \in K : <<x, y>> \in R <=> x < y
  OBVIOUS
<1>3. TotalOrder(K, R)
  <2>1. \A x \in K : x \in Int
    BY <1>1
  <2> HIDE DEF R
  <2>2. \A x \in K : <<x, x>> \notin R
    BY <1>2, <2>1
  <2>3. \A x, y, z \in K : <<x, y>> \in R /\ <<y, z>> \in R => <<x, z>> \in R
    <3> SUFFICES ASSUME NEW x \in K, NEW y \in K, NEW z \in K, x < y, y < z PROVE x < z
      BY <1>2
    <3> QED BY <2>1
  <2>4. \A x, y \in K : x = y \/ <<x, y>> \in R \/ <<y, x>> \in R
    <3> SUFFICES ASSUME NEW x \in K, NEW y \in K, x # y PROVE <<x, y>> \in R \/ <<y, x>> \in R
      OBVIOUS
    <3>1. x < y \/ y < x
      BY <2>1
    <3> QED BY <1>2, <3>1
  <2> QED BY <2>2, <2>3, <2>4 DEF TotalOrder
<1>4. Ascending(K) = InOrder(K, R)
  BY DEF Ascending
<1> HIDE DEF R
<1>5. /\ n \in Nat
      /\ Ascending(K) \in [1..n -> K]
      /\ \A i \in K : \E k \in 1..n : Ascending(K)[k] = i
      /\ \A j, k \in 1..n : j < k => <<Ascending(K)[j], Ascending(K)[k]>> \in R
  BY <1>1, <1>3, <1>4, InOrderFacts
<1>6. \A j, k \in 1..n : j < k => Ascending(K)[j] < Ascending(K)[k]
  BY <1>2, <1>5
<1>7. Kept(s, K) = [k \in 1..n |-> s[Ascending(K)[k]]]
  BY <1>5 DEF Kept
<1> HIDE DEF n
<1>8. \A k \in 1..n : s[Ascending(K)[k]] \in S
  BY <1>1, <1>5
<1>9. Kept(s, K) \in Seq(S) /\ Len(Kept(s, K)) = n
  BY <1>5, <1>7, <1>8
<1> QED BY <1>5, <1>6, <1>7, <1>9 DEF n

\* A ranking holds the entries of a list, each once, the highest score first.
Scored(s) == \A i \in 1..Len(s) : s[i].score \in Int
Rearranges(order, s, r) ==
    /\ order \in [1..Len(s) -> 1..Len(s)]
    /\ \A k \in 1..Len(s) : r[k] = s[order[k]]
    /\ \A i \in 1..Len(s) : \E k \in 1..Len(s) : order[k] = i
    /\ \A j, k \in 1..Len(s) : j # k => order[j] # order[k]

LEMMA RankedFacts ==
    ASSUME NEW S, NEW s \in Seq(S), Scored(s)
    PROVE  /\ Ranked(s) \in Seq(S) /\ Len(Ranked(s)) = Len(s)
           /\ \E order : Rearranges(order, s, Ranked(s))
           /\ \A j, k \in 1..Len(s) : j < k => Ranked(s)[j].score >= Ranked(s)[k].score
<1> DEFINE n == Len(s)
           Before(i, j) == s[i].score > s[j].score \/ (s[i].score = s[j].score /\ i < j)
           R == {p \in (DOMAIN s) \X (DOMAIN s) : Before(p[1], p[2])}
           order == InOrder(DOMAIN s, R)
<1>1. n \in Nat /\ DOMAIN s = 1..n
  OBVIOUS
<1>0. \A i \in 1..n : s[i].score \in Int
  BY DEF Scored
<1>2. IsFiniteSet(1..n) /\ Cardinality(1..n) = n
  BY <1>1, CountTo
<1>3. \A i, j \in 1..n : <<i, j>> \in R <=> Before(i, j)
  BY <1>1
<1>4. TotalOrder(1..n, R)
  <2>1. ASSUME NEW i \in 1..n PROVE <<i, i>> \notin R
    BY <1>0, <1>3, <2>1
  <2>2. ASSUME NEW i \in 1..n, NEW j \in 1..n, NEW k \in 1..n, Before(i, j), Before(j, k)
        PROVE  Before(i, k)
    BY <1>0, <1>1, <2>2
  <2>3. ASSUME NEW i \in 1..n, NEW j \in 1..n, i # j
        PROVE  Before(i, j) \/ Before(j, i)
    BY <1>0, <1>1, <2>3
  <2> HIDE DEF Before, R
  <2> QED BY <1>3, <2>1, <2>2, <2>3 DEF TotalOrder
<1> HIDE DEF R
<1>5. /\ order \in [1..n -> 1..n]
      /\ \A i \in 1..n : \E k \in 1..n : order[k] = i
      /\ \A j, k \in 1..n : j < k => <<order[j], order[k]>> \in R
  <2> DEFINE K == 1..n
  <2>1. order = InOrder(K, R)
    BY <1>1
  <2>2. IsFiniteSet(K) /\ Cardinality(K) = n /\ TotalOrder(K, R)
    BY <1>2, <1>4
  <2> HIDE DEF K, order
  <2>3. /\ order \in [1..Cardinality(K) -> K]
        /\ \A i \in K : \E k \in 1..Cardinality(K) : order[k] = i
        /\ \A j, k \in 1..Cardinality(K) : j < k => <<order[j], order[k]>> \in R
    BY <2>1, <2>2, InOrderFacts
  <2> QED BY <2>2, <2>3 DEF K
<1>6. Ranked(s) = [k \in 1..n |-> s[order[k]]]
  BY <1>1 DEF Ranked, R
<1> HIDE DEF order, n
<1>7. Ranked(s) \in Seq(S) /\ Len(Ranked(s)) = n
  <2>1. \A k \in 1..n : s[order[k]] \in S
    BY <1>1, <1>5
  <2> QED BY <1>1, <1>6, <2>1
<1>8. ASSUME NEW j \in 1..n, NEW k \in 1..n, j < k
      PROVE  order[j] # order[k] /\ Ranked(s)[j].score >= Ranked(s)[k].score
  <2>1. order[j] \in 1..n /\ order[k] \in 1..n
    BY <1>5
  <2>2. Before(order[j], order[k])
    BY <1>3, <1>5, <1>8, <2>1
  <2>3. s[order[j]].score \in Int /\ s[order[k]].score \in Int
    BY <2>1 DEF n, Scored
  <2>4. s[order[j]].score >= s[order[k]].score /\ order[j] # order[k]
    BY <1>1, <2>1, <2>2, <2>3
  <2> QED BY <1>6, <2>4
<1>9. ASSUME NEW j \in 1..n, NEW k \in 1..n, j # k PROVE order[j] # order[k]
  <2>1. j < k \/ k < j
    BY <1>1, <1>9
  <2> QED BY <1>8, <2>1
<1>10. Rearranges(order, s, Ranked(s))
  BY <1>5, <1>6, <1>9 DEF Rearranges, n
<1> QED BY <1>7, <1>8, <1>10 DEF n

-----------------------------------------------------------------------------
(* The study and its file.                                                 *)

Begins(s, t) == Len(s) <= Len(t) /\ \A i \in 1..Len(s) : s[i] = t[i]

LEMMA PrefixFacts ==
    ASSUME NEW S, NEW s \in Seq(S), NEW t \in Seq(S), Begins(s, t)
    PROVE  IsPrefix(s, t)
<1>1. Len(s) \in Nat /\ Len(t) \in Nat /\ Len(s) <= Len(t)
  BY DEF Begins
<1>2. SubSeq(s, 1, Len(s)) \in Seq(S) /\ SubSeq(t, 1, Len(s)) \in Seq(S)
  BY <1>1
<1>3. Len(SubSeq(s, 1, Len(s))) = Len(s) /\ Len(SubSeq(t, 1, Len(s))) = Len(s)
  BY <1>1
<1>4. \A i \in 1..Len(s) : SubSeq(s, 1, Len(s))[i] = SubSeq(t, 1, Len(s))[i]
  BY <1>1 DEF Begins
<1>5. SubSeq(s, 1, Len(s)) = SubSeq(t, 1, Len(s))
  BY <1>2, <1>3, <1>4
<1> QED BY <1>1, <1>5 DEF IsPrefix

Stamps == Spaces \cup {NoStamp}
SearchRecord ==
    [at : {"idle", "checked", "batch", "flush", "stamp", "add", "over", "done"},
     space : Stamps, target : Nat, trials : Seq(Trial), left : Nat, results : Seq(Trial)]

\* The file is where the trials in memory begin.  What was done and what is left
\* make up n_trials, unless the file had more; then there is nothing to do.
Counted ==
    LET done == Len(search.trials)
    IN /\ done <= search.target => done + search.left = search.target
       /\ done > search.target =>
              search.left = 0 /\ search.at \in {"over", "done"} /\ Len(disk.trials) = done
       /\ search.at = "batch" => search.left > 0
       /\ search.at \in {"over", "done"} => search.left = 0
       /\ search.at = "done" => Len(search.results) = Cardinality(WithValue(search.trials))

StudyInv ==
    /\ disk \in [exists : BOOLEAN, stamp : Stamps, trials : Seq(Trial)]
    /\ search \in SearchRecord
    /\ search.at # "idle" => search.space \in Spaces
    /\ search.at \notin {"idle", "checked"} => Begins(disk.trials, search.trials) /\ Counted

LEMMA StudyInit == Init => StudyInv
BY DEF Init, InitStudy, NoStudy, NoSearch, NoStamp, StudyInv, SearchRecord, Stamps

LEMMA CheckStudy ==
    ASSUME StudyInv, NEW space \in Spaces, NEW n \in Targets, NEW policy, Check(space, n, policy)
    PROVE  StudyInv'
<1>1. search' = [NoSearch EXCEPT !.at = "checked", !.space = space, !.target = n]
  BY DEF Check
<1>2. n \in Nat /\ <<>> \in Seq(Trial) /\ space \in Stamps
  BY TargetsAssumption DEF Stamps
<1>3. search' = [at |-> "checked", space |-> space, target |-> n, trials |-> <<>>,
                 left |-> 0, results |-> <<>>]
  BY <1>1 DEF NoSearch
<1>4. search' \in SearchRecord /\ search'.at = "checked" /\ search'.space \in Spaces
  BY <1>2, <1>3 DEF SearchRecord
<1>5. disk' = disk \/ disk' = NoStudy
  BY Zenon DEF Check
<1>6. disk' \in [exists : BOOLEAN, stamp : Stamps, trials : Seq(Trial)]
  <2>1. NoStudy \in [exists : BOOLEAN, stamp : Stamps, trials : Seq(Trial)]
    BY <1>2 DEF NoStudy, Stamps
  <2> QED BY <1>5, <2>1 DEF StudyInv
<1> QED BY <1>4, <1>6 DEF StudyInv

LEMMA LoadStudy == StudyInv /\ Load => StudyInv'
<1> SUFFICES ASSUME StudyInv, Load PROVE StudyInv'
  OBVIOUS
<1> DEFINE left == Left(Len(disk.trials), search.target)
<1>1. /\ search.at = "checked" /\ disk' = disk /\ search \in SearchRecord
      /\ search' = [search EXCEPT !.trials = disk.trials, !.left = left, !.at = Phase(left)]
  BY DEF Load, StudyInv
<1>2. disk.trials \in Seq(Trial) /\ Len(disk.trials) \in Nat /\ search.target \in Nat
  BY <1>1 DEF StudyInv, SearchRecord
<1>3. /\ left \in Nat
      /\ Len(disk.trials) <= search.target => Len(disk.trials) + left = search.target
      /\ Len(disk.trials) > search.target => left = 0
  BY <1>2 DEF Left
<1> HIDE DEF left
<1>4. Phase(left) \in {"over", "batch"} /\ (Phase(left) = "over" <=> left = 0)
  BY DEF Phase
<1>5. /\ search'.at = Phase(left) /\ search'.left = left /\ search'.trials = disk.trials
      /\ search'.target = search.target /\ search'.space = search.space
      /\ search' \in SearchRecord
  BY <1>1, <1>2, <1>3, <1>4 DEF SearchRecord
<1>6. Begins(disk.trials, disk.trials)
  BY <1>2 DEF Begins
<1>7. Counted'
  BY <1>1, <1>3, <1>4, <1>5 DEF Counted
<1>8. search'.space \in Spaces
  BY <1>1, <1>5 DEF StudyInv
<1> QED BY <1>1, <1>5, <1>6, <1>7, <1>8 DEF StudyInv
LEMMA BatchStudy == StudyInv /\ Batch => StudyInv'
<1> SUFFICES ASSUME StudyInv, Batch PROVE StudyInv'
  OBVIOUS
<1> DEFINE size == IF search.left < Interval THEN search.left ELSE Interval
           done == Len(search.trials)
<1>1. /\ search.at = "batch" /\ disk' = disk /\ search \in SearchRecord /\ search.space \in Spaces
      /\ Begins(disk.trials, search.trials) /\ Counted
  BY DEF Batch, StudyInv
<1>2. /\ search.trials \in Seq(Trial) /\ done \in Nat /\ search.left \in Nat /\ search.target \in Nat
      /\ disk.trials \in Seq(Trial) /\ Len(disk.trials) \in Nat
  BY <1>1 DEF SearchRecord, StudyInv
<1>3. search.left > 0 /\ done + search.left = search.target
  BY <1>1, <1>2 DEF Counted
<1>4. size \in Nat /\ size <= search.left
  BY <1>2, IntervalAssumption
<1> HIDE DEF size
<1>5. PICK scores \in [1..size -> Outcomes] :
          search' = [search EXCEPT
              !.trials = @ \o [i \in 1..size |-> [space |-> search.space, score |-> scores[i]]],
              !.left = @ - size,
              !.at = "flush"]
  BY DEF Batch, size
<1> DEFINE new == [i \in 1..size |-> [space |-> search.space, score |-> scores[i]]]
<1>6. new \in Seq(Trial) /\ Len(new) = size
  <2>1. \A i \in 1..size : [space |-> search.space, score |-> scores[i]] \in Trial
    BY <1>1 DEF Trial
  <2> QED BY <1>4, <2>1
<1>7. search' = [search EXCEPT !.trials = @ \o new, !.left = @ - size, !.at = "flush"]
  BY <1>5
<1> HIDE DEF new
<1>8. /\ search.trials \o new \in Seq(Trial)
      /\ Len(search.trials \o new) = done + size
      /\ \A i \in 1..done : (search.trials \o new)[i] = search.trials[i]
  BY <1>2, <1>6
<1>9. /\ search'.at = "flush" /\ search'.left = search.left - size
      /\ search'.trials = search.trials \o new
      /\ search'.target = search.target /\ search'.space = search.space
      /\ search' \in SearchRecord
  <2> DEFINE t == search.trials \o new
             l == search.left - size
  <2>1. t \in Seq(Trial) /\ l \in Nat
    BY <1>2, <1>4, <1>8
  <2>2. search' = [search EXCEPT !.trials = t, !.left = l, !.at = "flush"]
    BY <1>7
  <2> HIDE DEF t, l
  <2>3. /\ search'.at = "flush" /\ search'.left = l /\ search'.trials = t
        /\ search'.target = search.target /\ search'.space = search.space
        /\ search' \in SearchRecord
    BY <1>1, <2>1, <2>2 DEF SearchRecord
  <2> QED BY <2>3 DEF t, l
<1>10. Begins(disk.trials, search'.trials)
  <2>1. Len(disk.trials) <= done /\ \A i \in 1..Len(disk.trials) : disk.trials[i] = search.trials[i]
    BY <1>1 DEF Begins
  <2> QED BY <1>2, <1>4, <1>8, <1>9, <2>1 DEF Begins
<1>11. Counted'
  <2>1. Len(search'.trials) = done + size
    BY <1>8, <1>9
  <2> HIDE DEF done
  <2> QED BY <1>2, <1>3, <1>4, <1>9, <2>1 DEF Counted
<1> QED BY <1>1, <1>9, <1>10, <1>11 DEF StudyInv

\* The steps of a flush leave the trials in memory alone.
LEMMA FlushStudy ==
    ASSUME StudyInv, search.at \in {"flush", "stamp", "add"},
           NEW at \in {"flush", "stamp", "add", "batch", "over"},
           search' = [search EXCEPT !.at = at],
           at = "batch" => search.left > 0, at = "over" => search.left = 0,
           Begins(disk'.trials, search.trials),
           disk' \in [exists : BOOLEAN, stamp : Stamps, trials : Seq(Trial)]
    PROVE  StudyInv'
<1>1. /\ search \in SearchRecord /\ search.space \in Spaces
      /\ Begins(disk.trials, search.trials) /\ Counted
  BY DEF StudyInv
<1>2. /\ search'.at = at /\ search'.left = search.left /\ search'.trials = search.trials
      /\ search'.target = search.target /\ search'.space = search.space
      /\ search' \in SearchRecord
  BY <1>1 DEF SearchRecord
<1>3. Counted'
  <2>1. ~(Len(search.trials) > search.target)
    BY <1>1 DEF Counted
  <2> QED BY <1>1, <1>2, <2>1 DEF Counted
<1> QED BY <1>1, <1>2, <1>3 DEF StudyInv

LEMMA PhaseFacts ==
    ASSUME NEW left \in Nat
    PROVE  /\ Phase(left) \in {"batch", "over"}
           /\ Phase(left) = "batch" => left > 0
           /\ Phase(left) = "over" => left = 0
BY DEF Phase

LEMMA WriteStudy == StudyInv /\ (Create \/ Stamp \/ Open \/ Add \/ Flushed \/ WriteFails) => StudyInv'
<1> SUFFICES ASSUME StudyInv, Create \/ Stamp \/ Open \/ Add \/ Flushed \/ WriteFails
             PROVE  StudyInv'
  OBVIOUS
<1> DEFINE Files == [exists : BOOLEAN, stamp : Stamps, trials : Seq(Trial)]
<1>1. /\ disk \in Files /\ search \in SearchRecord /\ search.left \in Nat
      /\ search.trials \in Seq(Trial) /\ disk.trials \in Seq(Trial)
  BY DEF StudyInv, SearchRecord
<1>2. search.at \in {"flush", "stamp", "add"}
  BY DEF Create, Stamp, Open, Add, Flushed, WriteFails
<1>3. Begins(disk.trials, search.trials) /\ search.space \in Stamps
  BY <1>2 DEF StudyInv, Stamps
<1>4. CASE Create
  <2>1. disk' = [exists |-> TRUE, stamp |-> NoStamp, trials |-> <<>>]
    BY <1>4 DEF Create, NoStudy
  <2>2. disk' \in Files /\ disk'.trials = <<>>
    BY <2>1 DEF Stamps
  <2>3. Begins(<<>>, search.trials)
    BY <1>1 DEF Begins
  <2>4. search' = [search EXCEPT !.at = "stamp"]
    BY <1>4 DEF Create
  <2> QED BY <1>2, <2>2, <2>3, <2>4, FlushStudy
<1>5. CASE Stamp
  <2>1. disk' = [disk EXCEPT !.stamp = search.space] /\ search' = [search EXCEPT !.at = "add"]
    BY <1>5 DEF Stamp
  <2>2. disk' \in Files /\ disk'.trials = disk.trials
    BY <1>1, <1>3, <2>1
  <2> QED BY <1>2, <1>3, <2>1, <2>2, FlushStudy
<1>6. CASE Open
  <2>1. disk' = disk /\ search' = [search EXCEPT !.at = "add"]
    BY <1>6 DEF Open
  <2> QED BY <1>1, <1>2, <1>3, <2>1, FlushStudy
<1>7. CASE Add
  <2> DEFINE k == Len(disk.trials)
  <2>1. /\ search.at = "add" /\ search' = search /\ k < Len(search.trials)
        /\ disk' = [disk EXCEPT !.trials = Append(@, search.trials[k + 1])]
    BY <1>7 DEF Add, FirstNew
  <2>2. k \in Nat /\ Len(search.trials) \in Nat /\ k + 1 \in 1..Len(search.trials)
    BY <1>1, <2>1
  <2>3. search.trials[k + 1] \in Trial
    BY <1>1, <2>2
  <2>4. disk' \in Files /\ disk'.trials = Append(disk.trials, search.trials[k + 1])
    <3> DEFINE t == Append(disk.trials, search.trials[k + 1])
    <3>1. t \in Seq(Trial)
      BY <1>1, <2>3
    <3>2. disk' = [disk EXCEPT !.trials = t]
      BY <2>1
    <3> HIDE DEF t
    <3>3. disk' \in Files /\ disk'.trials = t
      BY <1>1, <3>1, <3>2
    <3> QED BY <3>3 DEF t
  <2>5. /\ Len(disk'.trials) = k + 1
        /\ disk'.trials[k + 1] = search.trials[k + 1]
        /\ \A i \in 1..k : disk'.trials[i] = disk.trials[i]
    BY <1>1, <2>3, <2>4
  <2>6. Begins(disk'.trials, search.trials)
    <3>1. \A i \in 1..k : disk.trials[i] = search.trials[i]
      BY <1>3 DEF Begins
    <3> HIDE DEF k
    <3> QED BY <2>2, <2>5, <3>1 DEF Begins
  <2>7. search' = [search EXCEPT !.at = "add"]
    BY <1>1, <2>1 DEF SearchRecord
  <2> QED BY <1>2, <2>4, <2>6, <2>7, FlushStudy
<1>8. CASE Flushed \/ WriteFails
  <2>1. disk' = disk /\ search' = [search EXCEPT !.at = Phase(search.left)]
    BY <1>8 DEF Flushed, WriteFails
  <2> QED BY <1>1, <1>2, <1>3, <2>1, FlushStudy, PhaseFacts
<1> QED BY <1>4, <1>5, <1>6, <1>7, <1>8

LEMMA CollectStudy == StudyInv /\ Collect => StudyInv'
<1> SUFFICES ASSUME StudyInv, Collect PROVE StudyInv'
  OBVIOUS
<1> DEFINE K == WithValue(search.trials)
           kept == Kept(search.trials, K)
<1>1. /\ search.at = "over" /\ disk' = disk /\ search \in SearchRecord /\ search.space \in Spaces
      /\ search' = [search EXCEPT !.results = Ranked(kept), !.at = "done"]
      /\ Begins(disk.trials, search.trials) /\ Counted
  BY DEF Collect, StudyInv
<1>2. search.trials \in Seq(Trial) /\ Len(search.trials) \in Nat
  BY <1>1 DEF SearchRecord
<1>3. K \subseteq DOMAIN search.trials
  BY DEF WithValue
<1> HIDE DEF K
<1>4. kept \in Seq(Trial) /\ Len(kept) = Cardinality(K)
  BY <1>2, <1>3, KeptFacts
<1> HIDE DEF kept
<1>5. Scored(kept)
  <2>1. \A i \in 1..Len(kept) : kept[i] \in Trial
    BY <1>4
  <2>2. NoValue \in Int
    BY SMT DEF NoValue
  <2>3. Outcomes \subseteq Int
    BY <2>2, ScoresAssumption DEF Outcomes
  <2>4. \A t \in Trial : t.score \in Int
    BY <2>3 DEF Trial
  <2> QED BY <2>1, <2>4 DEF Scored
<1>6. Ranked(kept) \in Seq(Trial) /\ Len(Ranked(kept)) = Cardinality(K)
  BY <1>4, <1>5, RankedFacts
<1>7. /\ search'.at = "done" /\ search'.left = search.left /\ search'.trials = search.trials
      /\ search'.target = search.target /\ search'.space = search.space
      /\ search'.results = Ranked(kept) /\ search' \in SearchRecord
  BY <1>1, <1>6 DEF SearchRecord
<1>8. Counted'
  <2>1. Len(search'.results) = Cardinality(WithValue(search'.trials))
    BY <1>6, <1>7 DEF K
  <2> QED BY <1>1, <1>7, <2>1 DEF Counted
<1> QED BY <1>1, <1>7, <1>8 DEF StudyInv

LEMMA StudyStep == StudyInv /\ [Next]_vars => StudyInv'
<1> SUFFICES ASSUME StudyInv, [Next]_vars PROVE StudyInv'
  OBVIOUS
<1>1. NextStudy \/ UNCHANGED studyVars
  BY DEF Next, vars
<1>2. CASE UNCHANGED studyVars
  BY <1>2 DEF studyVars, StudyInv, Counted
<1>3. CASE Quit
  <2>1. disk' = disk /\ search' = NoSearch
    BY <1>3 DEF Quit
  <2>2. NoSearch \in SearchRecord /\ NoSearch.at = "idle"
    BY DEF NoSearch, SearchRecord, Stamps
  <2> QED BY <2>1, <2>2 DEF StudyInv
<1> QED BY <1>1, <1>2, <1>3, CheckStudy, LoadStudy, BatchStudy, WriteStudy, CollectStudy DEF NextStudy

\* For any spaces, targets and batches, whatever writes fail and whenever processes
\* are killed: the file holds the first trials of the process that runs, and a
\* search that ends has exactly what was asked, or what the file already had, and a
\* result of each trial with a value
\* (_flush_to_disk_storage and the count of the trials left in optimize).
THEOREM StudiesResumeExactly == Spec => []ResumesExactly
<1>1. StudyInv => ResumesExactly
  <2> SUFFICES ASSUME StudyInv PROVE ResumesExactly
    OBVIOUS
  <2>1. /\ disk.trials \in Seq(Trial) /\ search.trials \in Seq(Trial)
        /\ Len(search.trials) \in Nat /\ search.target \in Nat /\ search.left \in Nat
    BY DEF StudyInv, SearchRecord
  <2>2. FileIsPrefix
    BY <2>1, PrefixFacts DEF StudyInv, FileIsPrefix
  <2>3. ResultsAreAll
    BY <2>1 DEF StudyInv, Counted, ResultsAreAll
  <2> QED BY <2>2, <2>3 DEF ResumesExactly
<1> QED BY <1>1, StudyInit, StudyStep, PTL DEF Spec
-----------------------------------------------------------------------------
(* The windows of a walk-forward.                                          *)

LEMMA AllKept ==
    ASSUME NEW S, NEW s \in Seq(S)
    PROVE  Kept(s, DOMAIN s) = s
<1> DEFINE n == Len(s)
           R == {p \in (1..n) \X (1..n) : p[1] < p[2]}
<1>1. n \in Nat /\ DOMAIN s = 1..n /\ s = [k \in 1..n |-> s[k]]
  OBVIOUS
<1>2. IsFiniteSet(1..n) /\ Cardinality(1..n) = n
  BY <1>1, CountTo
<1>3. ASSUME NEW x, x \in 1..n PROVE Rank(1..n, R, x) = x - 1
  <2>1. {y \in 1..n : <<y, x>> \in R} = 1..x - 1
    BY <1>1, <1>3
  <2>2. Cardinality(1..x - 1) = x - 1
    BY <1>3, FS_Interval
  <2> QED BY <2>1, <2>2 DEF Rank
<1> HIDE DEF R
<1>4. ASSUME NEW k, k \in 1..n PROVE InOrder(1..n, R)[k] = k
  <2>1. InOrder(1..n, R)[k] = CHOOSE x \in 1..n : Rank(1..n, R, x) = k - 1
    BY <1>2, <1>4 DEF InOrder
  <2>2. Rank(1..n, R, k) = k - 1
    BY <1>3, <1>4
  <2> DEFINE c == CHOOSE x \in 1..n : Rank(1..n, R, x) = k - 1
  <2>3. c \in 1..n /\ Rank(1..n, R, c) = k - 1
    BY <1>4, <2>2
  <2> HIDE DEF c
  <2>4. Rank(1..n, R, c) = c - 1
    BY <1>3, <2>3
  <2>5. c = k
    BY <1>4, <2>3, <2>4
  <2> QED BY <2>1, <2>5 DEF c
<1>5. Ascending(1..n) = InOrder(1..n, R)
  BY DEF Ascending, R
<1>6. DOMAIN Ascending(1..n) = 1..n
  BY <1>2, <1>5 DEF InOrder
<1>7. \A k \in 1..n : Ascending(1..n)[k] = k
  BY <1>4, <1>5
<1>8. Kept(s, 1..n) = [k \in 1..n |-> s[Ascending(1..n)[k]]]
  BY <1>6 DEF Kept
<1>9. [k \in 1..n |-> s[Ascending(1..n)[k]]] = [k \in 1..n |-> s[k]]
  BY <1>7
<1> QED BY <1>1, <1>8, <1>9

Slices == [from : Int, to : Int]
WindowRecord == [train : Slices, test : Slices]

\* Before any of them is skipped: a window's test begins where its training ends and
\* each test comes after the one before.
Lined(all, p) ==
    /\ all \in Seq(WindowRecord) /\ Len(all) = p.windows
    /\ \A i \in 1..p.windows :
           all[i].train.to = all[i].test.from /\ all[i].test.to <= p.rows
    /\ \A i, j \in 1..p.windows : i < j => all[i].test.to <= all[j].test.from

LEMMA Quotient ==
    ASSUME NEW a \in Nat, NEW b \in Nat \ {0}
    PROVE  a \div b \in Nat /\ (a \div b) * b <= a
BY Z3

LEMMA Multiple ==
    ASSUME NEW i \in Nat, NEW j \in Nat, NEW m \in Nat, i <= j
    PROVE  i * m \in Nat /\ j * m \in Nat /\ i * m <= j * m
BY Z3

LEMMA Successor ==
    ASSUME NEW i \in Int, NEW m \in Nat
    PROVE  (i - 1) * m + m = i * m
BY Z3

LEMMA AnchoredFacts ==
    ASSUME NEW p \in Plan
    PROVE  /\ Lined(Anchored(p), p)
           /\ \A i \in 2..p.windows : Anchored(p)[i].test.from = Anchored(p)[i - 1].test.to
           /\ Anchored(p)[p.windows].test.to = p.rows
<1> DEFINE n == p.windows
           seg == Segment(p)
           all == Anchored(p)
<1>1. n \in Nat \ {0, 1} /\ p.rows \in Nat /\ n + 1 \in Nat \ {0}
  BY DEF Plan
<1>2. seg \in Nat /\ seg * (n + 1) <= p.rows
  BY <1>1, Quotient DEF Segment
<1>3. all = [i \in 1..n |-> [train |-> Slice(0, i * seg),
                             test |-> Slice(i * seg, IF i = n THEN p.rows ELSE (i + 1) * seg)]]
  BY DEF Anchored
<1> HIDE DEF all, seg
<1>4. ASSUME NEW i, i \in 1..n
      PROVE  /\ all[i] \in WindowRecord
             /\ all[i].train.to = i * seg /\ all[i].test.from = i * seg
             /\ all[i].test.to = IF i = n THEN p.rows ELSE (i + 1) * seg
             /\ i * seg \in Nat /\ (i + 1) * seg \in Nat
  <2>1. i \in Nat /\ i + 1 \in Nat
    BY <1>4
  <2>2. i * seg \in Nat /\ (i + 1) * seg \in Nat
    BY <1>2, <2>1, Multiple
  <2> DEFINE a == i * seg
             b == (i + 1) * seg
  <2>3. all[i] = [train |-> Slice(0, a), test |-> Slice(a, IF i = n THEN p.rows ELSE b)]
    BY <1>3, <1>4
  <2>4. a \in Int /\ b \in Int
    BY <2>2
  <2> HIDE DEF a, b
  <2>5. /\ all[i] \in WindowRecord
        /\ all[i].train.to = a /\ all[i].test.from = a
        /\ all[i].test.to = IF i = n THEN p.rows ELSE b
    BY <1>1, <2>3, <2>4 DEF Slice, WindowRecord, Slices
  <2> QED BY <2>2, <2>5 DEF a, b
<1>5. all \in Seq(WindowRecord) /\ Len(all) = n
  <2>1. all = [i \in 1..n |-> all[i]]
    BY <1>3
  <2>2. \A i \in 1..n : all[i] \in WindowRecord
    BY <1>4
  <2> QED BY <1>1, <2>1, <2>2, ListedIsSeq
<1>6. ASSUME NEW i, i \in 1..n PROVE all[i].test.to <= p.rows
  <2>1. CASE i = n
    BY <1>1, <1>4, <1>6, <2>1
  <2>2. CASE i # n
    <3>1. (i + 1) * seg <= (n + 1) * seg /\ (n + 1) * seg \in Nat
      BY <1>1, <1>2, <1>6, Multiple
    <3>2. (n + 1) * seg = seg * (n + 1)
      BY <1>1, <1>2, Z3
    <3> QED BY <1>1, <1>2, <1>4, <1>6, <2>2, <3>1, <3>2
  <2> QED BY <2>1, <2>2
<1>7. ASSUME NEW i, i \in 1..n, NEW j, j \in 1..n, i < j
      PROVE  all[i].test.to <= all[j].test.from
  <2>1. i # n /\ i + 1 <= j /\ i + 1 \in Nat /\ j \in Nat
    BY <1>1, <1>7
  <2>2. (i + 1) * seg <= j * seg
    BY <1>2, <2>1, Multiple
  <2> QED BY <1>4, <1>7, <2>1, <2>2
<1>8. ASSUME NEW i, i \in 2..n PROVE all[i].test.from = all[i - 1].test.to
  <2>1. i \in 1..n /\ i - 1 \in 1..n /\ i - 1 # n /\ (i - 1) + 1 = i
    BY <1>1, <1>8
  <2>2. all[i].test.from = i * seg
    BY <1>4, <2>1
  <2>3. all[i - 1].test.to = ((i - 1) + 1) * seg
    BY <1>4, <2>1
  <2> QED BY <2>1, <2>2, <2>3
<1>9. all[n].test.to = p.rows
  BY <1>1, <1>4
<1>10. \A i \in 1..n : all[i].train.to = all[i].test.from
  BY <1>4
<1> QED BY <1>5, <1>6, <1>7, <1>8, <1>9, <1>10 DEF Lined, all

LEMMA RollingFacts ==
    ASSUME NEW p \in Plan
    PROVE  Lined(Rolling(p), p)
<1> DEFINE n == p.windows
           m == Block(p)
           t == (m * p.train) \div 10
           all == Rolling(p)
<1>1. n \in Nat \ {0, 1} /\ p.rows \in Nat /\ p.train \in Nat
  BY DEF Plan
<1>2. m \in Nat /\ m * n <= p.rows
  BY <1>1, Quotient DEF Block
<1>3. t \in Nat
  <2>1. m * p.train \in Nat
    BY <1>1, <1>2, Multiple
  <2> QED BY <2>1, Quotient
<1>4. all = [i \in 1..n |->
                [train |-> Slice((i - 1) * m, (i - 1) * m + t),
                 test |-> Slice((i - 1) * m + t, Least((i - 1) * m + m, p.rows))]]
  BY DEF Rolling
<1> HIDE DEF all, t, m
<1>5. ASSUME NEW i, i \in 1..n
      PROVE  /\ all[i] \in WindowRecord
             /\ all[i].train.to = (i - 1) * m + t /\ all[i].test.from = (i - 1) * m + t
             /\ all[i].test.to <= p.rows /\ all[i].test.to <= i * m
             /\ i * m \in Nat /\ (i - 1) * m \in Nat /\ all[i].test.to \in Int
  <2> DEFINE a == (i - 1) * m
  <2>1. i - 1 \in Nat /\ i \in Nat
    BY <1>5
  <2>2. a \in Nat /\ i * m \in Nat
    BY <1>2, <2>1, Multiple
  <2>3. a + m = i * m
    BY <1>2, <2>1, Successor
  <2>4. all[i] = [train |-> Slice(a, a + t), test |-> Slice(a + t, Least(a + m, p.rows))]
    BY <1>4, <1>5
  <2> HIDE DEF a
  <2>5. /\ Least(a + m, p.rows) \in Int
        /\ Least(a + m, p.rows) <= p.rows /\ Least(a + m, p.rows) <= a + m
    BY <1>1, <1>2, <2>2 DEF Least
  <2>6. /\ all[i] \in WindowRecord
        /\ all[i].train.to = a + t /\ all[i].test.from = a + t
        /\ all[i].test.to = Least(a + m, p.rows)
    BY <1>3, <2>2, <2>4, <2>5 DEF Slice, WindowRecord, Slices
  <2>7. all[i].test.to <= p.rows /\ all[i].test.to <= i * m /\ all[i].test.to \in Int
    BY <2>3, <2>5, <2>6
  <2> QED BY <2>2, <2>6, <2>7 DEF a
<1>6. all \in Seq(WindowRecord) /\ Len(all) = n
  <2>1. all = [i \in 1..n |-> all[i]]
    BY <1>4
  <2>2. \A i \in 1..n : all[i] \in WindowRecord
    BY <1>5
  <2> QED BY <1>1, <2>1, <2>2, ListedIsSeq
<1>7. ASSUME NEW i, i \in 1..n, NEW j, j \in 1..n, i < j
      PROVE  all[i].test.to <= all[j].test.from
  <2>1. i <= j - 1 /\ i \in Nat /\ j - 1 \in Nat
    BY <1>7
  <2>2. i * m <= (j - 1) * m /\ i * m \in Nat /\ (j - 1) * m \in Nat
    BY <1>2, <2>1, Multiple
  <2>3. all[i].test.to <= i * m /\ all[i].test.to \in Int
    BY <1>5, <1>7
  <2>4. all[j].test.from = (j - 1) * m + t
    BY <1>5, <1>7
  <2> QED BY <1>3, <2>2, <2>3, <2>4
<1>8. \A i \in 1..n : all[i].train.to = all[i].test.from /\ all[i].test.to <= p.rows
  BY <1>5
<1> QED BY <1>6, <1>7, <1>8 DEF Lined, all
All(p) == IF p.anchored THEN Anchored(p) ELSE Rolling(p)

LEMMA WindowsFacts ==
    ASSUME NEW p \in Plan
    PROVE  LET ws == Windows(p)
           IN /\ ws \in Seq(WindowRecord) /\ Len(ws) \in Nat /\ Len(ws) <= p.windows
              /\ \A k \in 1..Len(ws) :
                     /\ ws[k].train.to = ws[k].test.from
                     /\ ws[k].test.from < ws[k].test.to
                     /\ ws[k].test.to <= p.rows
              /\ \A j, k \in 1..Len(ws) : j < k => ws[j].test.to <= ws[k].test.from
              /\ p.anchored /\ Len(ws) = p.windows => ws = Anchored(p)
<1> DEFINE all == All(p)
           n == p.windows
           K == {i \in DOMAIN all : Usable(all[i])}
           m == Cardinality(K)
           asc == Ascending(K)
           ws == Windows(p)
<1>1. Lined(all, p) /\ n \in Nat
  BY AnchoredFacts, RollingFacts DEF All, Plan
<1>2. all \in Seq(WindowRecord) /\ Len(all) = n /\ DOMAIN all = 1..n
  BY <1>1 DEF Lined
<1>3. ws = Kept(all, K)
  BY DEF Windows, All
<1>4. K \subseteq DOMAIN all
  OBVIOUS
<1>5. \A i \in K : i \in 1..n /\ all[i].test.from < all[i].test.to
  <2> SUFFICES ASSUME NEW i \in K PROVE i \in 1..n /\ all[i].test.from < all[i].test.to
    OBVIOUS
  <2>1. i \in 1..n /\ Usable(all[i])
    BY <1>2
  <2>2. all[i] \in WindowRecord
    BY <1>2, <2>1
  <2> QED BY <2>1, <2>2 DEF Usable, Size, WindowRecord, Slices
<1> HIDE DEF all, K
<1>6. /\ m \in Nat /\ asc \in [1..m -> K]
      /\ \A j, k \in 1..m : j < k => asc[j] < asc[k]
      /\ ws = [k \in 1..m |-> all[asc[k]]]
      /\ ws \in Seq(WindowRecord) /\ Len(ws) = m
  BY <1>2, <1>3, <1>4, KeptFacts
<1>7. m <= n
  <2>1. IsFiniteSet(1..n) /\ Cardinality(1..n) = n
    BY <1>1, CountTo
  <2> QED BY <1>2, <1>4, <2>1, FS_Subset
<1>8. ASSUME p.anchored, m = n PROVE ws = Anchored(p)
  <2>1. IsFiniteSet(1..n) /\ Cardinality(1..n) = n
    BY <1>1, CountTo
  <2>2. K = DOMAIN all
    BY <1>2, <1>4, <1>8, <2>1, FS_Subset
  <2>3. ws = all
    BY <1>2, <1>3, <2>2, AllKept
  <2> QED BY <1>8, <2>3 DEF all, All
<1> HIDE DEF m, asc, ws
<1>9. \A k \in 1..m : asc[k] \in K /\ ws[k] = all[asc[k]]
  BY <1>6
<1>10. ASSUME NEW k, k \in 1..m
       PROVE  /\ ws[k].train.to = ws[k].test.from
              /\ ws[k].test.from < ws[k].test.to
              /\ ws[k].test.to <= p.rows
  <2>1. asc[k] \in 1..n /\ ws[k] = all[asc[k]] /\ all[asc[k]].test.from < all[asc[k]].test.to
    BY <1>5, <1>9, <1>10
  <2> QED BY <1>1, <2>1 DEF Lined
<1>11. ASSUME NEW j, j \in 1..m, NEW k, k \in 1..m, j < k
       PROVE  ws[j].test.to <= ws[k].test.from
  <2>1. /\ asc[j] \in 1..n /\ ws[j] = all[asc[j]]
        /\ asc[k] \in 1..n /\ ws[k] = all[asc[k]]
    BY <1>5, <1>9, <1>11
  <2>2. asc[j] < asc[k]
    BY <1>6, <1>11
  <2> QED BY <1>1, <2>1, <2>2 DEF Lined
<1> QED BY <1>6, <1>7, <1>8, <1>10, <1>11 DEF ws

LEMMA NoWindows == NoPlan \in Plan /\ Windows(NoPlan) = <<>>
<1> DEFINE all == Anchored(NoPlan)
           K == {i \in DOMAIN all : Usable(all[i])}
<1>1. /\ NoPlan \in Plan
      /\ NoPlan.rows = 0 /\ NoPlan.windows = 2 /\ NoPlan.anchored
  BY DEF NoPlan, Plan
<1>2. all \in Seq(WindowRecord)
  BY <1>1, AnchoredFacts DEF Lined
<1>3. Segment(NoPlan) = 0
  BY <1>1 DEF Segment
<1>4. ASSUME NEW i, i \in 1..2 PROVE ~Usable(all[i])
  <2>1. i * Segment(NoPlan) = 0
    BY <1>3, <1>4
  <2>2. all[i].train = Slice(0, i * Segment(NoPlan))
    BY <1>1, <1>4 DEF Anchored
  <2>3. all[i].train = Slice(0, 0)
    BY <2>1, <2>2
  <2>4. Size(all[i].train) = 0
    BY <2>3 DEF Size, Slice
  <2> QED BY <2>4 DEF Usable
<1>5. DOMAIN all = 1..2
  BY <1>1 DEF Anchored
<1>6. K = {}
  BY <1>4, <1>5
<1>7. Windows(NoPlan) = Kept(all, K)
  BY <1>1 DEF Windows
<1> HIDE DEF K, all
<1>8. Kept(all, {}) \in Seq(WindowRecord) /\ Len(Kept(all, {})) = Cardinality({})
  <2>1. {} \subseteq DOMAIN all
    OBVIOUS
  <2> QED BY <1>2, <2>1, KeptFacts
<1>9. Cardinality({}) = 0
  BY FS_EmptySet
<1>10. Windows(NoPlan) = <<>>
  BY <1>6, <1>7, <1>8, <1>9
<1> QED BY <1>1, <1>10
Money == Capitals \cup {FirstCapital}
TestRecord == [id : Nat, train : Slices, chosen : Slices, test : Slices, seen : Slices,
               start : Money, end : Money]

\* What the file has of a window was run on that window's slice of its plan.
OfItsPlan(s) ==
    /\ s.by \in Plan /\ s.id \in 1..Len(Windows(s.by))
    /\ s.train = Windows(s.by)[s.id].train

\* Each test is of a window the loop has left behind, and what the loop skipped
\* after it is what the list of tests lacks.
Done(i) ==
    LET t == tested[i]
    IN /\ t.id \in 1..turn - 1
       /\ i <= t.id /\ Len(tested) - i <= turn - 1 - t.id
       /\ t.train = windows[t.id].train /\ t.test = windows[t.id].test
       /\ t.seen = Embargoed(t.test, plan.embargo)
       /\ t.chosen = t.train \/ \E s \in studies : s.id = t.id /\ s.train = t.chosen
       /\ t.start = IF i > 1 /\ plan.chain THEN tested[i - 1].end ELSE FirstCapital

WalkInv ==
    /\ plan \in Plan /\ windows = Windows(plan)
    /\ turn \in 1..Len(windows) + 1
    /\ tested \in Seq(TestRecord) /\ Len(tested) <= turn - 1
    /\ capital = IF tested # <<>> /\ plan.chain THEN tested[Len(tested)].end ELSE FirstCapital
    /\ \A i \in 1..Len(tested) : Done(i)
    /\ \A i, j \in 1..Len(tested) : i < j => tested[i].id < tested[j].id
    /\ \A s \in studies : OfItsPlan(s)

LEMMA EmbargoFacts ==
    ASSUME NEW s \in Slices, NEW n \in Nat, s.from < s.to
    PROVE  LET e == Embargoed(s, n)
           IN /\ e \in Slices /\ s.from <= e.from /\ e.from < e.to /\ e.to = s.to
              /\ Size(s) > n => e.from >= s.from + n
<1>1. s.from \in Int /\ s.to \in Int
  BY DEF Slices
<1>2. CASE n > 0 /\ Size(s) > n
  <2>1. Embargoed(s, n) = [s EXCEPT !.from = s.from + n]
    BY <1>2 DEF Embargoed
  <2>2. /\ Embargoed(s, n) \in Slices
        /\ Embargoed(s, n).from = s.from + n /\ Embargoed(s, n).to = s.to
    BY <1>1, <2>1 DEF Slices
  <2> QED BY <1>1, <1>2, <2>2 DEF Size
<1>3. CASE ~(n > 0 /\ Size(s) > n)
  <2>1. Embargoed(s, n) = s
    BY <1>3 DEF Embargoed
  <2> QED BY <1>1, <1>3, <2>1 DEF Size
<1> QED BY <1>2, <1>3

LEMMA WalkInit == Init => WalkInv
<1> SUFFICES ASSUME Init PROVE WalkInv
  OBVIOUS
<1>1. /\ plan = NoPlan /\ windows = <<>> /\ turn = 1 /\ capital = FirstCapital /\ tested = <<>>
      /\ studies = {}
  BY DEF Init, InitWalk
<1>2. tested \in Seq(TestRecord) /\ Len(tested) = 0 /\ Len(windows) = 0
  BY <1>1
<1> QED BY <1>1, <1>2, NoWindows DEF WalkInv

LEMMA StartsWalk == WalkInv /\ StartWalk => WalkInv'
<1> SUFFICES ASSUME WalkInv, StartWalk PROVE WalkInv'
  OBVIOUS
<1>1. /\ plan' \in Plan /\ windows' = Windows(plan') /\ studies' = studies
      /\ turn' = 1 /\ capital' = FirstCapital /\ tested' = <<>>
  BY PlansAssumption DEF StartWalk
<1>2. tested' \in Seq(TestRecord) /\ Len(tested') = 0
  BY <1>1
<1>3. Len(windows') \in Nat
  BY <1>1, WindowsFacts
<1>4. \A s \in studies : OfItsPlan(s)
  BY DEF WalkInv
<1> QED BY <1>1, <1>2, <1>3, <1>4 DEF WalkInv

LEMMA WalkGoing ==
    ASSUME WalkInv, Going
    PROVE  /\ turn \in 1..Len(windows) /\ Len(windows) \in Nat
           /\ windows[turn] \in WindowRecord
           /\ windows[turn].test.from < windows[turn].test.to
BY WindowsFacts DEF WalkInv, Going

\* A flush adds to the file what the window's own slice gives, and drops nothing.
LEMMA FlushFacts ==
    ASSUME WalkInv, Going, Flush
    PROVE  studies \subseteq studies' /\ \A s \in studies' : OfItsPlan(s)
<1> DEFINE new == [id |-> turn, train |-> windows[turn].train, by |-> plan]
<1>1. \A s \in studies : OfItsPlan(s)
  BY DEF WalkInv
<1>2. turn \in 1..Len(windows) /\ plan \in Plan /\ windows = Windows(plan)
  BY WalkGoing DEF WalkInv
<1>3. OfItsPlan(new)
  BY <1>2 DEF OfItsPlan
<1>4. studies' = studies \/ studies' = studies \cup {new}
  BY DEF Flush
<1> HIDE DEF new
<1> QED BY <1>1, <1>3, <1>4

\* A test's parameters came from its own slice or from what the file still has.
ChosenKept(i) ==
    LET t == tested[i]
    IN  t.chosen = t.train \/ \E s \in studies' : s.id = t.id /\ s.train = t.chosen

LEMMA FailsWalk == WalkInv /\ WindowFails => WalkInv'
<1> SUFFICES ASSUME WalkInv, WindowFails PROVE WalkInv'
  OBVIOUS
<1>1. /\ turn' = turn + 1 /\ plan' = plan /\ windows' = windows
      /\ capital' = capital /\ tested' = tested /\ Going /\ Flush
  BY DEF WindowFails
<1>2. turn \in 1..Len(windows) /\ Len(windows) \in Nat
  BY <1>1, WalkGoing
<1>3. turn' \in 1..Len(windows') + 1 /\ Len(tested) \in Nat /\ Len(tested) <= turn - 1
  BY <1>1, <1>2 DEF WalkInv
<1>4. ASSUME NEW i, i \in 1..Len(tested) PROVE Done(i)'
  <2>1. Done(i)
    BY <1>4 DEF WalkInv
  <2>2. ChosenKept(i)
    BY <1>1, <2>1, FlushFacts DEF Done, ChosenKept
  <2> QED BY <1>1, <1>2, <1>3, <1>4, <2>1, <2>2 DEF Done, ChosenKept
<1> QED BY <1>1, <1>2, <1>3, <1>4, FlushFacts DEF WalkInv

LEMMA TestsWalk ==
    ASSUME WalkInv, NEW end \in Capitals, NEW chosen \in SearchedOn, TestWindow(end, chosen)
    PROVE  WalkInv'
<1> DEFINE w == windows[turn]
           n == Len(tested)
           new == [id |-> turn, train |-> w.train, chosen |-> chosen, test |-> w.test,
                   seen |-> Embargoed(w.test, plan.embargo), start |-> capital, end |-> end]
<1>1. /\ turn' = turn + 1 /\ plan' = plan /\ windows' = windows
      /\ capital' = (IF plan.chain THEN end ELSE capital)
      /\ tested' = Append(tested, new) /\ Going /\ Flush
  BY DEF TestWindow, Carried
<1>2. /\ turn \in 1..Len(windows) /\ Len(windows) \in Nat
      /\ w \in WindowRecord /\ w.test.from < w.test.to
  BY <1>1, WalkGoing
<1>3. /\ plan \in Plan /\ windows = Windows(plan) /\ tested \in Seq(TestRecord)
      /\ n \in Nat /\ n <= turn - 1 /\ plan.embargo \in Nat /\ plan.chain \in BOOLEAN
  BY DEF WalkInv, Plan
<1>4. capital = IF n > 0 /\ plan.chain THEN tested[n].end ELSE FirstCapital
  <2>1. tested # <<>> <=> n > 0
    BY <1>3
  <2> QED BY <2>1 DEF WalkInv
<1>5. capital \in Money /\ end \in Money
  <2>1. n > 0 => tested[n].end \in Money
    <3>1. n > 0 => tested[n] \in TestRecord
      BY <1>3
    <3> HIDE DEF n
    <3> QED BY <3>1 DEF TestRecord
  <2> QED BY <1>4, <2>1 DEF Money
<1>6. w.test \in Slices /\ w.train \in Slices /\ Embargoed(w.test, plan.embargo) \in Slices
  BY <1>2, <1>3, EmbargoFacts DEF WindowRecord
<1>14. chosen = w.train \/ \E s \in studies : s.id = turn /\ s.train = chosen
  BY DEF SearchedOn, Resumed
<1>15. chosen \in Slices
  <2>1. CASE chosen = w.train
    BY <1>6, <2>1
  <2>2. CASE \E s \in studies : s.id = turn /\ s.train = chosen
    <3>1. PICK s \in studies : s.train = chosen
      BY <2>2
    <3>2. s.by \in Plan /\ s.id \in 1..Len(Windows(s.by)) /\ chosen = Windows(s.by)[s.id].train
      BY <3>1 DEF WalkInv, OfItsPlan
    <3>3. Windows(s.by)[s.id] \in WindowRecord
      BY <3>2, WindowsFacts
    <3> QED BY <3>2, <3>3 DEF WindowRecord
  <2> QED BY <1>14, <2>1, <2>2
<1>7. new \in TestRecord
  BY <1>2, <1>5, <1>6, <1>15 DEF TestRecord
<1>16. studies \subseteq studies' /\ \A s \in studies' : OfItsPlan(s)
  BY <1>1, FlushFacts
<1>8. /\ new.id = turn /\ new.train = w.train /\ new.chosen = chosen /\ new.test = w.test
      /\ new.seen = Embargoed(w.test, plan.embargo) /\ new.start = capital /\ new.end = end
  OBVIOUS
<1> HIDE DEF new, w
<1>9. /\ tested' \in Seq(TestRecord) /\ Len(tested') = n + 1
      /\ tested'[n + 1] = new
      /\ \A i \in 1..n : tested'[i] = tested[i]
  BY <1>1, <1>3, <1>7
<1> HIDE DEF n
<1>10. turn' \in 1..Len(windows') + 1 /\ Len(tested') <= turn' - 1
  BY <1>1, <1>2, <1>3, <1>9
<1>11. ASSUME NEW i, i \in 1..n + 1 PROVE Done(i)'
  <2>1. CASE i = n + 1
    <3>1. new.start = IF i > 1 /\ plan.chain THEN tested'[i - 1].end ELSE FirstCapital
      <4>1. i > 1 <=> n > 0
        BY <1>3, <2>1
      <4>2. n > 0 => tested'[i - 1] = tested[n]
        BY <1>3, <1>9, <2>1
      <4> QED BY <1>4, <1>8, <4>1, <4>2
    <3>2. new.train = windows[new.id].train /\ new.test = windows[new.id].test
      BY <1>8 DEF w
    <3>3. /\ new.id \in 1..turn' - 1 /\ i <= new.id
          /\ Len(tested') - i <= turn' - 1 - new.id
      BY <1>1, <1>2, <1>3, <1>8, <1>9, <2>1
    <3>4. new.chosen = new.train \/ \E s \in studies' : s.id = new.id /\ s.train = new.chosen
      BY <1>8, <1>14, <1>16
    <3> QED BY <1>1, <1>8, <1>9, <2>1, <3>1, <3>2, <3>3, <3>4 DEF Done
  <2>2. CASE i \in 1..n
    <3>1. Done(i)
      BY <2>2 DEF WalkInv, n
    <3>2. i > 1 => i - 1 \in 1..n
      BY <1>3, <2>2
    <3>3. /\ tested'[i] = tested[i]
          /\ i > 1 => tested'[i - 1] = tested[i - 1]
      BY <1>9, <2>2, <3>2
    <3>4. /\ tested[i].id \in 1..turn' - 1 /\ i <= tested[i].id
          /\ Len(tested') - i <= turn' - 1 - tested[i].id
      BY <1>1, <1>2, <1>3, <1>9, <2>2, <3>1 DEF Done, n
    <3>5. ChosenKept(i)
      BY <1>16, <3>1 DEF Done, ChosenKept
    <3> QED BY <1>1, <3>1, <3>3, <3>4, <3>5 DEF Done, ChosenKept
  <2> QED BY <1>3, <1>11, <2>1, <2>2
<1>12. ASSUME NEW i, i \in 1..n + 1, NEW j, j \in 1..n + 1, i < j
       PROVE  tested'[i].id < tested'[j].id
  <2>1. i \in 1..n /\ tested'[i] = tested[i]
    BY <1>3, <1>9, <1>12
  <2>2. CASE j = n + 1
    <3>1. tested[i].id \in 1..turn - 1
      BY <2>1 DEF WalkInv, Done, n
    <3> QED BY <1>2, <1>8, <1>9, <2>1, <2>2, <3>1
  <2>3. CASE j # n + 1
    <3>1. j \in 1..n /\ tested'[j] = tested[j]
      BY <1>3, <1>9, <1>12, <2>3
    <3> QED BY <1>12, <2>1, <3>1 DEF WalkInv, n
  <2> QED BY <2>2, <2>3
<1>13. capital' = IF tested' # <<>> /\ plan'.chain THEN tested'[Len(tested')].end ELSE FirstCapital
  <2>1. tested' # <<>>
    BY <1>3, <1>9
  <2>2. tested'[Len(tested')].end = end
    BY <1>8, <1>9
  <2>3. ~plan.chain => capital = FirstCapital
    BY <1>4
  <2> QED BY <1>1, <2>1, <2>2, <2>3
<1> QED BY <1>1, <1>3, <1>9, <1>10, <1>11, <1>12, <1>13, <1>16 DEF WalkInv

LEMMA WalkStep == WalkInv /\ [Next]_vars => WalkInv'
<1> SUFFICES ASSUME WalkInv, [Next]_vars PROVE WalkInv'
  OBVIOUS
<1>1. NextWalk \/ UNCHANGED walkVars
  BY DEF Next, vars
<1>2. CASE UNCHANGED walkVars
  BY <1>2 DEF walkVars, WalkInv, Done, OfItsPlan
<1> QED BY <1>1, <1>2, StartsWalk, FailsWalk, TestsWalk DEF NextWalk

\* For any number of rows and windows, train fraction and embargo, both modes and any
\* failures: no test sees a row of its train slice or one that was tested before, and
\* chained capital passes from each test to the next (the index arithmetic of
\* _anchored_windows, _rolling_windows and the loop of optimize).  Its parameters were
\* chosen on that slice, however often the walk was killed and resumed, if all that
\* the storage file has under the window's number is of the same plan (the name of
\* the study in _run_inner_optimizer).
THEOREM TestsOutOfSample == Spec => []OutOfSample
<1>1. WalkInv => OutOfSample
  <2> SUFFICES ASSUME WalkInv PROVE OutOfSample
    OBVIOUS
  <2> DEFINE n == Len(tested)
             ws == windows
  <2>1. /\ plan \in Plan /\ ws = Windows(plan) /\ tested \in Seq(TestRecord)
        /\ n \in Nat /\ DOMAIN tested = 1..n /\ plan.embargo \in Nat
        /\ turn \in 1..Len(ws) + 1 /\ n <= turn - 1 /\ plan.windows \in Nat \ {0}
    BY DEF WalkInv, Plan
  <2>2. /\ ws \in Seq(WindowRecord) /\ Len(ws) \in Nat /\ Len(ws) <= plan.windows
        /\ \A k \in 1..Len(ws) :
               /\ ws[k].train.to = ws[k].test.from
               /\ ws[k].test.from < ws[k].test.to
               /\ ws[k].test.to <= plan.rows
        /\ \A j, k \in 1..Len(ws) : j < k => ws[j].test.to <= ws[k].test.from
        /\ plan.anchored /\ Len(ws) = plan.windows => ws = Anchored(plan)
    BY <2>1, WindowsFacts
  <2>3. ASSUME NEW i, i \in 1..n
        PROVE  /\ Done(i) /\ tested[i].id \in 1..Len(ws)
               /\ ws[tested[i].id] \in WindowRecord
    BY <2>1, <2>2, <2>3 DEF WalkInv, Done
  <2> HIDE DEF n, ws
  <2>4. ASSUME NEW i, i \in 1..n
        PROVE  LET t == tested[i]
               IN /\ t.train.to <= t.seen.from
                  /\ t.seen.from < t.seen.to /\ t.seen.to <= plan.rows
                  /\ Size(t.test) > plan.embargo => t.seen.from >= t.train.to + plan.embargo
                  /\ t.seen.to = t.test.to
                  /\ OwnStudy(t.id) => t.chosen.to <= t.seen.from
                  /\ \A j \in 1..i - 1 : tested[j].seen.to <= t.test.from
    <3> DEFINE t == tested[i]
               w == ws[t.id]
    <3>1. /\ t.id \in 1..Len(ws) /\ w \in WindowRecord
          /\ t.train = w.train /\ t.test = w.test /\ t.seen = Embargoed(w.test, plan.embargo)
      BY <2>3, <2>4 DEF Done, ws
    <3>2. w.test \in Slices /\ w.train \in Slices
      BY <3>1 DEF WindowRecord
    <3>3. w.train.to = w.test.from /\ w.test.from < w.test.to /\ w.test.to <= plan.rows
      BY <2>2, <3>1
    <3>4. /\ t.seen \in Slices /\ w.test.from <= t.seen.from
          /\ t.seen.from < t.seen.to /\ t.seen.to = w.test.to
          /\ Size(w.test) > plan.embargo => t.seen.from >= w.test.from + plan.embargo
      <4> DEFINE rows == w.test
      <4>1. t.seen = Embargoed(rows, plan.embargo)
        BY <3>1
      <4>2. rows \in Slices /\ rows.from < rows.to /\ plan.embargo \in Nat
        BY <2>1, <3>2, <3>3
      <4> HIDE DEF rows
      <4> DEFINE e == Embargoed(rows, plan.embargo)
      <4>3. /\ e \in Slices /\ rows.from <= e.from /\ e.from < e.to /\ e.to = rows.to
            /\ Size(rows) > plan.embargo => e.from >= rows.from + plan.embargo
        BY <4>2, EmbargoFacts
      <4> HIDE DEF e
      <4>4. t.seen = e
        BY <4>1 DEF e
      <4> QED BY <4>3, <4>4 DEF rows
    <3>5. ASSUME NEW j, j \in 1..i - 1 PROVE tested[j].seen.to <= t.test.from
      <4>1. j \in 1..n /\ j < i
        BY <2>1, <2>4, <3>5
      <4>2. tested[j].id < t.id
        BY <2>4, <4>1 DEF WalkInv, n
      <4> DEFINE v == ws[tested[j].id]
      <4>3. /\ tested[j].id \in 1..Len(ws) /\ v \in WindowRecord
            /\ tested[j].seen = Embargoed(v.test, plan.embargo)
        BY <2>3, <4>1 DEF Done, ws
      <4>4. v.test \in Slices /\ v.test.from < v.test.to
        BY <2>2, <4>3 DEF WindowRecord
      <4> HIDE DEF v
      <4>5. tested[j].seen.to = v.test.to
        <5>1. Embargoed(v.test, plan.embargo).to = v.test.to
          BY <2>1, <4>4, EmbargoFacts
        <5> QED BY <4>3, <5>1
      <4>6. v.test.to <= w.test.from
        BY <2>2, <3>1, <4>2, <4>3 DEF v
      <4> QED BY <3>1, <4>5, <4>6
    <3>7. ASSUME OwnStudy(t.id) PROVE t.chosen = t.train
      <4>2. Done(i)
        BY <2>3, <2>4
      <4>3. t.chosen = t.train \/ \E s \in studies : s.id = t.id /\ s.train = t.chosen
        BY <4>2 DEF Done
      <4> SUFFICES ASSUME NEW s \in studies, s.id = t.id, s.train = t.chosen
                   PROVE  t.chosen = t.train
        BY <4>3
      <4>1. s.by = plan /\ s.train = Windows(s.by)[s.id].train
        BY <3>7 DEF OwnStudy, WalkInv, OfItsPlan
      <4> QED BY <2>1, <3>1, <4>1
    <3> HIDE DEF t, w
    <3>6. /\ t.train.to <= t.seen.from
          /\ t.seen.from < t.seen.to /\ t.seen.to <= plan.rows
          /\ Size(t.test) > plan.embargo => t.seen.from >= t.train.to + plan.embargo
          /\ t.seen.to = t.test.to
      BY <3>1, <3>3, <3>4
    <3> QED BY <3>5, <3>6, <3>7 DEF t
  <2>5. ASSUME plan.anchored, tested # <<>>, n = plan.windows
        PROVE  /\ \A i \in 2..n : tested[i].test.from = tested[i - 1].test.to
               /\ tested[n].test.to = plan.rows
    <3>1. Len(ws) = n /\ turn - 1 = n /\ ws = Anchored(plan)
      BY <2>1, <2>2, <2>5
    <3>2. ASSUME NEW i, i \in 1..n PROVE tested[i].id = i /\ tested[i].test = ws[i].test
      <4>1. Done(i)
        BY <2>3, <3>2
      <4>2. /\ tested[i].id \in 1..turn - 1 /\ i <= tested[i].id
            /\ n - i <= turn - 1 - tested[i].id
            /\ tested[i].test = ws[tested[i].id].test
        BY <4>1 DEF Done, n, ws
      <4>3. tested[i].id = i
        BY <2>1, <3>1, <3>2, <4>2
      <4> QED BY <4>2, <4>3
    <3>3. \A i \in 2..n : Anchored(plan)[i].test.from = Anchored(plan)[i - 1].test.to
      BY <2>1, <2>5, AnchoredFacts
    <3>4. ASSUME NEW i, i \in 2..n PROVE tested[i].test.from = tested[i - 1].test.to
      <4>1. i \in 1..n /\ i - 1 \in 1..n
        BY <2>1, <3>4
      <4>2. tested[i].test = ws[i].test /\ tested[i - 1].test = ws[i - 1].test
        BY <3>2, <4>1
      <4> QED BY <3>1, <3>3, <3>4, <4>2
    <3>5. tested[n].test.to = plan.rows
      <4>1. n \in 1..n
        BY <2>1, <2>5
      <4> QED BY <2>1, <2>5, <3>1, <3>2, <4>1, AnchoredFacts
    <3> QED BY <3>4, <3>5
  <2>6. \A i \in 1..n : tested[i].start = IF i > 1 /\ plan.chain THEN tested[i - 1].end ELSE FirstCapital
    BY <2>3 DEF Done
  <2> QED BY <2>1, <2>4, <2>5, <2>6 DEF OutOfSample, n
<1> QED BY <1>1, WalkInit, WalkStep, PTL DEF Spec
-----------------------------------------------------------------------------
(* Combinations of a grid.                                                 *)

\* A set of numbers has a least one: subsets of Nat of the form 0..x are ordered
\* by strict inclusion, which is well founded.
LEMMA LeastNumber ==
    ASSUME NEW T, T \subseteq Nat, T # {}
    PROVE  \E x \in T : \A y \in T : x <= y
<1> DEFINE R == StrictSubsetOrdering(Nat)
           F == FiniteSubsetsOf(Nat)
           U == {0..x : x \in T}
<1>1. IsWellFoundedOn(R, F)
  BY FS_StrictSubsetOrderingWellFounded
<1>2. U \subseteq F /\ U # {}
  <2>1. U # {}
    OBVIOUS
  <2>2. ASSUME NEW x \in T PROVE 0..x \in F
    <3>1. IsFiniteSet(0..x)
      BY FS_Interval
    <3>2. 0..x \subseteq Nat
      OBVIOUS
    <3> QED BY <3>1, <3>2 DEF FiniteSubsetsOf
  <2> QED BY <2>1, <2>2
<1> HIDE DEF R, F, U
<1>3. PICK u \in U : \A v \in U : ~(<<v, u>> \in R)
  BY <1>1, <1>2, WFMin
<1>4. PICK x \in T : u = 0..x
  BY DEF U
<1>5. ASSUME NEW y \in T, y < x PROVE FALSE
  <2>1. 0..y \in U /\ x \in Nat /\ y \in Nat
    BY DEF U
  <2>2. 0..y \subseteq 0..x /\ 0..y # 0..x
    <3>1. x \in 0..x /\ x \notin 0..y
      BY <2>1, <1>5
    <3> QED BY <3>1, <2>1, <1>5
  <2>3. <<0..y, u>> \in R
    BY <2>1, <2>2, <1>4 DEF R, StrictSubsetOrdering
  <2> QED BY <1>3, <2>1, <2>3
<1> QED BY <1>5

\* What a list without its repetitions holds, for _dedup_combinations and
\* _dedup_candidates: K are the positions of entries that no earlier one is like.
FirstOf(key, n) == {k \in 1..n : \A j \in 1..k - 1 : key[j] # key[k]}

DistinctFacts(s, key, K) ==
    /\ Len(Kept(s, K)) \in Nat
    /\ \A i \in 1..Len(Kept(s, K)) :
           Ascending(K)[i] \in 1..Len(s) /\ Kept(s, K)[i] = s[Ascending(K)[i]]
    /\ \A i, j \in 1..Len(Kept(s, K)) : i # j => key[Ascending(K)[i]] # key[Ascending(K)[j]]
    /\ \A k \in 1..Len(s) : \E i \in 1..Len(Kept(s, K)) : key[Ascending(K)[i]] = key[k]

LEMMA DedupFacts ==
    ASSUME NEW S, NEW s \in Seq(S), NEW T, NEW key \in [1..Len(s) -> T]
    PROVE  /\ Kept(s, FirstOf(key, Len(s))) \in Seq(S)
           /\ DistinctFacts(s, key, FirstOf(key, Len(s)))
<1> DEFINE K == FirstOf(key, Len(s))
           a == Ascending(K)
           d == Kept(s, K)
           n == Cardinality(K)
<1>0. K \subseteq DOMAIN s
  BY DEF FirstOf
<1>1. Len(s) \in Nat
  OBVIOUS
<1>2. \A k \in 1..Len(s) : k \in K <=> \A j \in 1..k - 1 : key[j] # key[k]
  BY DEF FirstOf
<1> HIDE DEF K
<1>3. /\ n \in Nat /\ a \in [1..n -> K]
      /\ \A i \in K : \E k \in 1..n : a[k] = i
      /\ \A j, k \in 1..n : j < k => a[j] < a[k]
      /\ d = [k \in 1..n |-> s[a[k]]] /\ d \in Seq(S) /\ Len(d) = n
  <2>1. /\ Cardinality(K) \in Nat
        /\ Ascending(K) \in [1..Cardinality(K) -> K]
        /\ \A i \in K : \E k \in 1..Cardinality(K) : Ascending(K)[k] = i
        /\ \A j, k \in 1..Cardinality(K) : j < k => Ascending(K)[j] < Ascending(K)[k]
        /\ Kept(s, K) = [k \in 1..Cardinality(K) |-> s[Ascending(K)[k]]]
        /\ Kept(s, K) \in Seq(S)
        /\ Len(Kept(s, K)) = Cardinality(K)
    BY <1>0, KeptFacts
  <2> QED BY <2>1 DEF n, a, d
<1> HIDE DEF a, d, n
<1>4. ASSUME NEW i, i \in 1..n
      PROVE  a[i] \in 1..Len(s) /\ a[i] \in K /\ d[i] = s[a[i]]
  <2>1. a[i] \in K
    BY <1>3, <1>4
  <2>2. d[i] = s[a[i]]
    BY <1>3, <1>4
  <2> QED BY <1>0, <1>1, <2>1, <2>2
<1>5. ASSUME NEW i, i \in 1..n, NEW j, j \in 1..n, i < j PROVE key[a[i]] # key[a[j]]
  <2>1. a[i] < a[j]
    BY <1>3, <1>5
  <2>2. a[i] \in 1..a[j] - 1
    BY <1>1, <1>4, <1>5, <2>1
  <2> DEFINE y == a[j]
             x == a[i]
  <2>3. y \in K /\ y \in 1..Len(s) /\ x \in 1..y - 1
    BY <1>4, <1>5, <2>2
  <2> HIDE DEF x, y
  <2>4. \A z \in 1..y - 1 : key[z] # key[y]
    BY <1>2, <2>3
  <2>5. key[x] # key[y]
    BY <2>3, <2>4
  <2> QED BY <2>5 DEF x, y
<1>6. ASSUME NEW i, i \in 1..n, NEW j, j \in 1..n, i # j PROVE key[a[i]] # key[a[j]]
  <2>1. i < j \/ j < i
    BY <1>3, <1>6
  <2>2. CASE i < j
    BY <1>5, <1>6, <2>2
  <2>3. CASE j < i
    <3>1. key[a[j]] # key[a[i]]
      BY <1>5, <1>6, <2>3
    <3> QED BY <3>1
  <2> QED BY <2>1, <2>2, <2>3
<1>7. ASSUME NEW k, k \in 1..Len(s) PROVE \E i \in 1..n : key[a[i]] = key[k]
  <2> DEFINE L == {j \in 1..Len(s) : key[j] = key[k]}
  <2>1. L \subseteq Nat /\ L # {}
    BY <1>1, <1>7
  <2>2. PICK x \in L : \A y \in L : x <= y
    BY <2>1, LeastNumber
  <2>3. x \in 1..Len(s) /\ key[x] = key[k]
    OBVIOUS
  <2>4. ASSUME NEW j, j \in 1..x - 1 PROVE key[j] # key[x]
    <3>1. j \in 1..Len(s) /\ ~(x <= j)
      BY <1>1, <2>3, <2>4
    <3>2. j \notin L
      BY <2>2, <3>1
    <3> QED BY <2>3, <3>1, <3>2
  <2>5. x \in K
    BY <1>2, <2>3, <2>4
  <2> QED BY <1>3, <2>3, <2>5
<1>8. /\ d \in Seq(S) /\ Len(d) \in Nat
      /\ \A i \in 1..Len(d) : a[i] \in 1..Len(s) /\ d[i] = s[a[i]]
      /\ \A i, j \in 1..Len(d) : i # j => key[a[i]] # key[a[j]]
      /\ \A k \in 1..Len(s) : \E i \in 1..Len(d) : key[a[i]] = key[k]
  BY <1>3, <1>4, <1>6, <1>7
<1> QED BY <1>8 DEF DistinctFacts, K, a, d

Lists(g) == g.first \in Seq(Values(g.first)) /\ g.second \in Seq(Values(g.second))
Pairs(g) == Values(g.first) \X Values(g.second)

LEMMA PairSpan ==
    ASSUME NEW n, n \in Nat, NEW m, m \in Nat, NEW k, k \in 1..n * m
    PROVE  ((k - 1) \div m) + 1 \in 1..n /\ ((k - 1) % m) + 1 \in 1..m
<1>1. m \in Nat \ {0} /\ k - 1 \in Nat /\ k - 1 < n * m
  BY Z3
<1> DEFINE x == k - 1
           q == x \div m
           r == x % m
<1>2. q \in Int /\ r \in 0..m - 1 /\ x = m * q + r
  BY <1>1, Z3
<1>3. x \in Nat /\ x < n * m
  BY <1>1
<1> HIDE DEF x, q, r
<1>4. q \in 0..n - 1
  BY <1>1, <1>2, <1>3, Z3
<1> QED BY <1>1, <1>2, <1>4 DEF x, q, r

LEMMA PairPosition ==
    ASSUME NEW n, n \in Nat, NEW m, m \in Nat, NEW i, i \in 1..n, NEW j, j \in 1..m
    PROVE  /\ (i - 1) * m + j \in 1..n * m
           /\ (((i - 1) * m + j - 1) \div m) + 1 = i
           /\ (((i - 1) * m + j - 1) % m) + 1 = j
<1> DEFINE a == (i - 1) * m
<1>1. a \in Nat /\ a + m <= n * m /\ n * m \in Nat
  <2>1. i - 1 \in Nat /\ i \in Nat /\ i <= n
    OBVIOUS
  <2>2. a \in Nat /\ i * m <= n * m /\ n * m \in Nat
    BY <2>1, Multiple
  <2>3. a + m = i * m
    BY <2>1, Successor
  <2> QED BY <2>2, <2>3
<1>2. (a + j - 1) \div m = i - 1 /\ (a + j - 1) % m = j - 1
  <2> DEFINE x == a + j - 1
             r == j - 1
  <2>1. x = m * (i - 1) + r /\ r \in 0..m - 1 /\ i - 1 \in Nat /\ m \in Nat \ {0}
    BY Z3
  <2> HIDE DEF x, r, a
  <2>2. x \div m = i - 1 /\ x % m = r
    BY <2>1, Z3
  <2> QED BY <2>2 DEF x, r
<1> HIDE DEF a
<1>3. a + j \in 1..n * m
  BY <1>1
<1> QED BY <1>1, <1>2, <1>3 DEF a

\* itertools.product meets every pair, and its distinct entries meet each once.
LEMMA ProductFacts ==
    ASSUME NEW g, Lists(g)
    PROVE  /\ Product(g) \in Seq(Pairs(g)) /\ Len(Product(g)) \in Nat
           /\ \A p \in Pairs(g) : \E k \in 1..Len(Product(g)) : Product(g)[k] = p
<1> DEFINE n == Len(g.first)
           m == Len(g.second)
           f == Product(g)
           A == Values(g.first)
           B == Values(g.second)
<1>1. /\ n \in Nat /\ m \in Nat /\ n * m \in Nat
      /\ DOMAIN g.first = 1..n /\ DOMAIN g.second = 1..m
  <2>1. n \in Nat /\ m \in Nat /\ DOMAIN g.first = 1..n /\ DOMAIN g.second = 1..m
    BY DEF Lists
  <2> HIDE DEF n, m
  <2> QED BY <2>1, Z3
<1>2. f = [k \in 1..n * m |-> <<g.first[((k - 1) \div m) + 1], g.second[((k - 1) % m) + 1]>>]
  BY DEF Product
<1>3. /\ \A i \in 1..n : g.first[i] \in A
      /\ \A j \in 1..m : g.second[j] \in B
      /\ \A x \in A : \E i \in 1..n : g.first[i] = x
      /\ \A x \in B : \E j \in 1..m : g.second[j] = x
  BY <1>1 DEF Values
<1> HIDE DEF n, m, f, A, B
<1>4. ASSUME NEW k, k \in 1..n * m PROVE f[k] \in A \X B
  <2>1. ((k - 1) \div m) + 1 \in 1..n /\ ((k - 1) % m) + 1 \in 1..m
    BY <1>1, <1>4, PairSpan
  <2>2. f[k] = <<g.first[((k - 1) \div m) + 1], g.second[((k - 1) % m) + 1]>>
    BY <1>2, <1>4
  <2> QED BY <1>3, <2>1, <2>2
<1>5. f \in Seq(A \X B) /\ Len(f) = n * m
  <2> DEFINE N == n * m
             P == A \X B
  <2>1. f = [k \in 1..N |-> f[k]]
    BY <1>2
  <2>2. N \in Nat /\ \A k \in 1..N : f[k] \in P
    BY <1>1, <1>4
  <2> HIDE DEF N, P
  <2>3. f \in Seq(P) /\ Len(f) = N
    BY <2>1, <2>2, ListedIsSeq
  <2> QED BY <2>3 DEF N, P
<1>6. ASSUME NEW x \in A, NEW y \in B PROVE \E k \in 1..n * m : f[k] = <<x, y>>
  <2>1. PICK i \in 1..n : g.first[i] = x
    BY <1>3
  <2>2. PICK j \in 1..m : g.second[j] = y
    BY <1>3
  <2> DEFINE k == (i - 1) * m + j
  <2>3. k \in 1..n * m /\ ((k - 1) \div m) + 1 = i /\ ((k - 1) % m) + 1 = j
    BY <1>1, PairPosition
  <2> HIDE DEF k
  <2>4. f[k] = <<g.first[i], g.second[j]>>
    BY <1>2, <2>3
  <2> QED BY <2>1, <2>2, <2>3, <2>4
<1>7. Pairs(g) = A \X B
  BY DEF Pairs, A, B
<1>8. \A p \in Pairs(g) : \E k \in 1..n * m : f[k] = p
  BY <1>6, <1>7
<1> QED BY <1>1, <1>5, <1>7, <1>8 DEF f

LEMMA CombinationFacts ==
    ASSUME NEW g, Lists(g)
    PROVE  /\ Combinations(g) \in Seq(Pairs(g)) /\ Len(Combinations(g)) \in Nat
           /\ \A i, j \in 1..Len(Combinations(g)) : i # j => Combinations(g)[i] # Combinations(g)[j]
           /\ \A p \in Pairs(g) : \E k \in 1..Len(Combinations(g)) : Combinations(g)[k] = p
<1> DEFINE f == Product(g)
           K == {k \in DOMAIN f : \A j \in 1..k - 1 : f[j] # f[k]}
           a == Ascending(K)
           d == Kept(f, K)
<1>1. /\ f \in Seq(Pairs(g)) /\ Len(f) \in Nat
      /\ \A p \in Pairs(g) : \E k \in 1..Len(f) : f[k] = p
  BY ProductFacts
<1>2. Combinations(g) = d
  BY DEF Combinations, Unseen
<1> HIDE DEF f
<1>3. f \in [1..Len(f) -> Pairs(g)] /\ K = FirstOf(f, Len(f))
  BY <1>1 DEF FirstOf
<1> HIDE DEF K
<1>4. /\ d \in Seq(Pairs(g)) /\ Len(d) \in Nat
      /\ \A i \in 1..Len(d) : a[i] \in 1..Len(f) /\ d[i] = f[a[i]]
      /\ \A i, j \in 1..Len(d) : i # j => f[a[i]] # f[a[j]]
      /\ \A k \in 1..Len(f) : \E i \in 1..Len(d) : f[a[i]] = f[k]
  <2>1. d \in Seq(Pairs(g)) /\ DistinctFacts(f, f, K)
    BY <1>1, <1>3, DedupFacts
  <2> QED BY <2>1 DEF DistinctFacts
<1> HIDE DEF a, d
<1>5. ASSUME NEW i, i \in 1..Len(d), NEW j, j \in 1..Len(d), i # j PROVE d[i] # d[j]
  <2>1. d[i] = f[a[i]] /\ d[j] = f[a[j]]
    BY <1>4, <1>5
  <2>2. f[a[i]] # f[a[j]]
    BY <1>4, <1>5
  <2> QED BY <2>1, <2>2
<1>6. ASSUME NEW p \in Pairs(g) PROVE \E i \in 1..Len(d) : d[i] = p
  <2>1. PICK k \in 1..Len(f) : f[k] = p
    BY <1>1
  <2>2. PICK i \in 1..Len(d) : f[a[i]] = f[k]
    BY <1>4
  <2> QED BY <1>4, <2>1, <2>2
<1> QED BY <1>2, <1>4, <1>5, <1>6

\* Appending to a list adds one to the count of what was appended, and to no other.
Agree(f, h, n) == \A i \in 1..n : h[i] = f[i]
Count(f, n, p) == Cardinality({i \in 1..n : f[i] = p})

LEMMA CountGrows ==
    ASSUME NEW n \in Nat, NEW f, NEW h, Agree(f, h, n), NEW p
    PROVE  /\ Count(f, n, p) \in Nat
           /\ Count(h, n + 1, p) = Count(f, n, p) + (IF h[n + 1] = p THEN 1 ELSE 0)
<1> DEFINE A == {i \in 1..n : f[i] = p}
           B == {i \in 1..n + 1 : h[i] = p}
<1>0. \A k \in 1..n : h[k] = f[k]
  BY DEF Agree
<1>1. IsFiniteSet(A) /\ Cardinality(A) \in Nat
  <2>1. IsFiniteSet(1..n) /\ A \subseteq 1..n
    BY CountTo
  <2> QED BY <2>1, FS_Subset, FS_CardinalityType
<1>2. n + 1 \notin A
  OBVIOUS
<1>3. CASE h[n + 1] = p
  <2>1. B = A \cup {n + 1}
    BY <1>0, <1>3
  <2> HIDE DEF A, B
  <2>2. Cardinality(B) = Cardinality(A) + 1
    BY <1>1, <1>2, <2>1, FS_AddElement
  <2> QED BY <1>1, <1>3, <2>2 DEF A, B, Count
<1>4. CASE h[n + 1] # p
  <2>1. B = A
    BY <1>0, <1>4
  <2> HIDE DEF A, B
  <2>2. Cardinality(B) = Cardinality(A) + 0
    BY <1>1, <2>1
  <2> QED BY <1>1, <1>4, <2>2 DEF A, B, Count
<1>5. Count(f, n, p) \in Nat
  BY <1>1 DEF Count
<1> QED BY <1>3, <1>4, <1>5

-----------------------------------------------------------------------------
(* The grid search.                                                        *)

Outcome(g) == [params : Pairs(g), metrics : TrialMetrics, score : Int]

\* Each combination is to come, in the pool, or has its one outcome.
GridInv ==
    LET cs == Combinations(grid)
    IN /\ Lists(grid)
       /\ next \in 1..Len(cs) + 1
       /\ submitted \subseteq {cs[k] : k \in 1..next - 1}
       /\ results \in Seq(Outcome(grid))
       /\ \A i \in 1..Len(results) : results[i].score = Score(results[i].metrics, Gates)
       /\ failed \in Seq(Pairs(grid))
       /\ \A k \in 1..Len(cs) :
              Tried(cs[k]) = IF k < next /\ cs[k] \notin submitted THEN 1 ELSE 0

LEMMA ScoreIsInt == ASSUME NEW m \in Metrics, NEW c \in ScorerConfig PROVE Score(m, c) \in Int
<1>1. /\ m.trades \in Nat /\ m.return \in Int /\ m.sharpe \in Int /\ m.sortino \in Int /\ m.dd \in Nat
      /\ c.drawdown \in Nat /\ c.turnover \in Nat /\ c.bonus \in Nat /\ c.cap \in Nat
  BY DEF Metrics, ScorerConfig
<1>2. BaseScore(m) \in Int
  BY <1>1 DEF BaseScore
<1> DEFINE t == IF m.trades < 1000 * c.cap THEN m.trades ELSE 1000 * c.cap
           b == BaseScore(m)
<1>3. t \in Nat
  BY <1>1
<1> HIDE DEF t, b
<1>4. b - 100 * c.drawdown * m.dd - c.turnover * m.trades + c.bonus * t \in Int
  <2>1. ASSUME NEW x \in Nat, NEW y \in Nat PROVE x * y \in Int
    BY Z3
  <2>2. /\ c.drawdown * m.dd \in Int /\ c.turnover * m.trades \in Int /\ c.bonus * t \in Int
        /\ (100 * c.drawdown) * m.dd \in Int
    BY <1>1, <1>3, <2>1
  <2> DEFINE x == 100 * c.drawdown * m.dd
             y == c.turnover * m.trades
             z == c.bonus * t
  <2>3. x \in Int /\ y \in Int /\ z \in Int /\ b \in Int
    BY <1>2, <2>2 DEF b
  <2> HIDE DEF x, y, z
  <2>4. b - x - y + z \in Int
    BY <2>3
  <2> QED BY <2>4 DEF x, y, z
<1>5. Invalid - 10000 \in Int /\ Invalid - 20000 \in Int /\ Invalid - 40000 \in Int /\ Invalid - 80000 \in Int
  BY DEF Invalid
<1> QED BY <1>4, <1>5 DEF Score, t, b

\* The count of what was tried: nothing at first, and one more for each outcome.
LEMMA NothingTried ==
    ASSUME NEW p, results = <<>>, failed = <<>> PROVE Tried(p) = 0
<1>1. {i \in DOMAIN results : results[i].params = p} = {} /\ {i \in DOMAIN failed : failed[i] = p} = {}
  OBVIOUS
<1>2. Cardinality({}) = 0
  BY FS_EmptySet
<1> QED BY <1>1, <1>2 DEF Tried

Times(s, p) == Cardinality({i \in DOMAIN s : s[i] = p})

LEMMA TimesGrow ==
    ASSUME NEW S, NEW s \in Seq(S), NEW x \in S, NEW p
    PROVE  /\ Times(s, p) \in Nat
           /\ Times(Append(s, x), p) = Times(s, p) + (IF x = p THEN 1 ELSE 0)
<1> DEFINE n == Len(s)
           h == Append(s, x)
<1>1. n \in Nat /\ DOMAIN s = 1..n
  OBVIOUS
<1>2. DOMAIN h = 1..n + 1 /\ h[n + 1] = x /\ \A i \in 1..n : h[i] = s[i]
  OBVIOUS
<1> HIDE DEF n, h
<1>3. /\ Count(s, n, p) \in Nat
      /\ Count(h, n + 1, p) = Count(s, n, p) + (IF h[n + 1] = p THEN 1 ELSE 0)
  <2>1. Agree(s, h, n)
    BY <1>2 DEF Agree
  <2> QED BY <1>1, <2>1, CountGrows
<1>4. Times(s, p) = Count(s, n, p)
  BY <1>1 DEF Times, Count
<1>5. Times(h, p) = Count(h, n + 1, p)
  BY <1>2 DEF Times, Count
<1> QED BY <1>2, <1>3, <1>4, <1>5 DEF h

TimesOf(s, p) == Cardinality({i \in DOMAIN s : s[i].params = p})

LEMMA TimesOfGrow ==
    ASSUME NEW S, NEW s \in Seq(S), NEW x \in S, NEW p
    PROVE  /\ TimesOf(s, p) \in Nat
           /\ TimesOf(Append(s, x), p) = TimesOf(s, p) + (IF x.params = p THEN 1 ELSE 0)
<1> DEFINE n == Len(s)
           t == Append(s, x)
           f == [i \in 1..n |-> s[i].params]
           h == [i \in 1..n + 1 |-> t[i].params]
<1>1. n \in Nat /\ DOMAIN s = 1..n
  OBVIOUS
<1>2. DOMAIN t = 1..n + 1 /\ t[n + 1] = x /\ \A i \in 1..n : t[i] = s[i]
  OBVIOUS
<1> HIDE DEF n, t
<1>3. /\ \A i \in 1..n : f[i] = s[i].params /\ h[i] = f[i]
      /\ h[n + 1] = x.params
      /\ \A i \in 1..n + 1 : h[i] = t[i].params
  BY <1>1, <1>2
<1> HIDE DEF f, h
<1>4. /\ Count(f, n, p) \in Nat
      /\ Count(h, n + 1, p) = Count(f, n, p) + (IF h[n + 1] = p THEN 1 ELSE 0)
  <2>1. Agree(f, h, n)
    BY <1>3 DEF Agree
  <2> QED BY <1>1, <2>1, CountGrows
<1>5. {i \in DOMAIN s : s[i].params = p} = {i \in 1..n : f[i] = p}
  BY <1>1, <1>3
<1>6. {i \in DOMAIN t : t[i].params = p} = {i \in 1..n + 1 : h[i] = p}
  BY <1>2, <1>3
<1>7. TimesOf(s, p) = Count(f, n, p)
  BY <1>5 DEF TimesOf, Count
<1>8. TimesOf(t, p) = Count(h, n + 1, p)
  BY <1>6 DEF TimesOf, Count
<1> QED BY <1>3, <1>4, <1>7, <1>8 DEF t

LEMMA TriedIs == ASSUME NEW p PROVE Tried(p) = TimesOf(results, p) + Times(failed, p)
BY DEF Tried, TimesOf, Times

LEMMA NoGridFacts ==
    /\ Lists(NoGrid) /\ Pairs(NoGrid) = {} /\ Len(Combinations(NoGrid)) = 0
<1>1. NoGrid.first = <<>> /\ NoGrid.second = <<>>
  BY DEF NoGrid
<1>2. Values(NoGrid.first) = {} /\ Values(NoGrid.second) = {}
  BY <1>1 DEF Values
<1>3. Lists(NoGrid)
  BY <1>1 DEF Lists
<1>4. Pairs(NoGrid) = {}
  BY <1>2 DEF Pairs
<1>5. Combinations(NoGrid) \in Seq({}) /\ Len(Combinations(NoGrid)) \in Nat
  BY <1>3, <1>4, CombinationFacts
<1> DEFINE d == Combinations(NoGrid)
<1>6. Len(d) = 0
  <2>1. Len(d) # 0 => d[1] \in {}
    <3> HIDE DEF d
    <3>1. d \in Seq({}) /\ Len(d) \in Nat
      BY <1>5 DEF d
    <3> QED BY <3>1
  <2> QED BY <2>1
<1> QED BY <1>3, <1>4, <1>6

LEMMA GridInit == Init => GridInv
<1> SUFFICES ASSUME Init PROVE GridInv
  OBVIOUS
<1>1. grid = NoGrid /\ next = 1 /\ submitted = {} /\ results = <<>> /\ failed = <<>>
  BY DEF Init, InitGrid
<1>2. results \in Seq(Outcome(grid)) /\ failed \in Seq(Pairs(grid)) /\ Len(results) = 0
  BY <1>1
<1>3. next \in 1..Len(Combinations(grid)) + 1
  BY <1>1, NoGridFacts
<1>4. \A k \in 1..Len(Combinations(grid)) : FALSE
  BY <1>1, NoGridFacts
<1> QED BY <1>1, <1>2, <1>3, <1>4, NoGridFacts DEF GridInv

LEMMA StartsGrid == GridInv /\ StartGrid => GridInv'
<1> SUFFICES ASSUME GridInv, StartGrid PROVE GridInv'
  OBVIOUS
<1> DEFINE cs == Combinations(grid)
<1>1. /\ grid = NoGrid /\ Lists(grid') /\ next' = next /\ submitted' = submitted
      /\ results' = results /\ failed' = failed
  BY GridsAssumption DEF StartGrid, Lists
<1>2. next = 1
  <2>1. next \in 1..Len(Combinations(NoGrid)) + 1
    BY <1>1 DEF GridInv
  <2> QED BY <2>1, NoGridFacts
<1>3. submitted = {}
  <2>1. submitted \subseteq {Combinations(grid)[k] : k \in 1..next - 1}
    BY DEF GridInv
  <2> QED BY <1>2, <2>1
<1>4. results = <<>>
  <2>1. results \in Seq(Outcome(grid)) /\ Len(results) \in Nat
    BY DEF GridInv
  <2>2. Outcome(grid) = {}
    BY <1>1, NoGridFacts DEF Outcome
  <2>3. Len(results) # 0 => results[1] \in Outcome(grid)
    BY <2>1
  <2> QED BY <2>1, <2>2, <2>3
<1>5. failed = <<>>
  <2>1. failed \in Seq(Pairs(grid)) /\ Len(failed) \in Nat
    BY DEF GridInv
  <2>2. Len(failed) # 0 => failed[1] \in Pairs(grid)
    BY <2>1
  <2> QED BY <1>1, <2>1, <2>2, NoGridFacts
<1>6. Len(cs') \in Nat
  BY <1>1, CombinationFacts
<1>7. \A p : Tried(p)' = 0
  <2>1. \A p : Tried(p) = 0
    BY <1>4, <1>5, NothingTried
  <2> QED BY <1>1, <2>1 DEF Tried
<1> HIDE DEF cs
<1>8. results' \in Seq(Outcome(grid')) /\ failed' \in Seq(Pairs(grid')) /\ Len(results') = 0
  BY <1>1, <1>4, <1>5
<1>9. next' \in 1..Len(cs') + 1 /\ submitted' \subseteq {cs'[k] : k \in 1..next' - 1}
  BY <1>1, <1>2, <1>3, <1>6
<1>10. \A k \in 1..Len(cs') : ~(k < next')
  BY <1>1, <1>2, <1>6
<1>11. \A k \in 1..Len(cs') : Tried(cs[k])' = 0
  BY <1>7 DEF Tried
<1> QED BY <1>1, <1>8, <1>9, <1>10, <1>11 DEF GridInv, cs

LEMMA SubmitsGrid == GridInv /\ Submit => GridInv'
<1> SUFFICES ASSUME GridInv, Submit PROVE GridInv'
  OBVIOUS
<1> DEFINE cs == Combinations(grid)
           e == ChunkEnd(next)
<1>1. /\ submitted = {} /\ next <= Len(cs) /\ submitted' = {cs[k] : k \in next..e} /\ next' = e + 1
      /\ grid' = grid /\ results' = results /\ failed' = failed
  BY DEF Submit
<1>2. /\ Len(cs) \in Nat /\ \A i, j \in 1..Len(cs) : i # j => cs[i] # cs[j]
      /\ next \in 1..Len(cs) + 1
  BY CombinationFacts DEF GridInv
<1>3. e \in next..Len(cs)
  <2>1. e = IF next + ChunkSize - 1 < Len(cs) THEN next + ChunkSize - 1 ELSE Len(cs)
    BY DEF ChunkEnd
  <2> HIDE DEF cs, e
  <2> QED BY <1>1, <1>2, <2>1, ChunkAssumption
<1>4. \A p : Tried(p)' = Tried(p)
  BY <1>1 DEF Tried
<1>5. \A k \in 1..Len(cs) : Tried(cs[k]) = IF k < next THEN 1 ELSE 0
  BY <1>1 DEF GridInv
<1> HIDE DEF cs, e
<1>6. ASSUME NEW k, k \in 1..Len(cs)
      PROVE  Tried(cs[k])' = IF k < next' /\ cs[k] \notin submitted' THEN 1 ELSE 0
  <2>0. Tried(cs[k])' = Tried(cs[k])
    BY <1>1 DEF Tried, cs
  <2>1. CASE k < next
    <3>1. cs[k] \notin submitted' /\ k < next'
      BY <1>1, <1>2, <1>3, <1>6, <2>1
    <3> QED BY <1>5, <1>6, <2>0, <2>1, <3>1
  <2>2. CASE k \in next..e
    <3>1. cs[k] \in submitted' /\ ~(k < next)
      BY <1>1, <1>2, <1>6, <2>2
    <3> QED BY <1>5, <1>6, <2>0, <3>1
  <2>3. CASE k > e
    <3>1. ~(k < next) /\ ~(k < next')
      BY <1>1, <1>2, <1>3, <1>6, <2>3
    <3> QED BY <1>5, <1>6, <2>0, <3>1
  <2> QED BY <1>2, <1>3, <1>6, <2>1, <2>2, <2>3
<1>7. next' \in 1..Len(cs) + 1 /\ submitted' \subseteq {cs[k] : k \in 1..next' - 1}
  BY <1>1, <1>2, <1>3
<1>8. cs' = cs
  BY <1>1 DEF cs
<1> QED BY <1>1, <1>6, <1>7, <1>8 DEF GridInv, cs

\* A combination in the pool gets its one outcome.
LEMMA EndsOne ==
    ASSUME GridInv, NEW p, p \in submitted, grid' = grid, next' = next,
           submitted' = submitted \ {p}, Tried(p)' = Tried(p) + 1,
           \A q : q # p => Tried(q)' = Tried(q)
    PROVE  LET cs == Combinations(grid)
           IN /\ p \in Pairs(grid)
              /\ \A k \in 1..Len(cs) :
                     Tried(cs[k])' = IF k < next' /\ cs[k] \notin submitted' THEN 1 ELSE 0
<1> DEFINE cs == Combinations(grid)
<1>1. /\ cs \in Seq(Pairs(grid)) /\ Len(cs) \in Nat
      /\ \A i, j \in 1..Len(cs) : i # j => cs[i] # cs[j]
      /\ next \in 1..Len(cs) + 1
  BY CombinationFacts DEF GridInv
<1>2. PICK i \in 1..next - 1 : p = cs[i]
  BY DEF GridInv
<1>3. \A k \in 1..Len(cs) : Tried(cs[k]) = IF k < next /\ cs[k] \notin submitted THEN 1 ELSE 0
  BY DEF GridInv
<1> HIDE DEF cs
<1>4. i \in 1..Len(cs) /\ i < next
  BY <1>1, <1>2
<1>5. p \in Pairs(grid)
  BY <1>1, <1>2, <1>4
<1>6. ASSUME NEW k, k \in 1..Len(cs)
      PROVE  Tried(cs[k])' = IF k < next' /\ cs[k] \notin submitted' THEN 1 ELSE 0
  <2>0. cs' = cs
    BY DEF cs
  <2>1. CASE k = i
    <3>1. Tried(cs[k]) = 0 /\ cs[k] = p
      BY <1>2, <1>3, <1>6, <2>1
    <3>2. Tried(p)' = 1
      BY <1>2, <3>1, <2>1
    <3>3. Tried(cs[k])' = Tried(p)'
      BY <2>0, <3>1 DEF Tried
    <3> QED BY <1>2, <1>4, <2>1, <3>1, <3>2, <3>3
  <2>2. CASE k # i
    <3>1. cs[k] # p
      BY <1>1, <1>2, <1>4, <1>6, <2>2
    <3> DEFINE q == cs[k]
    <3>2. Tried(q)' = Tried(q)
      <4>1. ASSUME NEW x, x # p PROVE Tried(x)' = Tried(x)
        BY <4>1
      <4>2. q' = q
        BY <2>0
      <4> QED BY <3>1, <4>1, <4>2
    <3>3. q \in submitted' <=> q \in submitted
      BY <3>1
    <3> QED BY <1>3, <1>6, <3>2, <3>3
  <2> QED BY <2>1, <2>2
<1> QED BY <1>5, <1>6 DEF cs

LEMMA CompletesGrid ==
    ASSUME GridInv, NEW params \in submitted, NEW m \in TrialMetrics, Complete(params, m)
    PROVE  GridInv'
<1> DEFINE cs == Combinations(grid)
           x == [params |-> params, metrics |-> m, score |-> Score(m, Gates)]
<1>1. /\ submitted' = submitted \ {params} /\ results' = Append(results, x)
      /\ grid' = grid /\ next' = next /\ failed' = failed
  BY DEF Complete
<1>2. ASSUME NEW p PROVE Tried(p)' = Tried(p) + (IF p = params THEN 1 ELSE 0) /\ Tried(p) \in Nat
  <2>1. TimesOf(Append(results, x), p) = TimesOf(results, p) + (IF x.params = p THEN 1 ELSE 0)
    <3>1. Append(results, x) = Append(results, x) /\ x \in [params : {params}, metrics : {m}, score : {Score(m, Gates)}]
      OBVIOUS
    <3>2. results \in Seq(Outcome(grid) \cup {x})
      BY DEF GridInv
    <3> HIDE DEF x
    <3> QED BY <3>2, TimesOfGrow
  <2>2. TimesOf(results, p) \in Nat /\ Times(failed, p) \in Nat
    <3>1. results \in Seq(Outcome(grid) \cup {x}) /\ failed \in Seq(Pairs(grid) \cup {p})
      BY DEF GridInv
    <3> HIDE DEF x
    <3> QED BY <3>1, TimesOfGrow, TimesGrow
  <2>3. Tried(p)' = TimesOf(results', p) + Times(failed', p)
    BY DEF Tried, TimesOf, Times
  <2>4. Tried(p) = TimesOf(results, p) + Times(failed, p)
    BY TriedIs
  <2>5. x.params = params
    OBVIOUS
  <2> HIDE DEF x
  <2> QED BY <1>1, <2>1, <2>2, <2>3, <2>4, <2>5
<1>3. Tried(params)' = Tried(params) + 1 /\ \A q : q # params => Tried(q)' = Tried(q)
  <2>1. \A q : Tried(q)' = Tried(q) + (IF q = params THEN 1 ELSE 0) /\ Tried(q) \in Nat
    BY <1>2
  <2>2. ASSUME NEW q, q # params PROVE Tried(q)' = Tried(q)
    <3>1. Tried(q)' = Tried(q) + 0 /\ Tried(q) \in Nat
      BY <2>1, <2>2
    <3> QED BY <3>1
  <2>3. Tried(params)' = Tried(params) + 1
    BY <2>1
  <2> QED BY <2>2, <2>3
<1>4. /\ params \in Pairs(grid)
      /\ \A k \in 1..Len(cs) : Tried(cs[k])' = IF k < next' /\ cs[k] \notin submitted' THEN 1 ELSE 0
  BY <1>1, <1>3, EndsOne
<1>5. Score(m, Gates) \in Int
  BY MetricsAssumption, ScoreIsInt
<1>6. x \in Outcome(grid) /\ x.score = Score(x.metrics, Gates)
  BY <1>4, <1>5 DEF Outcome
<1> HIDE DEF x
<1>7. /\ results' \in Seq(Outcome(grid))
      /\ \A i \in 1..Len(results') : results'[i].score = Score(results'[i].metrics, Gates)
  <2>1. /\ results \in Seq(Outcome(grid)) /\ Len(results) \in Nat
        /\ \A i \in 1..Len(results) : results[i].score = Score(results[i].metrics, Gates)
    BY DEF GridInv
  <2>2. /\ results' \in Seq(Outcome(grid)) /\ Len(results') = Len(results) + 1
        /\ results'[Len(results) + 1] = x
        /\ \A i \in 1..Len(results) : results'[i] = results[i]
    BY <1>1, <1>6, <2>1
  <2> QED BY <1>6, <2>1, <2>2
<1>8. submitted' \subseteq submitted /\ cs' = cs
  BY <1>1
<1> QED BY <1>1, <1>4, <1>7, <1>8 DEF GridInv

LEMMA FailsGrid ==
    ASSUME GridInv, NEW params \in submitted, Fail(params)
    PROVE  GridInv'
<1> DEFINE cs == Combinations(grid)
<1>1. /\ submitted' = submitted \ {params} /\ failed' = Append(failed, params)
      /\ grid' = grid /\ next' = next /\ results' = results
  BY DEF Fail
<1>2. ASSUME NEW p PROVE Tried(p)' = Tried(p) + (IF p = params THEN 1 ELSE 0) /\ Tried(p) \in Nat
  <2>1. failed \in Seq(Pairs(grid) \cup {params}) /\ results \in Seq(Outcome(grid) \cup {p})
    BY DEF GridInv
  <2>2. Times(Append(failed, params), p) = Times(failed, p) + (IF params = p THEN 1 ELSE 0)
    BY <2>1, TimesGrow
  <2>3. TimesOf(results, p) \in Nat /\ Times(failed, p) \in Nat
    BY <2>1, TimesOfGrow, TimesGrow
  <2>4. Tried(p)' = TimesOf(results', p) + Times(failed', p)
    BY DEF Tried, TimesOf, Times
  <2>5. Tried(p) = TimesOf(results, p) + Times(failed, p)
    BY TriedIs
  <2> QED BY <1>1, <2>2, <2>3, <2>4, <2>5
<1>3. Tried(params)' = Tried(params) + 1 /\ \A q : q # params => Tried(q)' = Tried(q)
  <2>1. \A q : Tried(q)' = Tried(q) + (IF q = params THEN 1 ELSE 0) /\ Tried(q) \in Nat
    BY <1>2
  <2>2. ASSUME NEW q, q # params PROVE Tried(q)' = Tried(q)
    <3>1. Tried(q)' = Tried(q) + 0 /\ Tried(q) \in Nat
      BY <2>1, <2>2
    <3> QED BY <3>1
  <2>3. Tried(params)' = Tried(params) + 1
    BY <2>1
  <2> QED BY <2>2, <2>3
<1>4. /\ params \in Pairs(grid)
      /\ \A k \in 1..Len(cs) : Tried(cs[k])' = IF k < next' /\ cs[k] \notin submitted' THEN 1 ELSE 0
  BY <1>1, <1>3, EndsOne
<1>5. failed' \in Seq(Pairs(grid))
  BY <1>1, <1>4 DEF GridInv
<1>6. submitted' \subseteq submitted /\ cs' = cs
  BY <1>1
<1> QED BY <1>1, <1>4, <1>5, <1>6 DEF GridInv

LEMMA GridStep == GridInv /\ [Next]_vars => GridInv'
<1> SUFFICES ASSUME GridInv, [Next]_vars PROVE GridInv'
  OBVIOUS
<1>1. NextGrid \/ UNCHANGED gridVars
  BY DEF Next, vars
<1>2. CASE UNCHANGED gridVars
  BY <1>2 DEF gridVars, GridInv, Tried
<1>3. CASE NextGrid
  <2>1. CASE \E params \in submitted : Fail(params) \/ \E m \in TrialMetrics : Complete(params, m)
    <3>1. PICK params \in submitted : Fail(params) \/ \E m \in TrialMetrics : Complete(params, m)
      BY <2>1
    <3>2. CASE Fail(params)
      BY <3>2, FailsGrid
    <3>3. CASE \E m \in TrialMetrics : Complete(params, m)
      BY <3>3, CompletesGrid
    <3> QED BY <3>1, <3>2, <3>3
  <2> QED BY <1>3, <2>1, StartsGrid, SubmitsGrid DEF NextGrid
<1> QED BY <1>1, <1>2, <1>3

LEMMA RefusedScore ==
    ASSUME NEW m \in Metrics, NEW c \in ScorerConfig, ~Passes(m, c)
    PROVE  Score(m, c) < Invalid
BY DEF Metrics, ScorerConfig, Passes, Score, Invalid

\* With the default weights and any gate on the trades, a trial that lost at most
\* everything scores above every refused one.
LEMMA DefaultWeights ==
    ASSUME NEW m \in Metrics, NEW n \in Nat, Passes(m, Scorer(n)), m.return >= -100, m.dd <= 100
    PROVE  Score(m, Scorer(n)) > Invalid
<1> DEFINE c == Scorer(n)
<1>1. /\ c.minTrades = n /\ c.minReturn = -999 /\ c.minFactor = -999 /\ c.minWin = 0
      /\ c.drawdown = 5 /\ c.turnover = 0 /\ c.bonus = 0 /\ c.cap = 1
  BY DEF Scorer
<1>2. /\ m.trades \in Nat /\ m.return \in Int /\ m.factor \in Int /\ m.win \in Nat
      /\ m.sharpe \in Int /\ m.sortino \in Int /\ m.dd \in Nat
  BY DEF Metrics
<1>3. BaseScore(m) \in Int /\ BaseScore(m) >= -100000
  BY <1>2 DEF BaseScore
<1> DEFINE t == IF m.trades < 1000 * c.cap THEN m.trades ELSE 1000 * c.cap
<1>4. Score(m, c) = BaseScore(m) - 100 * c.drawdown * m.dd - c.turnover * m.trades + c.bonus * t
  BY <1>1, <1>2 DEF Passes, Score
<1>5. t \in Nat
  BY <1>1, <1>2
<1> HIDE DEF c, t
<1>6. 100 * c.drawdown * m.dd = 500 * m.dd /\ c.turnover * m.trades = 0 /\ c.bonus * t = 0
  BY <1>1, <1>2, <1>5
<1> QED BY <1>2, <1>3, <1>4, <1>6 DEF Invalid, c

\* For any two lists of values, chunk size and outcomes in any order: every
\* combination is tried once, and no refused trial comes first, if the weights put
\* every trial that passes the gates above INVALID_SCORE (as the default ones do).
THEOREM GridTriesEachOnce ==
    ASSUME \A m \in TrialMetrics : Passes(m, Gates) => Score(m, Gates) > Invalid
    PROVE  Spec => []EachTriedOnce
<1>1. GridInv => EachTriedOnce
  <2> SUFFICES ASSUME GridInv, Sorted PROVE EachTriedOnce
    BY DEF EachTriedOnce
  <2> DEFINE cs == Combinations(grid)
  <2>1. /\ Len(cs) \in Nat /\ next \in 1..Len(cs) + 1 /\ next > Len(cs) /\ submitted = {}
        /\ \A p \in Pairs(grid) : \E k \in 1..Len(cs) : cs[k] = p
        /\ \A k \in 1..Len(cs) : Tried(cs[k]) = IF k < next /\ cs[k] \notin submitted THEN 1 ELSE 0
    BY CombinationFacts DEF GridInv, Sorted
  <2> HIDE DEF cs
  <2>2. \A k \in 1..Len(cs) : Tried(cs[k]) = 1
    BY <2>1
  <2>3. ASSUME NEW a \in Values(grid.first), NEW b \in Values(grid.second) PROVE Tried(<<a, b>>) = 1
    <3>1. <<a, b>> \in Pairs(grid)
      BY DEF Pairs
    <3> QED BY <2>1, <2>2, <3>1
  <2>4. ASSUME results # <<>>, ~Passes(Ranking[1].metrics, Gates), NEW i \in DOMAIN results
        PROVE  ~Passes(results[i].metrics, Gates)
    <3> DEFINE n == Len(results)
               r == Ranked(results)
    <3>1. /\ results \in Seq(Outcome(grid)) /\ n \in Nat /\ i \in 1..n
          /\ \A j \in 1..n : results[j].score = Score(results[j].metrics, Gates)
      BY DEF GridInv
    <3>2. \A j \in 1..n : results[j] \in Outcome(grid)
      BY <3>1
    <3>3. \A j \in 1..n : results[j].metrics \in TrialMetrics /\ results[j].score \in Int
      BY <3>2 DEF Outcome
    <3>4. Scored(results)
      BY <3>1, <3>3 DEF Scored
    <3>5. /\ \E order : Rearranges(order, results, r)
          /\ \A j, k \in 1..n : j < k => r[j].score >= r[k].score
      BY <3>1, <3>4, RankedFacts
    <3>6. PICK order : Rearranges(order, results, r)
      BY <3>5
    <3>7. /\ order \in [1..n -> 1..n]
          /\ \A k \in 1..n : r[k] = results[order[k]]
          /\ \A j \in 1..n : \E k \in 1..n : order[k] = j
      BY <3>6 DEF Rearranges
    <3> HIDE DEF n, r
    <3>8. 1 \in 1..n /\ order[1] \in 1..n
      BY <3>1, <3>7
    <3>9. r[1].score < Invalid /\ r[1].score \in Int
      <4>1. r[1] = results[order[1]] /\ r[1].metrics \in TrialMetrics
        BY <3>3, <3>7, <3>8
      <4>2. r[1].score = Score(r[1].metrics, Gates) /\ r[1].score \in Int
        BY <3>1, <3>3, <3>8, <4>1
      <4>3. ~Passes(r[1].metrics, Gates)
        BY <2>4 DEF Ranking, r
      <4> QED BY <4>1, <4>2, <4>3, MetricsAssumption, RefusedScore
    <3>10. PICK k \in 1..n : order[k] = i
      BY <3>1, <3>7
    <3>11. r[k] = results[i]
      BY <3>7, <3>10
    <3>12. results[i].score <= r[1].score
      <4>1. k = 1 \/ 1 < k
        BY <3>10
      <4> QED BY <3>3, <3>1, <3>5, <3>8, <3>9, <3>10, <3>11, <4>1
    <3>13. ~(results[i].score > Invalid)
      BY <3>1, <3>3, <3>9, <3>12 DEF Invalid
    <3> QED BY <3>1, <3>3, <3>13
  <2> QED BY <2>3, <2>4 DEF EachTriedOnce
<1> QED BY <1>1, GridInit, GridStep, PTL DEF Spec

-----------------------------------------------------------------------------
(* The neighbourhoods of the hybrid search.                                *)

LEMMA Multiples ==
    ASSUME NEW m \in Nat \ {0}, NEW x \in Int
    PROVE  /\ x \div m \in Int
           /\ x % m = 0 => x = m * (x \div m)
           /\ (m * x) % m = 0 /\ m * x \in Int
BY Z3

LEMMA DivBounds ==
    ASSUME NEW m \in Nat \ {0}, NEW x \in Int
    PROVE  /\ x \div m \in Int
           /\ m * (x \div m) <= x /\ x < m * (x \div m + 1)
BY Z3

LEMMA Smaller ==
    ASSUME NEW m \in Nat \ {0}, NEW x \in Int, NEW y \in Int, m * x < m * y
    PROVE  x < y
BY Z3

LEMMA Larger ==
    ASSUME NEW m \in Nat \ {0}, NEW x \in Int, NEW y \in Int, x <= y
    PROVE  m * x <= m * y
BY Z3

LEMMA Distributes ==
    ASSUME NEW m \in Int, NEW x \in Int, NEW y \in Int
    PROVE  /\ m * (x - y) = m * x - m * y /\ m * (x + y) = m * x + m * y
           /\ m * x = x * m /\ m * x \in Int
BY Z3

LEMMA UpFacts ==
    ASSUME NEW m \in Nat \ {0}, NEW x \in Int
    PROVE  /\ Up(x, m) \in Int /\ x <= m * Up(x, m)
           /\ \A k \in Int : x <= m * k => Up(x, m) <= k
<1> DEFINE y == -x
           d == y \div m
           u == -d
<1>1. y \in Int /\ x = -y /\ Up(x, m) = u
  BY DEF Up
<1>2. d \in Int /\ m * d <= y /\ y < m * (d + 1)
  BY <1>1, DivBounds
<1> HIDE DEF y, d
<1>3. u \in Int /\ d = -u
  BY <1>2
<1> HIDE DEF u
<1>4. m * d = -(m * u) /\ m * u \in Int
  BY <1>2, <1>3, Z3
<1>5. x <= m * u
  BY <1>1, <1>2, <1>4
<1>6. ASSUME NEW k \in Int, x <= m * k PROVE u <= k
  <2>1. m * (-(d + 1)) < x
    <3>1. m * (-(d + 1)) = -(m * (d + 1)) /\ m * (d + 1) \in Int
      BY <1>2, Z3
    <3> QED BY <1>1, <1>2, <3>1
  <2>2. m * (-(d + 1)) < m * k
    <3>1. m * (-(d + 1)) \in Int /\ m * k \in Int
      BY <1>2, Z3
    <3> QED BY <2>1, <1>6, <3>1
  <2>3. -(d + 1) < k
    BY <1>2, <2>2, Smaller
  <2> QED BY <1>2, <1>3, <2>3
<1> QED BY <1>1, <1>3, <1>5, <1>6

\* _make_local_space: around a point of the base's lattice the bounds come back to
\* that lattice on either side of it, so the single-point fallback is never needed.
LEMMA LocalSpaceFacts ==
    ASSUME NEW b \in Base, NEW c \in Lattice(b)
    PROVE  /\ c \in Lattice(LocalSpace(b, c))
           /\ Lattice(LocalSpace(b, c)) \subseteq Lattice(b)
           /\ LocalSpace(b, c).high \in Lattice(LocalSpace(b, c))
           /\ LocalSpace(b, c) \in Base
<1> DEFINE m == b.step
           low == Largest(b.low, c - Span(b, c))
           high == Smallest(b.high, c + Span(b, c))
           k == (c - b.low) \div m
           q == Up(low - b.low, m)
           d == (high - b.low) \div m
           first == b.low + q * m
           last == b.low + d * m
           s == LocalSpace(b, c)
<1>1. /\ b.low \in Int /\ b.high \in Int /\ m \in Nat \ {0}
      /\ c \in Int /\ b.low <= c /\ c <= b.high /\ (c - b.low) % m = 0
  BY DEF Base, Lattice
<1>2. Span(b, c) \in Int /\ Span(b, c) >= m
  <2> DEFINE u == Up(Largest(c, -c) * Radius, 100)
  <2>1. u \in Int
    <3>1. Largest(c, -c) \in Int
      BY <1>1 DEF Largest
    <3>2. Largest(c, -c) * Radius \in Int
      <4> DEFINE a == Largest(c, -c)
      <4> HIDE DEF a
      <4>1. a \in Int => a * Radius \in Int
        BY SearchAssumption, Z3
      <4> QED BY <4>1, <3>1 DEF a
    <3> QED BY <3>2, UpFacts
  <2> HIDE DEF u
  <2>2. Span(b, c) = Largest(m, u)
    BY DEF Span, u
  <2> QED BY <1>1, <2>1, <2>2 DEF Largest
<1>3. /\ low \in Int /\ b.low <= low /\ low <= c
      /\ high \in Int /\ c <= high /\ high <= b.high
  <2> DEFINE r == Span(b, c)
  <2>1. r \in Int /\ r >= 0
    BY <1>1, <1>2
  <2> HIDE DEF r
  <2>2. low = Largest(b.low, c - r) /\ high = Smallest(b.high, c + r)
    BY DEF r
  <2> HIDE DEF low, high
  <2> QED BY <1>1, <2>1, <2>2 DEF Largest, Smallest
<1> HIDE DEF low, high, m
<1>4. k \in Int /\ c - b.low = m * k
  <2> DEFINE x == c - b.low
  <2>1. x \in Int /\ x % m = 0 /\ k = x \div m
    BY <1>1
  <2> HIDE DEF x, k
  <2>2. k \in Int /\ x = m * k
    BY <1>1, <2>1, Multiples
  <2> QED BY <2>2 DEF x
<1>5. q \in Int /\ low - b.low <= m * q /\ q <= k
  <2>1. low - b.low \in Int /\ low - b.low <= m * k
    BY <1>1, <1>3, <1>4
  <2> HIDE DEF k
  <2> QED BY <1>1, <1>4, <2>1, UpFacts
<1>6. d \in Int /\ m * d <= high - b.low /\ high - b.low < m * (d + 1) /\ k <= d
  <2>1. high - b.low \in Int /\ m * k <= high - b.low
    BY <1>1, <1>3, <1>4
  <2>2. d \in Int /\ m * d <= high - b.low /\ high - b.low < m * (d + 1)
    BY <1>1, <2>1, DivBounds
  <2> HIDE DEF k, d
  <2>3. m * k < m * (d + 1)
    <3>1. m * k \in Int /\ m * (d + 1) \in Int
      BY <1>1, <1>4, <2>2, Z3
    <3> QED BY <2>1, <2>2, <3>1
  <2>4. k < d + 1
    BY <1>1, <1>4, <2>2, <2>3, Smaller
  <2> QED BY <1>4, <2>2, <2>4
<1> HIDE DEF k, q, d
<1>7. /\ m * q \in Int /\ m * k \in Int /\ m * d \in Int
      /\ q * m = m * q /\ d * m = m * d
  BY <1>1, <1>4, <1>5, <1>6, Distributes
<1>8. m * q <= m * k /\ m * k <= m * d /\ 0 <= m * q
  <2>1. m * q <= m * k /\ m * k <= m * d
    BY <1>1, <1>4, <1>5, <1>6, Larger
  <2> QED BY <1>1, <1>3, <1>5, <1>7, <2>1
<1>9. /\ first \in Int /\ last \in Int /\ b.low <= first /\ first <= c /\ c <= last /\ last <= b.high
      /\ first = b.low + m * q /\ last = b.low + m * d
  <2>1. first = b.low + m * q /\ last = b.low + m * d
    BY <1>7
  <2> DEFINE mq == m * q
             mk == m * k
             md == m * d
             h == high - b.low
  <2>2. /\ mq \in Int /\ mk \in Int /\ md \in Int /\ mq <= mk /\ mk <= md /\ 0 <= mq
        /\ c - b.low = mk /\ md <= h /\ h = high - b.low
        /\ first = b.low + mq /\ last = b.low + md
    BY <1>4, <1>6, <1>7, <1>8, <2>1
  <2> HIDE DEF mq, mk, md, h, first, last
  <2>3. /\ first \in Int /\ last \in Int /\ b.low <= first /\ first <= c /\ c <= last
        /\ last <= b.high
    BY <1>1, <1>3, <2>2
  <2> QED BY <2>1, <2>3
<1>10. s = [low |-> first, high |-> last, step |-> m]
  <2>1. ~(first > last)
    <3> HIDE DEF first, last
    <3> QED BY <1>1, <1>9
  <2>2. s = IF first > last THEN [low |-> c, high |-> c, step |-> m]
                            ELSE [low |-> first, high |-> last, step |-> m]
    BY DEF LocalSpace, m, low, high, q, d
  <2> QED BY <2>1, <2>2
<1> HIDE DEF first, last
<1>11. s.low = first /\ s.high = last /\ s.step = m
  BY <1>10
<1>12. s \in Base
  BY <1>1, <1>9, <1>10 DEF Base
<1> HIDE DEF s
<1>13. c \in Lattice(s) /\ last \in Lattice(s)
  <2>1. c - first = m * (k - q) /\ last - first = m * (d - q)
    <3>1. m * (k - q) = m * k - m * q /\ m * (d - q) = m * d - m * q
      BY <1>1, <1>4, <1>5, <1>6, Distributes
    <3> QED BY <1>1, <1>4, <1>7, <1>9, <3>1
  <2>2. (m * (k - q)) % m = 0 /\ (m * (d - q)) % m = 0
    <3>1. k - q \in Int /\ d - q \in Int
      BY <1>4, <1>5, <1>6
    <3> QED BY <1>1, <3>1, Multiples
  <2> QED BY <1>1, <1>9, <1>11, <2>1, <2>2 DEF Lattice
<1>14. ASSUME NEW x \in Lattice(s) PROVE x \in Lattice(b)
  <2>1. x \in Int /\ first <= x /\ x <= last /\ (x - first) % m = 0
    BY <1>9, <1>11 DEF Lattice
  <2> DEFINE j == (x - first) \div m
  <2>2. j \in Int /\ x - first = m * j
    <3>1. x - first \in Int
      BY <1>9, <2>1
    <3> QED BY <1>1, <2>1, <3>1, Multiples
  <2> HIDE DEF j
  <2>3. x - b.low = m * (q + j)
    <3>1. m * (q + j) = m * q + m * j /\ m * j \in Int
      BY <1>1, <1>5, <2>2, Distributes
    <3> QED BY <1>1, <1>7, <1>9, <2>1, <2>2, <3>1
  <2>4. (m * (q + j)) % m = 0
    <3>1. q + j \in Int
      BY <1>5, <2>2
    <3> QED BY <1>1, <3>1, Multiples
  <2> QED BY <1>1, <1>9, <2>1, <2>3, <2>4 DEF Lattice, m
<1> QED BY <1>11, <1>12, <1>13, <1>14 DEF s

\* What a study of a phase may report of a set on the lattice of the base.
Judged(b) ==
    {c \in [params : Params(b, BOOLEAN), metrics : Reports, score : Int] :
        \E k \in 1..3 : c.score = Score(c.metrics, Scorers[k])}
Reported(known) == \A p \in DOMAIN known : known[p] \in Reports

LEMMA ScorersFacts ==
    ASSUME NEW k \in 1..3 PROVE Scorers[k] \in ScorerConfig /\ \A m \in Reports : Score(m, Scorers[k]) \in Int
<1>1. Scorers[k] \in ScorerConfig /\ Reports \subseteq Metrics
  BY SearchAssumption
<1> QED BY <1>1, ScoreIsInt

LEMMA KnownFacts ==
    ASSUME NEW trials, NEW known \in Known(trials), Reported(truth)
    PROVE  Reported(known) /\ \A i \in DOMAIN trials : known[trials[i]] \in Reports
<1> DEFINE fresh == Range(trials) \ DOMAIN truth
<1>1. PICK f \in [fresh -> Reports] :
          known = [p \in DOMAIN truth \cup fresh |-> IF p \in fresh THEN f[p] ELSE truth[p]]
  BY DEF Known
<1> HIDE DEF fresh
<1>2. DOMAIN known = DOMAIN truth \cup fresh
  BY <1>1
<1>3. ASSUME NEW p \in DOMAIN truth \cup fresh PROVE known[p] \in Reports
  BY <1>1, <1>3 DEF Reported
<1>4. ASSUME NEW i \in DOMAIN trials PROVE trials[i] \in DOMAIN truth \cup fresh
  BY DEF fresh, Range
<1> QED BY <1>2, <1>3, <1>4 DEF Reported

LEMMA ResultsFacts ==
    ASSUME NEW b, NEW k \in 1..3, NEW trials \in Seq(Params(b, BOOLEAN)), NEW known,
           \A i \in DOMAIN trials : known[trials[i]] \in Reports
    PROVE  /\ Results(trials, known, Scorers[k]) \in Seq(Judged(b))
           /\ Len(Results(trials, known, Scorers[k])) = Len(trials)
<1> DEFINE n == Len(trials)
           s == [i \in DOMAIN trials |-> Result(trials[i], known[trials[i]], Scorers[k])]
<1>1. n \in Nat /\ DOMAIN trials = 1..n /\ \A i \in 1..n : trials[i] \in Params(b, BOOLEAN)
  OBVIOUS
<1>2. ASSUME NEW i, i \in 1..n PROVE s[i] \in Judged(b) /\ s[i].score \in Int
  <2> DEFINE p == trials[i]
             m == known[p]
  <2>1. s[i] = [params |-> p, metrics |-> m, score |-> Score(m, Scorers[k])]
    BY <1>1, <1>2 DEF Result
  <2>2. p \in Params(b, BOOLEAN) /\ m \in Reports
    BY <1>1, <1>2
  <2>3. Score(m, Scorers[k]) \in Int
    BY <2>2, ScorersFacts
  <2> HIDE DEF p, m, s
  <2>4. /\ s[i] \in [params : Params(b, BOOLEAN), metrics : Reports, score : Int]
        /\ s[i].score = Score(s[i].metrics, Scorers[k]) /\ s[i].score \in Int
    BY <2>1, <2>2, <2>3
  <2> QED BY <2>4 DEF Judged
<1>3. s = [i \in 1..n |-> s[i]]
  BY <1>1
<1> HIDE DEF s, n
<1>4. s \in Seq(Judged(b)) /\ Len(s) = n
  <2> DEFINE S == Judged(b)
  <2>1. \A i \in 1..n : s[i] \in S
    BY <1>2
  <2> HIDE DEF S
  <2>2. s \in Seq(S) /\ Len(s) = n
    BY <1>1, <1>3, <2>1, ListedIsSeq
  <2> QED BY <2>2 DEF S
<1>5. Scored(s)
  BY <1>2, <1>4 DEF Scored
<1>6. Ranked(s) \in Seq(Judged(b)) /\ Len(Ranked(s)) = n
  <2> DEFINE S == Judged(b)
  <2> HIDE DEF S
  <2>1. s \in Seq(S)
    BY <1>4 DEF S
  <2>2. Ranked(s) \in Seq(S) /\ Len(Ranked(s)) = Len(s)
    BY <1>5, <2>1, RankedFacts
  <2> QED BY <1>4, <2>2 DEF S
<1> QED BY <1>6 DEF Results, s, n

LEMMA TopFacts ==
    ASSUME NEW S, NEW s \in Seq(S), NEW n \in Nat
    PROVE  /\ Top(s, n) \in Seq(S) /\ Len(Top(s, n)) = Smallest(n, Len(s))
           /\ \A i \in 1..Len(Top(s, n)) : Top(s, n)[i] = s[i] /\ i \in 1..Len(s)
<1> DEFINE m == Smallest(n, Len(s))
<1>1. m \in Nat /\ m <= Len(s) /\ Len(s) \in Nat
  BY DEF Smallest
<1>2. Top(s, n) = SubSeq(s, 1, m)
  BY DEF Top
<1> HIDE DEF m
<1>3. SubSeq(s, 1, m) \in Seq(S) /\ Len(SubSeq(s, 1, m)) = m
  BY <1>1
<1>4. \A i \in 1..m : SubSeq(s, 1, m)[i] = s[i]
  BY <1>1
<1> QED BY <1>1, <1>2, <1>3, <1>4 DEF m

Distinct(s) == \A i, j \in 1..Len(s) : i # j => s[i].params # s[j].params

LEMMA RankedSeeds ==
    ASSUME NEW S, NEW s \in Seq(S), Scored(s), NEW n \in Nat, Distinct(s)
    PROVE  Top(Ranked(s), n) \in Seq(S) /\ Distinct(Top(Ranked(s), n))
<1> DEFINE r == Ranked(s)
           t == Top(r, n)
<1>1. r \in Seq(S) /\ Len(r) = Len(s) /\ \E order : Rearranges(order, s, r)
  BY RankedFacts
<1>2. PICK order : Rearranges(order, s, r)
  BY <1>1
<1> HIDE DEF r
<1>3. /\ order \in [1..Len(s) -> 1..Len(s)]
      /\ \A k \in 1..Len(s) : r[k] = s[order[k]]
      /\ \A j, k \in 1..Len(s) : j # k => order[j] # order[k]
  BY <1>2 DEF Rearranges
<1>4. t \in Seq(S) /\ \A i \in 1..Len(t) : t[i] = r[i] /\ i \in 1..Len(r)
  BY <1>1, TopFacts
<1> HIDE DEF t
<1>5. ASSUME NEW i, i \in 1..Len(t), NEW j, j \in 1..Len(t), i # j
      PROVE  t[i].params # t[j].params
  <2>1. i \in 1..Len(s) /\ j \in 1..Len(s) /\ t[i] = r[i] /\ t[j] = r[j]
    BY <1>1, <1>4, <1>5
  <2>2. order[i] \in 1..Len(s) /\ order[j] \in 1..Len(s) /\ order[i] # order[j]
    BY <1>3, <1>5, <2>1
  <2>3. r[i] = s[order[i]] /\ r[j] = s[order[j]]
    BY <1>3, <2>1
  <2> QED BY <2>1, <2>2, <2>3 DEF Distinct
<1> QED BY <1>4, <1>5 DEF t, r, Distinct

\* _dedup_candidates keeps one candidate of each parameter set.
LEMMA DeduplicatedFacts ==
    ASSUME NEW S, NEW s \in Seq(S)
    PROVE  /\ Deduplicated(s) \in Seq(S)
           /\ Distinct(Deduplicated(s))
<1> DEFINE n == Len(s)
           T == {s[i].params : i \in 1..n}
           key == [i \in 1..n |-> s[i].params]
           K == FirstOf(key, n)
           d == Kept(s, K)
           a == Ascending(K)
<1>1. n \in Nat /\ DOMAIN s = 1..n
  OBVIOUS
<1>2. Deduplicated(s) = d
  <2>1. {i \in DOMAIN s : \A j \in 1..i - 1 : s[j].params # s[i].params} = K
    <3>1. ASSUME NEW i, i \in 1..n
          PROVE  (\A j \in 1..i - 1 : s[j].params # s[i].params) <=>
                     (\A j \in 1..i - 1 : key[j] # key[i])
      <4>1. \A j \in 1..i - 1 : j \in 1..n
        BY <1>1, <3>1
      <4>2. key[i] = s[i].params /\ \A j \in 1..i - 1 : key[j] = s[j].params
        BY <3>1, <4>1
      <4> HIDE DEF key, n, T
      <4> QED BY <4>2
    <3> HIDE DEF key, T
    <3> QED BY <1>1, <3>1 DEF FirstOf
  <2> HIDE DEF K
  <2> QED BY <2>1 DEF Deduplicated
<1>3. key \in [1..n -> T] /\ \A i \in 1..n : key[i] = s[i].params
  OBVIOUS
<1> HIDE DEF key, T
<1>4. d \in Seq(S) /\ DistinctFacts(s, key, K)
  BY <1>3, DedupFacts
<1>5. /\ \A i \in 1..Len(d) : a[i] \in 1..n /\ d[i] = s[a[i]]
      /\ \A i, j \in 1..Len(d) : i # j => key[a[i]] # key[a[j]]
  BY <1>4 DEF DistinctFacts
<1> HIDE DEF d, a, K, n
<1>6. ASSUME NEW i, i \in 1..Len(d), NEW j, j \in 1..Len(d), i # j
      PROVE  d[i].params # d[j].params
  <2>1. a[i] \in 1..n /\ a[j] \in 1..n /\ d[i] = s[a[i]] /\ d[j] = s[a[j]]
    BY <1>5, <1>6
  <2>2. key[a[i]] # key[a[j]]
    BY <1>5, <1>6
  <2> QED BY <1>3, <2>1, <2>2
<1> QED BY <1>2, <1>4, <1>6 DEF Distinct

Placed == \A i \in 1..Len(spaces) : Around(spaces[i])
HybridInv ==
    /\ base \in Base
    /\ phase \in {"start", "discovery", "seeds", "refinement", "selection"}
    /\ Reported(truth)
    /\ core \in Seq(Judged(base)) /\ adaptive \in Seq(Judged(base)) /\ seeds \in Seq(Judged(base))
    /\ refined \in Seq(Judged(base)) /\ polished \in Seq(Judged(base))
    /\ Distinct(seeds)
    /\ spaces \in Seq([space : Base, seed : Params(base, BOOLEAN)])
    /\ Placed
    /\ phase = "start" =>
           /\ core = <<>> /\ adaptive = <<>> /\ seeds = <<>> /\ refined = <<>> /\ polished = <<>>
           /\ spaces = <<>>
    /\ phase \in {"seeds", "refinement"} => Len(core) + Len(adaptive) > 0
    /\ phase = "selection" => Len(polished) = 1

LEMMA JudgedFacts ==
    ASSUME NEW b, NEW s \in Seq(Judged(b))
    PROVE  /\ Scored(s)
           /\ \A i \in 1..Len(s) : /\ s[i].params \in Params(b, BOOLEAN) /\ s[i].metrics \in Reports
                                   /\ \E k \in 1..3 : s[i].score = Score(s[i].metrics, Scorers[k])
<1>1. \A i \in 1..Len(s) : s[i] \in Judged(b)
  OBVIOUS
<1>2. ASSUME NEW c \in Judged(b)
      PROVE  /\ c.params \in Params(b, BOOLEAN) /\ c.metrics \in Reports /\ c.score \in Int
             /\ \E k \in 1..3 : c.score = Score(c.metrics, Scorers[k])
  BY DEF Judged
<1> QED BY <1>1, <1>2 DEF Scored

LEMMA HybridInit == Init => HybridInv
<1> SUFFICES ASSUME Init PROVE HybridInv
  OBVIOUS
<1>1. /\ base = NoBase /\ truth = <<>> /\ core = <<>> /\ adaptive = <<>> /\ refined = <<>>
      /\ polished = <<>> /\ seeds = <<>> /\ spaces = <<>> /\ phase = "start"
  BY DEF Init, InitHybrid
<1>2. base \in Base
  BY <1>1 DEF NoBase, Base
<1>3. Reported(truth)
  BY <1>1 DEF Reported
<1>4. \A S : <<>> \in Seq(S)
  OBVIOUS
<1> QED BY <1>1, <1>2, <1>3, <1>4 DEF HybridInv, Distinct, Placed

LEMMA StartsHybrid == HybridInv /\ StartHybrid => HybridInv'
<1> SUFFICES ASSUME HybridInv, StartHybrid PROVE HybridInv'
  OBVIOUS
<1>1. /\ base' \in Base /\ phase' = "discovery" /\ truth' = truth
      /\ core' = <<>> /\ adaptive' = <<>> /\ refined' = <<>>
      /\ polished' = <<>> /\ seeds' = <<>> /\ spaces' = <<>>
  BY BasesAssumption DEF StartHybrid, HybridInv
<1>2. Reported(truth)'
  BY <1>1 DEF Reported, HybridInv
<1>3. \A S : <<>> \in Seq(S)
  OBVIOUS
<1> QED BY <1>1, <1>2, <1>3 DEF HybridInv, Distinct, Placed

LEMMA DiscoversHybrid ==
    ASSUME HybridInv, NEW split \in Splits, Discover(split)
    PROVE  HybridInv'
<1>0. PICK a \in [1..split.core -> Params(base, {FALSE})], b \in [1..split.adaptive -> Params(base, {TRUE})] :
          \E known \in Known(a \o b) :
              /\ phase = "discovery"
              /\ truth' = known
              /\ core' = Results(a, known, Scorers[1])
              /\ adaptive' = Results(b, known, Scorers[1])
              /\ phase' = "seeds"
              /\ UNCHANGED <<base, refined, polished, seeds, spaces>>
  BY DEF Discover
<1>1. PICK known \in Known(a \o b) :
          /\ truth' = known
          /\ core' = Results(a, known, Scorers[1])
          /\ adaptive' = Results(b, known, Scorers[1])
          /\ phase' = "seeds"
          /\ UNCHANGED <<base, refined, polished, seeds, spaces>>
  BY <1>0
<1>2. /\ split.core \in Nat /\ split.adaptive \in Nat /\ split.core + split.adaptive > 0
  BY SearchAssumption
<1>3. /\ a \in Seq(Params(base, BOOLEAN)) /\ Len(a) = split.core
      /\ b \in Seq(Params(base, BOOLEAN)) /\ Len(b) = split.adaptive
  <2> DEFINE n == split.core
             m == split.adaptive
             P == Params(base, BOOLEAN)
  <2>1. a \in [1..n -> P] /\ b \in [1..m -> P]
    <3>1. Params(base, {FALSE}) \subseteq P /\ Params(base, {TRUE}) \subseteq P
      BY DEF Params
    <3> HIDE DEF P
    <3> QED BY <3>1
  <2> HIDE DEF n, m, P
  <2>2. a \in Seq(P) /\ Len(a) = n /\ b \in Seq(P) /\ Len(b) = m
    BY <1>2, <2>1 DEF n, m
  <2> QED BY <2>2 DEF n, m, P
<1>4. /\ Reported(known)
      /\ \A i \in DOMAIN a : known[a[i]] \in Reports
      /\ \A i \in DOMAIN b : known[b[i]] \in Reports
  <2>1. Reported(truth)
    BY DEF HybridInv
  <2>2. Reported(known) /\ \A i \in DOMAIN (a \o b) : known[(a \o b)[i]] \in Reports
    BY <2>1, KnownFacts
  <2> DEFINE P == Params(base, BOOLEAN)
             c == a \o b
  <2>3. /\ a \in Seq(P) /\ b \in Seq(P) /\ Len(a) \in Nat /\ Len(b) \in Nat
        /\ DOMAIN a = 1..Len(a) /\ DOMAIN b = 1..Len(b)
    BY <1>2, <1>3
  <2> HIDE DEF P
  <2>4. /\ DOMAIN c = 1..Len(a) + Len(b)
        /\ \A i \in 1..Len(a) : c[i] = a[i]
        /\ \A i \in 1..Len(b) : c[Len(a) + i] = b[i]
    BY <2>3
  <2>5. \A i \in DOMAIN c : known[c[i]] \in Reports
    BY <2>2
  <2> HIDE DEF c
  <2>6. ASSUME NEW i, i \in 1..Len(a) PROVE known[a[i]] \in Reports
    <3>1. i \in 1..Len(a) + Len(b)
      BY <2>3, <2>6
    <3> QED BY <2>4, <2>5, <2>6, <3>1
  <2>7. ASSUME NEW i, i \in 1..Len(b) PROVE known[b[i]] \in Reports
    <3>1. Len(a) + i \in 1..Len(a) + Len(b)
      BY <2>3, <2>7
    <3> QED BY <2>4, <2>5, <2>7, <3>1
  <2> QED BY <2>2, <2>3, <2>6, <2>7
<1>5. /\ core' \in Seq(Judged(base)) /\ Len(core') = split.core
      /\ adaptive' \in Seq(Judged(base)) /\ Len(adaptive') = split.adaptive
  BY <1>1, <1>3, <1>4, ResultsFacts
<1>6. base' = base /\ refined' = refined /\ polished' = polished /\ seeds' = seeds /\ spaces' = spaces
  BY <1>1
<1>7. Reported(truth)'
  BY <1>1, <1>4 DEF Reported
<1>8. Placed'
  BY <1>6 DEF HybridInv, Placed, Around
<1> QED BY <1>1, <1>2, <1>5, <1>6, <1>7, <1>8 DEF HybridInv

LEMMA PicksHybrid ==
    ASSUME HybridInv, NEW n \in BranchSeeds, PickSeeds(n)
    PROVE  HybridInv'
<1> DEFINE J == Judged(base)
           s == Top(core, n) \o Top(adaptive, n)
           d == Deduplicated(s)
<1>1. /\ seeds' = Top(Ranked(d), SeedCap) /\ phase = "seeds" /\ phase' = "refinement"
      /\ base' = base /\ truth' = truth /\ core' = core /\ adaptive' = adaptive
      /\ refined' = refined /\ polished' = polished /\ spaces' = spaces
  BY DEF PickSeeds
<1>2. core \in Seq(J) /\ adaptive \in Seq(J) /\ n \in Nat /\ SeedCap \in Nat
  BY SearchAssumption DEF HybridInv
<1>3. s \in Seq(J)
  <2>1. Top(core, n) \in Seq(J) /\ Top(adaptive, n) \in Seq(J)
    <3> HIDE DEF J
    <3> QED BY <1>2, TopFacts
  <2> HIDE DEF J
  <2> QED BY <2>1
<1>4. /\ d \in Seq(J)
      /\ Distinct(d)
  <2> HIDE DEF J, s
  <2> QED BY <1>3, DeduplicatedFacts
<1> HIDE DEF d, s
<1>5. Scored(d)
  BY <1>4, JudgedFacts
<1> HIDE DEF J
<1>6. /\ seeds' \in Seq(J)
      /\ Distinct(seeds')
  BY <1>1, <1>2, <1>4, <1>5, RankedSeeds
<1>7. Placed'
  BY <1>1 DEF HybridInv, Placed, Around
<1>8. Reported(truth)'
  BY <1>1 DEF HybridInv, Reported
<1>9. /\ base' \in Base /\ core' \in Seq(Judged(base')) /\ adaptive' \in Seq(Judged(base'))
      /\ refined' \in Seq(Judged(base')) /\ polished' \in Seq(Judged(base'))
      /\ spaces' \in Seq([space : Base, seed : Params(base', BOOLEAN)])
      /\ Len(core') + Len(adaptive') > 0
  BY <1>1 DEF HybridInv
<1>10. seeds' \in Seq(Judged(base'))
  BY <1>1, <1>6 DEF J
<1> QED BY <1>1, <1>6, <1>7, <1>8, <1>9, <1>10 DEF HybridInv

\* A study of one trial in the neighbourhood of a seed.
LEMMA SearchesAround ==
    ASSUME HybridInv, NEW x \in Lattice(base), NEW flag \in BOOLEAN, NEW k \in 1..3,
           NEW p \in Params(LocalSpace(base, x), {flag}), NEW known \in Known(<<p>>)
    PROVE  /\ Reported(known)
           /\ Results(<<p>>, known, Scorers[k]) \in Seq(Judged(base))
           /\ Len(Results(<<p>>, known, Scorers[k])) = 1
<1>1. base \in Base /\ Reported(truth)
  BY DEF HybridInv
<1>2. p \in Params(base, BOOLEAN)
  <2>1. Lattice(LocalSpace(base, x)) \subseteq Lattice(base)
    BY <1>1, LocalSpaceFacts
  <2> QED BY <2>1 DEF Params
<1>3. Reported(known) /\ \A i \in DOMAIN <<p>> : known[<<p>>[i]] \in Reports
  BY <1>1, KnownFacts
<1> DEFINE t == <<p>>
<1>4. t \in Seq(Params(base, BOOLEAN)) /\ Len(t) = 1
  BY <1>2
<1>5. \A i \in DOMAIN t : known[t[i]] \in Reports
  BY <1>3
<1> HIDE DEF t
<1>6. /\ Results(t, known, Scorers[k]) \in Seq(Judged(base))
      /\ Len(Results(t, known, Scorers[k])) = 1
  BY <1>4, <1>5, ResultsFacts
<1> QED BY <1>3, <1>6 DEF t

LEMMA PlacesOne ==
    ASSUME HybridInv, NEW seed \in Params(base, BOOLEAN), base' = base,
           spaces' = Append(spaces, [space |-> LocalSpace(base, seed.x), seed |-> seed])
    PROVE  spaces' \in Seq([space : Base, seed : Params(base, BOOLEAN)]) /\ Placed'
<1> DEFINE x == [space |-> LocalSpace(base, seed.x), seed |-> seed]
           n == Len(spaces)
           S == [space : Base, seed : Params(base, BOOLEAN)]
<1>1. base \in Base /\ spaces \in Seq(S) /\ n \in Nat /\ Placed
  BY DEF HybridInv
<1>2. seed.x \in Lattice(base)
  BY DEF Params
<1>3. /\ LocalSpace(base, seed.x) \in Base
      /\ seed.x \in Lattice(LocalSpace(base, seed.x))
      /\ Lattice(LocalSpace(base, seed.x)) \subseteq Lattice(base)
      /\ LocalSpace(base, seed.x).high \in Lattice(LocalSpace(base, seed.x))
  BY <1>1, <1>2, LocalSpaceFacts
<1>4. x \in S /\ x.space = LocalSpace(base, seed.x) /\ x.seed = seed
  BY <1>3
<1>5. Around(x)
  BY <1>3, <1>4 DEF Around
<1> HIDE DEF x, S
<1>6. spaces' = Append(spaces, x)
  BY DEF x
<1>7. /\ spaces' \in Seq(S) /\ Len(spaces') = n + 1 /\ spaces'[n + 1] = x
      /\ \A i \in 1..n : spaces'[i] = spaces[i]
  BY <1>1, <1>4, <1>6
<1>8. ASSUME NEW i, i \in 1..n + 1 PROVE Around(spaces'[i])
  <2>1. CASE i = n + 1
    BY <1>5, <1>7, <2>1
  <2>2. CASE i \in 1..n
    BY <1>1, <1>7, <2>2 DEF Placed
  <2> QED BY <1>1, <1>8, <2>1, <2>2
<1>9. Placed'
  BY <1>7, <1>8 DEF Placed, Around
<1> QED BY <1>7, <1>9 DEF S

LEMMA RefinesHybrid == HybridInv /\ Refine => HybridInv'
<1> SUFFICES ASSUME HybridInv, Refine PROVE HybridInv'
  OBVIOUS
<1> DEFINE c == seeds[Len(spaces) + 1]
           space == LocalSpace(base, c.params.x)
           J == Judged(base)
<1>1. PICK p \in Params(space, {c.params.adaptive}) : \E known \in Known(<<p>>) :
          truth' = known /\ refined' = refined \o Results(<<p>>, known, Scorers[2])
  BY DEF Refine
<1>2. PICK known \in Known(<<p>>) :
          truth' = known /\ refined' = refined \o Results(<<p>>, known, Scorers[2])
  BY <1>1
<1>3. /\ phase = "refinement" /\ Len(spaces) < Len(seeds)
      /\ spaces' = Append(spaces, [space |-> space, seed |-> c.params])
      /\ base' = base /\ core' = core /\ adaptive' = adaptive /\ polished' = polished
      /\ seeds' = seeds /\ phase' = phase
  BY DEF Refine
<1>4. c.params \in Params(base, BOOLEAN)
  <2>1. Len(spaces) + 1 \in 1..Len(seeds) /\ seeds \in Seq(J)
    BY <1>3 DEF HybridInv
  <2> HIDE DEF J
  <2>2. c \in J
    BY <2>1
  <2> QED BY <2>2 DEF J, Judged
<1>5. c.params.x \in Lattice(base) /\ c.params.adaptive \in BOOLEAN
  BY <1>4 DEF Params
<1>6. spaces' \in Seq([space : Base, seed : Params(base, BOOLEAN)]) /\ Placed'
  <2> DEFINE e == c.params
  <2>1. e \in Params(base, BOOLEAN)
    BY <1>4
  <2>2. spaces' = Append(spaces, [space |-> LocalSpace(base, e.x), seed |-> e])
    BY <1>3
  <2> HIDE DEF e
  <2> QED BY <1>3, <2>1, <2>2, PlacesOne
<1>7. Reported(known) /\ Results(<<p>>, known, Scorers[2]) \in Seq(J)
  <2> DEFINE x == c.params.x
             flag == c.params.adaptive
  <2>1. x \in Lattice(base) /\ flag \in BOOLEAN /\ p \in Params(LocalSpace(base, x), {flag})
    BY <1>5
  <2> HIDE DEF x, flag
  <2>2. 2 \in 1..3
    OBVIOUS
  <2> QED BY <2>1, <2>2, SearchesAround
<1>8. refined' \in Seq(J)
  <2>1. refined \in Seq(J)
    BY DEF HybridInv
  <2> HIDE DEF J
  <2> QED BY <1>2, <1>7, <2>1
<1>9. Reported(truth)'
  BY <1>2, <1>7 DEF Reported
<1> QED BY <1>3, <1>6, <1>8, <1>9 DEF HybridInv

LEMMA PolishesHybrid == HybridInv /\ Polish => HybridInv'
<1> SUFFICES ASSUME HybridInv, Polish PROVE HybridInv'
  OBVIOUS
<1> DEFINE c == Phase2Results[1]
           space == LocalSpace(base, c.params.x)
           J == Judged(base)
<1>1. PICK p \in Params(space, {c.params.adaptive}) : \E known \in Known(<<p>>) :
          truth' = known /\ polished' = Results(<<p>>, known, Scorers[3])
  BY DEF Polish
<1>2. PICK known \in Known(<<p>>) :
          truth' = known /\ polished' = Results(<<p>>, known, Scorers[3])
  BY <1>1
<1>3. /\ phase = "refinement" /\ refined' = Phase2Results
      /\ spaces' = Append(spaces, [space |-> space, seed |-> c.params])
      /\ base' = base /\ core' = core /\ adaptive' = adaptive
      /\ seeds' = seeds /\ phase' = "selection"
  BY DEF Polish
<1>4. Phase2Results \in Seq(J) /\ Len(Phase2Results) > 0
  <2>1. refined \in Seq(J) /\ Scored(refined)
    BY JudgedFacts DEF HybridInv
  <2>2. /\ core \in Seq(J) /\ adaptive \in Seq(J) /\ Len(core) + Len(adaptive) > 0
    BY <1>3 DEF HybridInv
  <2> DEFINE a == core \o adaptive
  <2>3. a \in Seq(J) /\ Len(a) > 0
    <3> HIDE DEF J
    <3> QED BY <2>2
  <2>4. Scored(a)
    BY <2>3, JudgedFacts
  <2> HIDE DEF J, a
  <2>5. CASE refined = <<>>
    <3>1. Ranked(a) \in Seq(J) /\ Len(Ranked(a)) = Len(a)
      BY <2>3, <2>4, RankedFacts
    <3>2. Top(Ranked(a), 1) \in Seq(J) /\ Len(Top(Ranked(a), 1)) = Smallest(1, Len(a))
      BY <3>1, TopFacts
    <3>3. Smallest(1, Len(a)) = 1
      BY <2>3 DEF Smallest
    <3> QED BY <2>5, <3>2, <3>3 DEF Phase2Results, a
  <2>6. CASE refined # <<>>
    <3>1. Ranked(refined) \in Seq(J) /\ Len(Ranked(refined)) = Len(refined)
      BY <2>1, RankedFacts
    <3>2. Len(refined) > 0
      BY <2>1, <2>6
    <3> QED BY <2>6, <3>1, <3>2 DEF Phase2Results
  <2> QED BY <2>5, <2>6
<1>5. c.params \in Params(base, BOOLEAN)
  <2>1. c \in J
    <3> HIDE DEF J
    <3> QED BY <1>4
  <2> QED BY <2>1 DEF J, Judged
<1>6. c.params.x \in Lattice(base) /\ c.params.adaptive \in BOOLEAN
  BY <1>5 DEF Params
<1> HIDE DEF c
<1>7. spaces' \in Seq([space : Base, seed : Params(base, BOOLEAN)]) /\ Placed'
  <2> DEFINE e == c.params
  <2>1. e \in Params(base, BOOLEAN)
    BY <1>5
  <2>2. spaces' = Append(spaces, [space |-> LocalSpace(base, e.x), seed |-> e])
    BY <1>3
  <2> HIDE DEF e
  <2> QED BY <1>3, <2>1, <2>2, PlacesOne
<1>8. /\ Reported(known) /\ Results(<<p>>, known, Scorers[3]) \in Seq(J)
      /\ Len(Results(<<p>>, known, Scorers[3])) = 1
  <2> DEFINE x == c.params.x
             flag == c.params.adaptive
  <2>1. x \in Lattice(base) /\ flag \in BOOLEAN /\ p \in Params(LocalSpace(base, x), {flag})
    BY <1>6
  <2> HIDE DEF x, flag
  <2>2. 3 \in 1..3
    OBVIOUS
  <2> QED BY <2>1, <2>2, SearchesAround
<1>9. Reported(truth)'
  BY <1>2, <1>8 DEF Reported
<1>10. polished' \in Seq(J) /\ Len(polished') = 1 /\ refined' \in Seq(J)
  BY <1>2, <1>3, <1>4, <1>8
<1> QED BY <1>3, <1>7, <1>9, <1>10 DEF HybridInv

LEMMA HybridStep == HybridInv /\ [Next]_vars => HybridInv'
<1> SUFFICES ASSUME HybridInv, [Next]_vars PROVE HybridInv'
  OBVIOUS
<1>1. NextHybrid \/ UNCHANGED hybridVars
  BY DEF Next, vars
<1>2. CASE UNCHANGED hybridVars
  BY <1>2 DEF hybridVars, HybridInv, Reported, Placed, Around
<1> QED
  BY <1>1, <1>2, StartsHybrid, DiscoversHybrid, PicksHybrid, RefinesHybrid, PolishesHybrid
  DEF NextHybrid

\* For any integer parameter, radius, numbers of trials and seeds, gates and weights,
\* and whatever the trials report: the local spaces are parts of the base around
\* their seeds and hold them, no seed is searched twice, and the winner passes the
\* gates of its phase if any candidate scored above INVALID_SCORE.
THEOREM HybridSearchesAroundSeeds == Spec => []SearchedAroundSeeds
<1>1. HybridInv => SearchedAroundSeeds
  <2> SUFFICES ASSUME HybridInv PROVE SearchedAroundSeeds
    OBVIOUS
  <2> DEFINE J == Judged(base)
             s == polished \o refined \o core \o adaptive
  <2>1. \A i \in DOMAIN spaces : Around(spaces[i])
    BY DEF HybridInv, Placed
  <2>2. \A i, j \in DOMAIN seeds : i # j => seeds[i].params # seeds[j].params
    BY DEF HybridInv, Distinct
  <2>3. s \in Seq(J)
    <3>1. polished \in Seq(J) /\ refined \in Seq(J) /\ core \in Seq(J) /\ adaptive \in Seq(J)
      BY DEF HybridInv
    <3> HIDE DEF J
    <3> QED BY <3>1
  <2>4. Scored(s)
    BY <2>3, JudgedFacts
  <2> HIDE DEF J, s
  <2>5. /\ Ranked(s) \in Seq(J) /\ Len(Ranked(s)) = Len(s)
        /\ \A j, k \in 1..Len(s) : j < k => Ranked(s)[j].score >= Ranked(s)[k].score
    BY <2>3, <2>4, RankedFacts
  <2>6. Candidates = Ranked(s)
    BY DEF Candidates, s
  <2> DEFINE r == Ranked(s)
  <2>7. /\ Scored(r)
        /\ \A i \in 1..Len(r) : /\ r[i].metrics \in Reports
                                /\ \E k \in 1..3 : r[i].score = Score(r[i].metrics, Scorers[k])
    <3> HIDE DEF r
    <3>1. r \in Seq(Judged(base))
      BY <2>5 DEF J, r
    <3> QED BY <3>1, JudgedFacts
  <2> HIDE DEF r
  <2>8. ASSUME NEW i \in DOMAIN Candidates, Candidates[i].score > Invalid
        PROVE  \E k \in 1..3 : /\ Passes(Winner.metrics, Scorers[k])
                               /\ Winner.score = Score(Winner.metrics, Scorers[k])
    <3>1. i \in 1..Len(r) /\ Len(r) \in Nat /\ r[i].score > Invalid /\ Len(r) = Len(s)
      BY <2>5, <2>6, <2>8 DEF r
    <3>2. 1 \in 1..Len(r) /\ Winner = r[1]
      BY <2>6, <3>1 DEF Winner, r
    <3>3. r[1].score \in Int /\ r[i].score \in Int
      BY <2>7, <3>1, <3>2 DEF Scored
    <3>4. r[1].score > Invalid
      <4>1. i = 1 \/ 1 < i
        BY <3>1
      <4>2. 1 < i => r[1].score >= r[i].score
        BY <2>5, <3>1, <3>2 DEF r
      <4> QED BY <3>1, <3>3, <4>1, <4>2 DEF Invalid
    <3>5. PICK k \in 1..3 : r[1].score = Score(r[1].metrics, Scorers[k])
      BY <2>7, <3>2
    <3>6. r[1].metrics \in Metrics /\ Scorers[k] \in ScorerConfig
      BY <2>7, <3>2, SearchAssumption
    <3>7. Passes(r[1].metrics, Scorers[k])
      <4>1. SUFFICES ASSUME ~Passes(r[1].metrics, Scorers[k]) PROVE FALSE
        OBVIOUS
      <4>2. Score(r[1].metrics, Scorers[k]) < Invalid
        BY <3>6, <4>1, RefusedScore
      <4> QED BY <3>3, <3>4, <3>5, <4>2 DEF Invalid
    <3> QED BY <3>2, <3>5, <3>7
  <2> QED BY <2>1, <2>2, <2>8 DEF SearchedAroundSeeds
<1> QED BY <1>1, HybridInit, HybridStep, PTL DEF Spec

-----------------------------------------------------------------------------
(* The scans over a curve.  Each is a recursive function of the position it *)
(* has reached; induction on a set of positions takes the place of the     *)
(* library's induction over Nat.                                           *)

\* Induction up to n, on a set.
LEMMA Climb ==
    ASSUME NEW n, n \in Nat, NEW T, 0 \in T, \A i \in 1..n : i - 1 \in T => i \in T
    PROVE  \A i \in 0..n : i \in T
<1> DEFINE B == {i \in 0..n : i \notin T}
<1> SUFFICES ASSUME B # {} PROVE FALSE
  OBVIOUS
<1>1. B \subseteq Nat
  OBVIOUS
<1>2. PICK x \in B : \A y \in B : x <= y
  BY <1>1, LeastNumber
<1>3. x # 0 /\ x \in 1..n /\ x - 1 \in 0..n /\ x - 1 \notin B
  BY <1>2
<1> QED BY <1>2, <1>3

\* A set of numbers up to n has a greatest one.
LEMMA GreatestNumber ==
    ASSUME NEW n, n \in Nat, NEW T, T \subseteq 0..n, T # {}
    PROVE  \E x \in T : \A y \in T : y <= x
<1> DEFINE U == {k \in 0..n : n - k \in T}
<1>1. U \subseteq Nat /\ U # {}
  <2>1. PICK x \in T : TRUE
    OBVIOUS
  <2>2. x \in 0..n
    BY <2>1
  <2>3. n - x \in 0..n /\ n - (n - x) = x
    BY <2>2
  <2>4. n - x \in U
    BY <2>1, <2>3
  <2> HIDE DEF U
  <2>5. U # {}
    BY <2>4
  <2>6. U \subseteq 0..n
    BY DEF U
  <2> QED BY <2>5, <2>6
<1>2. PICK k \in U : \A j \in U : k <= j
  BY <1>1, LeastNumber
<1>3. ASSUME NEW y \in T PROVE y <= n - k
  <2>1. y \in 0..n
    OBVIOUS
  <2>2. n - y \in 0..n /\ n - (n - y) = y
    BY <2>1
  <2>3. n - y \in U
    BY <2>2
  <2>4. k <= n - y /\ k \in 0..n
    BY <1>2, <2>3
  <2> QED BY <2>1, <2>4
<1>4. n - k \in T
  BY <1>2
<1> QED BY <1>3, <1>4

\* A function defined by recursion up to n exists, and its values are where the
\* step keeps them.
Follows(f, start, g, n) == f[0] = start /\ \A i \in 1..n : f[i] = g[<<f[i - 1], i>>]

LEMMA Recursion ==
    ASSUME NEW S, NEW start, start \in S, NEW n, n \in Nat, NEW g, g \in [S \X (1..n) -> S]
    PROVE  \E f \in [0..n -> S] : Follows(f, start, g, n)
<1> DEFINE Solves(f, m) == f[0] = start /\ \A i \in 1..m : f[i] = g[<<f[i - 1], i>>]
           T == {m \in 0..n : \E f \in [0..m -> S] : Solves(f, m)}
<1>1. 0 \in T
  <2> DEFINE f == [i \in 0..0 |-> start]
  <2>1. f \in [0..0 -> S] /\ Solves(f, 0)
    OBVIOUS
  <2>2. 0 \in 0..n
    OBVIOUS
  <2>3. \E h \in [0..0 -> S] : Solves(h, 0)
    BY <2>1
  <2> HIDE DEF Solves
  <2> QED BY <2>2, <2>3
<1>2. ASSUME NEW m \in 1..n, m - 1 \in T PROVE m \in T
  <2>1. PICK f \in [0..m - 1 -> S] : Solves(f, m - 1)
    BY <1>2
  <2> DEFINE h == [i \in 0..m |-> IF i = m THEN g[<<f[m - 1], m>>] ELSE f[i]]
  <2>2. f[m - 1] \in S /\ <<f[m - 1], m>> \in S \X (1..n)
    OBVIOUS
  <2>3. h \in [0..m -> S]
    BY <2>2
  <2>4. h[0] = start
    BY <2>1
  <2>5. ASSUME NEW i \in 1..m PROVE h[i] = g[<<h[i - 1], i>>]
    <3>1. h[i - 1] = f[i - 1]
      OBVIOUS
    <3>2. CASE i = m
      <4>1. m \in 0..m /\ h[m] = g[<<f[m - 1], m>>]
        OBVIOUS
      <4> HIDE DEF h
      <4> QED BY <3>1, <3>2, <4>1
    <3>3. CASE i # m
      <4>1. i \in 1..m - 1 /\ h[i] = f[i]
        BY <3>3
      <4> QED BY <2>1, <3>1, <4>1
    <3> QED BY <3>2, <3>3
  <2>6. Solves(h, m)
    BY <2>4, <2>5
  <2> HIDE DEF h, Solves
  <2> QED BY <2>3, <2>6
<1> HIDE DEF T, Solves
<1>3. n \in T
  BY <1>1, <1>2, Climb
<1>4. PICK f \in [0..n -> S] : Solves(f, n)
  BY <1>3 DEF T
<1> QED BY <1>4 DEF Solves, Follows

-----------------------------------------------------------------------------
(* Sums.                                                                   *)

\* The sums exist, start at 0 and add each trade of K.
LEMMA SumsFacts ==
    ASSUME NEW t \in Seq(Int), NEW K
    PROVE  /\ Sums(t, K) \in [0..Len(t) -> Int]
           /\ Sums(t, K)[0] = 0
           /\ \A i \in 1..Len(t) :
                  Sums(t, K)[i] = Sums(t, K)[i - 1] + (IF i \in K THEN t[i] ELSE 0)
<1> DEFINE n == Len(t)
           Plus(s, i) == s + (IF i \in K THEN t[i] ELSE 0)
           g == [p \in Int \X (1..n) |-> Plus(p[1], p[2])]
           Solves(f) == f = [i \in 0..n |-> IF i = 0 THEN 0 ELSE Plus(f[i - 1], i)]
<1>1. n \in Nat /\ \A i \in 1..n : t[i] \in Int
  OBVIOUS
<1>2. ASSUME NEW s \in Int, NEW i \in 1..n PROVE Plus(s, i) \in Int /\ g[<<s, i>>] = Plus(s, i)
  BY <1>1
<1>3. g \in [Int \X (1..n) -> Int]
  BY <1>2
<1> HIDE DEF Plus, g, n
<1>4. PICK f \in [0..n -> Int] : Follows(f, 0, g, n)
  <2>1. 0 \in Int
    OBVIOUS
  <2> QED BY <1>1, <1>3, <2>1, Recursion
<1>5. Solves(f)
  <2>1. ASSUME NEW i \in 0..n PROVE f[i] = IF i = 0 THEN 0 ELSE Plus(f[i - 1], i)
    <3>1. CASE i = 0
      BY <1>4, <3>1 DEF Follows
    <3>2. CASE i # 0
      <4>1. i \in 1..n /\ i - 1 \in 0..n
        BY <1>1, <3>2
      <4>2. f[i] = g[<<f[i - 1], i>>] /\ f[i - 1] \in Int
        BY <1>4, <4>1 DEF Follows
      <4> QED BY <1>2, <3>2, <4>1, <4>2
    <3> QED BY <3>1, <3>2
  <2> QED BY <2>1
<1>6. Solves(Sums(t, K))
  BY <1>5 DEF Sums, n, Plus
<1> DEFINE F == Sums(t, K)
<1> HIDE DEF F
<1>7. /\ F = [i \in 0..n |-> F[i]] /\ F[0] = 0
      /\ \A i \in 1..n : F[i] = Plus(F[i - 1], i)
  <2>1. F = [i \in 0..n |-> IF i = 0 THEN 0 ELSE Plus(F[i - 1], i)]
    BY <1>6 DEF F
  <2>2. F = [i \in 0..n |-> F[i]]
    BY <2>1
  <2>3. F[0] = 0
    <3>1. 0 \in 0..n
      BY <1>1
    <3> QED BY <2>1, <3>1
  <2>4. ASSUME NEW i \in 1..n PROVE F[i] = Plus(F[i - 1], i)
    <3>1. i \in 0..n /\ i # 0
      BY <1>1
    <3> QED BY <2>1, <3>1
  <2> QED BY <2>2, <2>3, <2>4
<1>8. \A i \in 0..n : F[i] \in Int
  <2> DEFINE T == {i \in 0..n : F[i] \in Int}
  <2>1. 0 \in T
    BY <1>1, <1>7
  <2>2. ASSUME NEW i \in 1..n, i - 1 \in T PROVE i \in T
    <3>1. i \in 0..n /\ F[i - 1] \in Int
      BY <1>1, <2>2
    <3>2. Plus(F[i - 1], i) \in Int
      BY <1>2, <3>1
    <3> QED BY <1>7, <3>1, <3>2
  <2> HIDE DEF T
  <2>3. \A i \in 0..n : i \in T
    BY <1>1, <2>1, <2>2, Climb
  <2> QED BY <2>3 DEF T
<1>9. F \in [0..n -> Int]
  BY <1>7, <1>8
<1> QED BY <1>7, <1>9 DEF F, n, Plus

\* A function on 0..n that grows as the sums of t over K is those sums.
LEMMA SumsAre ==
    ASSUME NEW t \in Seq(Int), NEW K, NEW F, F[0] = 0,
           \A i \in 1..Len(t) : F[i] = F[i - 1] + (IF i \in K THEN t[i] ELSE 0)
    PROVE  \A i \in 0..Len(t) : F[i] = Sums(t, K)[i]
<1> DEFINE n == Len(t)
           G == Sums(t, K)
           T == {i \in 0..n : F[i] = G[i]}
<1>1. n \in Nat /\ G \in [0..n -> Int] /\ G[0] = 0
      /\ \A i \in 1..n : G[i] = G[i - 1] + (IF i \in K THEN t[i] ELSE 0)
  BY SumsFacts
<1>2. 0 \in T
  BY <1>1
<1>3. ASSUME NEW i \in 1..n, i - 1 \in T PROVE i \in T
  BY <1>1, <1>3
<1> HIDE DEF T, n
<1>4. \A i \in 0..n : i \in T
  BY <1>1, <1>2, <1>3, Climb
<1> QED BY <1>4 DEF T, n

\* The winners' and the losers' sums make up the sum of all trades.
LEMMA SumsAdd ==
    ASSUME NEW t \in Seq(Int)
    PROVE  Sum(t, Winners(t)) + Sum(t, Losers(t)) = Sum(t, DOMAIN t)
<1> DEFINE n == Len(t)
           W == Sums(t, Winners(t))
           L == Sums(t, Losers(t))
           F == [i \in 0..n |-> W[i] + L[i]]
<1>1. /\ n \in Nat /\ \A i \in 1..n : t[i] \in Int
      /\ W \in [0..n -> Int] /\ W[0] = 0
      /\ \A i \in 1..n : W[i] = W[i - 1] + (IF i \in Winners(t) THEN t[i] ELSE 0)
      /\ L \in [0..n -> Int] /\ L[0] = 0
      /\ \A i \in 1..n : L[i] = L[i - 1] + (IF i \in Losers(t) THEN t[i] ELSE 0)
  BY SumsFacts
<1> HIDE DEF W, L
<1>2. F[0] = 0
  BY <1>1
<1>3. ASSUME NEW i \in 1..n PROVE F[i] = F[i - 1] + (IF i \in DOMAIN t THEN t[i] ELSE 0)
  <2>1. i \in DOMAIN t /\ i - 1 \in 0..n /\ i \in 0..n /\ t[i] \in Int
    BY <1>1
  <2>2. (IF i \in Winners(t) THEN t[i] ELSE 0) + (IF i \in Losers(t) THEN t[i] ELSE 0) = t[i]
    BY <2>1 DEF Winners, Losers
  <2>3. F[i] = W[i] + L[i] /\ F[i - 1] = W[i - 1] + L[i - 1]
    BY <2>1
  <2>4. /\ W[i - 1] \in Int /\ L[i - 1] \in Int
        /\ W[i] = W[i - 1] + (IF i \in Winners(t) THEN t[i] ELSE 0)
        /\ L[i] = L[i - 1] + (IF i \in Losers(t) THEN t[i] ELSE 0)
    BY <1>1, <2>1
  <2> HIDE DEF F
  <2> QED BY <2>1, <2>2, <2>3, <2>4
<1> HIDE DEF F
<1>4. \A i \in 0..n : F[i] = Sums(t, DOMAIN t)[i]
  BY <1>2, <1>3, SumsAre
<1>5. F[n] = W[n] + L[n] /\ n \in 0..n
  BY <1>1 DEF F
<1> QED BY <1>4, <1>5 DEF Sum, W, L

\* A further position adds its trade.
LEMMA SumsWith ==
    ASSUME NEW t \in Seq(Int), NEW K, NEW j \in 1..Len(t), j \notin K
    PROVE  Sum(t, K \cup {j}) = Sum(t, K) + t[j]
<1> DEFINE n == Len(t)
           G == Sums(t, K)
           F == [i \in 0..n |-> G[i] + (IF j <= i THEN t[j] ELSE 0)]
           M == K \cup {j}
<1>1. /\ n \in Nat /\ j \in 1..n /\ \A i \in 1..n : t[i] \in Int
      /\ G \in [0..n -> Int] /\ G[0] = 0
      /\ \A i \in 1..n : G[i] = G[i - 1] + (IF i \in K THEN t[i] ELSE 0)
  BY SumsFacts
<1> HIDE DEF G, n
<1>2. F[0] = 0
  BY <1>1
<1>3. ASSUME NEW i \in 1..n PROVE F[i] = F[i - 1] + (IF i \in M THEN t[i] ELSE 0)
  <2>1. /\ i \in 0..n /\ i - 1 \in 0..n /\ t[i] \in Int /\ t[j] \in Int /\ G[i - 1] \in Int
        /\ G[i] = G[i - 1] + (IF i \in K THEN t[i] ELSE 0)
    BY <1>1
  <2>2. /\ F[i] = G[i] + (IF j <= i THEN t[j] ELSE 0)
        /\ F[i - 1] = G[i - 1] + (IF j <= i - 1 THEN t[j] ELSE 0)
    BY <2>1
  <2>3. CASE i = j
    <3>1. i \notin K /\ i \in M
      BY <2>3
    <3> HIDE DEF F, M
    <3> QED BY <1>1, <2>1, <2>2, <2>3, <3>1
  <2>4. CASE i # j
    <3>1. i \in M <=> i \in K
      BY <2>4
    <3> HIDE DEF F, M
    <3>2. j <= i <=> j <= i - 1
      BY <1>1, <2>4
    <3> DEFINE D == IF j <= i THEN t[j] ELSE 0
               E == IF i \in K THEN t[i] ELSE 0
    <3>3. (IF i \in M THEN t[i] ELSE 0) = E
      BY <3>1
    <3>4. F[i] = G[i] + D /\ F[i - 1] = G[i - 1] + D /\ G[i] = G[i - 1] + E
      BY <2>1, <2>2, <3>2
    <3>5. D \in Int /\ E \in Int /\ G[i - 1] \in Int
      BY <2>1
    <3> HIDE DEF D, E
    <3> QED BY <3>3, <3>4, <3>5
  <2> QED BY <2>3, <2>4
<1>4. F[n] = G[n] + t[j]
  BY <1>1
<1> HIDE DEF F, M
<1>5. \A i \in 0..n : F[i] = Sums(t, M)[i]
  BY <1>2, <1>3, SumsAre DEF n
<1>6. F[n] = Sums(t, M)[n]
  BY <1>1, <1>5
<1> QED BY <1>4, <1>6 DEF Sum, M, G, n

\* Nothing sums up to 0.
LEMMA SumOfNone == ASSUME NEW t \in Seq(Int) PROVE Sum(t, {}) = 0
<1> DEFINE n == Len(t)
           F == [i \in 0..n |-> 0]
           E == {}
<1>1. n \in Nat
  OBVIOUS
<1>2. F[0] = 0 /\ \A i \in 1..n : F[i] = F[i - 1] + (IF i \in E THEN t[i] ELSE 0)
  BY <1>1
<1>3. F[n] = 0
  BY <1>1
<1> HIDE DEF F, E
<1>4. \A i \in 0..n : F[i] = Sums(t, E)[i]
  BY <1>2, SumsAre DEF n
<1> QED BY <1>1, <1>3, <1>4 DEF Sum, E, n

\* An order of n positions reaches each of them.
LEMMA ShuffleReaches ==
    ASSUME NEW n, n \in Nat, NEW f \in [1..n -> 1..n],
           \A i, j \in 1..n : f[i] = f[j] => i = j
    PROVE  \A k \in 1..n : \E i \in 1..n : f[i] = k
<1>1. IsFiniteSet(1..n)
  BY FS_Interval
<1>2. f \in Injection(1..n, 1..n)
  BY DEF Injection, IsInjective
<1>3. f \in Surjection(1..n, 1..n)
  BY <1>1, <1>2, FS_Injection
<1> QED BY <1>3 DEF Surjection

\* Trades sum up to the same in any order.
LEMMA ShuffleKeepsSum ==
    ASSUME NEW t \in Seq(Int), NEW f \in [1..Len(t) -> 1..Len(t)],
           \A i, j \in 1..Len(t) : f[i] = f[j] => i = j
    PROVE  LET s == [i \in DOMAIN t |-> t[f[i]]]
           IN  s \in Seq(Int) /\ Len(s) = Len(t) /\ Sum(s, DOMAIN s) = Sum(t, DOMAIN t)
<1> DEFINE n == Len(t)
           s == [i \in DOMAIN t |-> t[f[i]]]
           Taken(m) == {f[i] : i \in 1..m}
           G == Sums(s, DOMAIN s)
           T == {m \in 0..n : G[m] = Sum(t, Taken(m))}
<1>1. n \in Nat /\ DOMAIN t = 1..n /\ \A i \in 1..n : t[i] \in Int
  OBVIOUS
<1>2. s \in Seq(Int) /\ Len(s) = n /\ DOMAIN s = 1..n
  <2>1. s \in [1..n -> Int]
    BY <1>1
  <2> QED BY <1>1, <2>1
<1>3. /\ G \in [0..n -> Int] /\ G[0] = 0
      /\ \A i \in 1..n : G[i] = G[i - 1] + t[f[i]]
  <2>1. \A i \in 1..n : s[i] = t[f[i]]
    BY <1>1
  <2> HIDE DEF s
  <2>2. /\ G \in [0..n -> Int] /\ G[0] = 0
        /\ \A i \in 1..n : G[i] = G[i - 1] + (IF i \in DOMAIN s THEN s[i] ELSE 0)
    BY <1>2, SumsFacts
  <2> HIDE DEF G
  <2> QED BY <1>2, <2>1, <2>2
<1> HIDE DEF G, s
<1>4. 0 \in T
  <2>1. Taken(0) = {}
    OBVIOUS
  <2> QED BY <1>1, <1>3, <2>1, SumOfNone
<1>5. ASSUME NEW m \in 1..n, m - 1 \in T PROVE m \in T
  <2>1. m \in 0..n /\ f[m] \in 1..n
    BY <1>1
  <2>2. Taken(m) = Taken(m - 1) \cup {f[m]}
    <3>1. m \in 1..m /\ \A k \in 1..m : k \in 1..m - 1 \/ k = m
      BY <1>1
    <3>2. \A k \in 1..m - 1 : k \in 1..m
      BY <1>1
    <3> QED BY <3>1, <3>2
  <2>3. f[m] \notin Taken(m - 1)
    <3> SUFFICES ASSUME f[m] \in Taken(m - 1) PROVE FALSE
      OBVIOUS
    <3>1. PICK k \in 1..m - 1 : f[m] = f[k]
      OBVIOUS
    <3>2. k \in 1..n /\ m \in 1..n /\ k # m
      BY <1>1
    <3> QED BY <3>1, <3>2
  <2>4. G[m - 1] = Sum(t, Taken(m - 1))
    BY <1>5
  <2> HIDE DEF Taken
  <2>5. Sum(t, Taken(m - 1) \cup {f[m]}) = Sum(t, Taken(m - 1)) + t[f[m]]
    BY <2>1, <2>3, SumsWith DEF n
  <2>6. G[m] = G[m - 1] + t[f[m]]
    BY <1>3
  <2> QED BY <2>1, <2>2, <2>4, <2>5, <2>6
<1>6. Taken(n) = 1..n
  <2>1. \A k \in 1..n : \E i \in 1..n : f[i] = k
    BY <1>1, ShuffleReaches
  <2> QED BY <2>1
<1> HIDE DEF T
<1>7. n \in T
  BY <1>1, <1>4, <1>5, Climb
<1>8. G[n] = Sum(t, 1..n)
  BY <1>6, <1>7 DEF T
<1> QED BY <1>1, <1>2, <1>8 DEF Sum, G, s

-----------------------------------------------------------------------------
(* The state: a curve, its peak and the P&L between its records.           *)

CurveInv ==
    /\ curve \in Seq(Equities) /\ pnls \in Seq(Int)
    /\ Len(pnls) = IF curve = <<>> THEN 0 ELSE Len(curve) - 1
    /\ \A i \in 1..Len(pnls) : pnls[i] = curve[i + 1] - curve[i]
    /\ curve = <<>> => peak = 0
    /\ curve # <<>> => curve[1] > 0
    /\ curve # <<>> => /\ \E k \in 1..Len(curve) : peak = curve[k]
                       /\ \A k \in 1..Len(curve) : curve[k] <= peak

\* It holds before the first record, and every record keeps it.
LEMMA CurveStart == InitCurve => CurveInv
BY DEF InitCurve, CurveInv

LEMMA RecordKeeps == ASSUME CurveInv, NEW q \in Equities, Record(q) PROVE CurveInv'
<1> DEFINE n == Len(curve)
<1>1. /\ n \in Nat /\ q \in Int
      /\ (curve = <<>> => q > 0)
      /\ \A k \in 1..n : curve[k] \in Equities /\ curve[k] \in Int
  <2>1. curve \in Seq(Equities)
    BY DEF CurveInv
  <2>2. n \in Nat /\ \A k \in 1..n : curve[k] \in Equities
    BY <2>1
  <2>3. \A x \in Equities : x \in Int
    BY EquitiesAssumption
  <2>4. curve = <<>> => q > 0
    BY DEF Record
  <2> QED BY <2>2, <2>3, <2>4
<1>2. /\ curve' \in Seq(Equities) /\ Len(curve') = n + 1 /\ curve'[n + 1] = q
      /\ \A k \in 1..n : curve'[k] = curve[k]
  BY DEF Record, CurveInv
<1>3. peak' = IF q > peak THEN q ELSE peak
  BY DEF Record
<1>4. CASE curve = <<>>
  <2>1. n = 0 /\ peak = 0 /\ pnls' = pnls /\ Len(pnls) = 0
    <3>1. n = 0
      BY <1>4
    <3>2. peak = 0 /\ Len(pnls) = 0
      BY <1>4 DEF CurveInv
    <3>3. pnls' = pnls
      BY <1>4 DEF Record
    <3> QED BY <3>1, <3>2, <3>3
  <2>2. curve' # <<>> /\ curve'[1] = q
    <3>1. n + 1 = 1
      BY <2>1
    <3>2. Len(curve') = 1 /\ curve'[1] = q
      BY <1>2, <3>1
    <3>3. Len(<<>>) = 0
      OBVIOUS
    <3> QED BY <3>2, <3>3
  <2>3. q > 0 /\ peak' = q
    BY <1>1, <1>3, <1>4, <2>1
  <2> QED BY <1>1, <1>2, <2>1, <2>2, <2>3 DEF CurveInv
<1>5. CASE curve # <<>>
  <2>1. n > 0 /\ Len(pnls) = n - 1 /\ pnls \in Seq(Int)
    BY <1>1, <1>5 DEF CurveInv
  <2>2. pnls' = Append(pnls, q - curve[n])
    BY <1>5 DEF Record
  <2>3. curve[n] \in Int /\ q - curve[n] \in Int
    BY <1>1, <2>1
  <2>4. /\ pnls' \in Seq(Int) /\ Len(pnls') = n /\ pnls'[n] = q - curve[n]
        /\ \A i \in 1..n - 1 : pnls'[i] = pnls[i]
    BY <1>1, <2>1, <2>2, <2>3
  <2>5. ASSUME NEW i \in 1..n PROVE pnls'[i] = curve'[i + 1] - curve'[i]
    <3>1. CASE i = n
      BY <1>1, <1>2, <2>1, <2>4, <3>1
    <3>2. CASE i # n
      <4>1. i \in 1..n - 1 /\ i \in 1..n /\ i + 1 \in 1..n
        BY <1>1, <3>2
      <4>2. pnls[i] = curve[i + 1] - curve[i]
        BY <2>1, <4>1 DEF CurveInv
      <4> QED BY <1>2, <2>4, <4>1, <4>2
    <3> QED BY <3>1, <3>2
  <2>6. PICK k \in 1..n : peak = curve[k]
    BY <1>5 DEF CurveInv
  <2>7. \A j \in 1..n : curve[j] <= peak
    BY <1>5 DEF CurveInv
  <2>8. peak \in Int
    BY <1>1, <2>6
  <2>9. \E j \in 1..n + 1 : peak' = curve'[j]
    <3>1. CASE q > peak
      BY <1>1, <1>2, <1>3, <3>1
    <3>2. CASE ~(q > peak)
      BY <1>1, <1>2, <1>3, <2>6, <3>2
    <3> QED BY <3>1, <3>2
  <2>10. \A j \in 1..n + 1 : curve'[j] <= peak'
    <3> SUFFICES ASSUME NEW j \in 1..n + 1 PROVE curve'[j] <= peak'
      OBVIOUS
    <3>1. CASE j = n + 1
      BY <1>1, <1>2, <1>3, <2>8, <3>1
    <3>2. CASE j # n + 1
      <4>1. j \in 1..n
        BY <1>1, <3>2
      <4>2. curve'[j] = curve[j] /\ curve[j] \in Int /\ curve[j] <= peak
        BY <1>1, <1>2, <2>7, <4>1
      <4> QED BY <1>1, <1>3, <2>8, <4>2
    <3> QED BY <3>1, <3>2
  <2>11. curve' # <<>>
    BY <1>1, <1>2
  <2>12. Len(curve') - 1 = n
    BY <1>1, <1>2
  <2>13. curve'[1] > 0
    <3>1. 1 \in 1..n /\ curve[1] > 0
      BY <1>1, <1>5, <2>1 DEF CurveInv
    <3> QED BY <1>2, <3>1
  <2> QED BY <1>1, <2>12, <1>2, <2>4, <2>5, <2>9, <2>10, <2>11, <2>13 DEF CurveInv
<1> QED BY <1>4, <1>5

\* What the trades' sums are, and what is rebuilt from them.
LEMMA SumsAreTheCurve ==
    ASSUME CurveInv, curve # <<>>
    PROVE  /\ pnls \in Seq(Int) /\ Len(curve) = Len(pnls) + 1
           /\ \A i \in 1..Len(curve) : curve[i] \in Int
           /\ \A i \in 0..Len(pnls) : Sums(pnls, DOMAIN pnls)[i] = curve[i + 1] - curve[1]
<1> DEFINE n == Len(pnls)
           F == [i \in 0..n |-> curve[i + 1] - curve[1]]
<1>1. n \in Nat /\ Len(curve) = n + 1 /\ pnls \in Seq(Int) /\ DOMAIN pnls = 1..n
  BY DEF CurveInv
<1>2. \A i \in 1..Len(curve) : curve[i] \in Int
  <2>1. curve \in Seq(Equities)
    BY DEF CurveInv
  <2>2. \A k \in 1..Len(curve) : curve[k] \in Equities
    BY <2>1
  <2>3. \A x \in Equities : x \in Int
    BY EquitiesAssumption
  <2> QED BY <2>2, <2>3
<1>3. F[0] = 0
  BY <1>1, <1>2
<1>4. ASSUME NEW i \in 1..n PROVE F[i] = F[i - 1] + (IF i \in DOMAIN pnls THEN pnls[i] ELSE 0)
  <2>1. i \in 0..n /\ i - 1 \in 0..n /\ i + 1 \in 1..n + 1 /\ i \in 1..n + 1 /\ 1 \in 1..n + 1
    BY <1>1
  <2>2. pnls[i] = curve[i + 1] - curve[i]
    BY DEF CurveInv
  <2>3. curve[i] \in Int /\ curve[i + 1] \in Int /\ curve[1] \in Int
    BY <1>1, <1>2, <2>1
  <2>4. F[i] = curve[i + 1] - curve[1] /\ F[i - 1] = curve[i] - curve[1]
    BY <2>1
  <2> QED BY <1>1, <2>2, <2>3, <2>4
<1> HIDE DEF F
<1>5. \A i \in 0..n : F[i] = Sums(pnls, DOMAIN pnls)[i]
  BY <1>1, <1>3, <1>4, SumsAre
<1> QED BY <1>1, <1>2, <1>5 DEF F

\* Greatest is the member that none exceeds.
LEMMA GreatestIs ==
    ASSUME NEW T, T \subseteq Int, NEW x \in T, \A y \in T : y <= x
    PROVE  Greatest(T) = x
<1>1. T # {}
  OBVIOUS
<1>2. \E z \in T : \A y \in T : y <= z
  OBVIOUS
<1>3. Greatest(T) \in T /\ \A y \in T : y <= Greatest(T)
  BY <1>1, <1>2 DEF Greatest
<1>4. x <= Greatest(T) /\ Greatest(T) <= x
  BY <1>3
<1>5. x \in Int /\ Greatest(T) \in Int
  BY <1>3
<1> QED BY <1>4, <1>5

\* The peak is the greatest entry so far.
LEMMA PeakOf ==
    ASSUME NEW e \in Seq(Int), NEW i \in 1..Len(e), e[1] > 0
    PROVE  /\ Peak(e, i) \in Nat \ {0}
           /\ \E k \in 1..i : e[k] = Peak(e, i)
           /\ \A k \in 1..i : e[k] <= Peak(e, i)
<1> DEFINE n == Len(e)
           T == {m \in 0..i : m = 0 \/ \E k \in 1..m : \A j \in 1..m : e[j] <= e[k]}
<1>1. n \in Nat /\ i \in 1..n /\ \A k \in 1..n : e[k] \in Int
  OBVIOUS
<1>2. 0 \in T
  BY <1>1
<1>3. ASSUME NEW m \in 1..i, m - 1 \in T PROVE m \in T
  <2>1. m \in 0..i /\ m \in 1..n
    BY <1>1
  <2>2. CASE m = 1
    <3>1. 1 \in 1..m /\ \A j \in 1..m : e[j] <= e[1]
      BY <1>1, <2>1, <2>2
    <3> QED BY <2>1, <3>1
  <2>3. CASE m # 1
    <3>1. PICK k \in 1..m - 1 : \A j \in 1..m - 1 : e[j] <= e[k]
      BY <1>3, <2>1, <2>3
    <3>2. k \in 1..m /\ k \in 1..n /\ m \in 1..m
      BY <1>1, <2>1
    <3>3. CASE e[m] <= e[k]
      <4>1. \A j \in 1..m : j \in 1..m - 1 \/ j = m
        BY <2>1
      <4>2. \A j \in 1..m : e[j] <= e[k]
        BY <3>1, <3>3, <4>1
      <4> QED BY <2>1, <3>2, <4>2
    <3>4. CASE ~(e[m] <= e[k])
      <4>1. ASSUME NEW j \in 1..m PROVE e[j] <= e[m]
        <5>1. CASE j = m
          BY <1>1, <2>1, <5>1
        <5>2. CASE j # m
          <6>1. j \in 1..m - 1 /\ j \in 1..n
            BY <1>1, <2>1, <5>2
          <6>2. e[j] <= e[k]
            BY <3>1, <6>1
          <6>3. e[j] \in Int /\ e[k] \in Int /\ e[m] \in Int
            BY <1>1, <2>1, <3>2, <6>1
          <6> QED BY <3>4, <6>2, <6>3
        <5> QED BY <5>1, <5>2
      <4> QED BY <2>1, <3>2, <4>1
    <3> QED BY <3>3, <3>4
  <2> QED BY <2>2, <2>3
<1> HIDE DEF T
<1>4. i \in T
  <2>1. i \in Nat /\ i \in 0..i
    BY <1>1
  <2>2. \A m \in 0..i : m \in T
    BY <1>2, <1>3, <2>1, Climb
  <2> QED BY <2>1, <2>2
<1>5. PICK k \in 1..i : \A j \in 1..i : e[j] <= e[k]
  BY <1>1, <1>4 DEF T
<1> DEFINE S == {e[j] : j \in 1..i}
<1>6. S \subseteq Int /\ e[k] \in S /\ \A y \in S : y <= e[k]
  BY <1>1, <1>5
<1>7. Peak(e, i) = Greatest(S)
  BY DEF Peak
<1> HIDE DEF S
<1>8. Greatest(S) = e[k]
  BY <1>6, GreatestIs
<1>9. 1 \in 1..i /\ k \in 1..n
  BY <1>1
<1>10. e[1] <= e[k] /\ e[1] \in Int /\ e[k] \in Int
  BY <1>1, <1>5, <1>9
<1> QED BY <1>1, <1>5, <1>7, <1>8, <1>10

LEMMA TimesInt == ASSUME NEW x \in Int, NEW y \in Int PROVE x * y \in Int /\ x * y = y * x
BY Z3

\* What is rebuilt from trades begins at the capital and ends at what they add up to.
LEMMA RebuiltFacts ==
    ASSUME NEW c \in Int, NEW t \in Seq(Int)
    PROVE  /\ Rebuilt(c, t) \in Seq(Int) /\ Len(Rebuilt(c, t)) = Len(t) + 1
           /\ Rebuilt(c, t)[1] = c
<1> DEFINE n == Len(t)
           G == Sums(t, DOMAIN t)
           e == Rebuilt(c, t)
<1>1. n \in Nat
  OBVIOUS
<1>2. G \in [0..n -> Int] /\ G[0] = 0
  BY SumsFacts
<1>3. e = [i \in 1..n + 1 |-> c + G[i - 1]]
  BY DEF Rebuilt
<1> HIDE DEF G, e, n
<1>4. \A i \in 1..n + 1 : i - 1 \in 0..n /\ c + G[i - 1] \in Int
  BY <1>1, <1>2
<1>5. e = [i \in 1..n + 1 |-> e[i]] /\ \A i \in 1..n + 1 : e[i] \in Int
  BY <1>3, <1>4
<1>6. n + 1 \in Nat /\ 1 \in 1..n + 1
  BY <1>1
<1>7. e \in Seq(Int) /\ Len(e) = n + 1
  BY <1>5, <1>6, ListedIsSeq
<1>8. e[1] = c
  <2>1. e[1] = c + G[1 - 1]
    BY <1>3, <1>6
  <2> QED BY <1>2, <2>1
<1> QED BY <1>7, <1>8 DEF e, n

\* A loss beyond the threshold is one from any higher peak too.
LEMMA StillRuinous ==
    ASSUME NEW T \in Int, NEW c \in Int, NEW P \in Int, NEW f \in Int,
           T <= 100, c <= P, 100 * (c - f) > T * c
    PROVE  100 * (P - f) > T * P
<1>1. T * c \in Int /\ T * P \in Int
  BY TimesInt
<1>2. (100 - T) * (P - c) >= 0
  BY Z3
<1>3. (100 - T) * (P - c) = 100 * P - T * P - 100 * c + T * c
  BY Z3
<1> QED BY <1>1, <1>2, <1>3

\* So the trades make the curve.
LEMMA CurveIsTheTrades == CurveInv => TradesMakeTheCurve
<1> SUFFICES ASSUME CurveInv, curve # <<>> PROVE TradesMakeTheCurve
  BY DEF TradesMakeTheCurve
<1> DEFINE n == Len(pnls)
           all == DOMAIN pnls
           final == curve[Len(curve)]
           W == Winners(pnls)
           L == Losers(pnls)
<1>1. /\ pnls \in Seq(Int) /\ n \in Nat /\ Len(curve) = n + 1 /\ all = 1..n
      /\ \A i \in 1..n + 1 : curve[i] \in Int
      /\ \A i \in 0..n : Sums(pnls, all)[i] = curve[i + 1] - curve[1]
      /\ \A i \in 1..n : pnls[i] = curve[i + 1] - curve[i] /\ pnls[i] \in Int
  BY SumsAreTheCurve DEF CurveInv
<1>2. Sum(pnls, all) = final - curve[1]
  BY <1>1 DEF Sum
<1>3. TradeMetrics(pnls).netProfit - TradeMetrics(pnls).netLoss = final - curve[1]
  <2>1. Sum(pnls, W) + Sum(pnls, L) = Sum(pnls, all)
    BY <1>1, SumsAdd
  <2>2. Sum(pnls, W) \in Int /\ Sum(pnls, L) \in Int
    BY <1>1, SumsFacts DEF Sum
  <2>3. TradeMetrics(pnls).netProfit = Sum(pnls, W) /\ TradeMetrics(pnls).netLoss = -Sum(pnls, L)
    BY DEF TradeMetrics
  <2> QED BY <1>2, <2>1, <2>2, <2>3
<1>4. TradeMetrics(pnls).wins + TradeMetrics(pnls).losses
          = Cardinality({i \in DOMAIN pnls : curve[i] # curve[i + 1]})
  <2>1. IsFiniteSet(1..n)
    BY <1>1, FS_Interval
  <2>2. W \subseteq 1..n /\ L \subseteq 1..n /\ W \cap L = {}
    BY <1>1 DEF Winners, Losers
  <2>3. W \cup L = {i \in DOMAIN pnls : curve[i] # curve[i + 1]}
    <3>1. ASSUME NEW i \in 1..n PROVE pnls[i] # 0 <=> curve[i] # curve[i + 1]
      <4>1. n \in Nat
        BY <1>1
      <4>2. i \in 1..n + 1 /\ i + 1 \in 1..n + 1
        BY <4>1
      <4>3. curve[i] \in Int /\ curve[i + 1] \in Int /\ pnls[i] = curve[i + 1] - curve[i]
        BY <1>1, <4>2
      <4> QED BY <4>3
    <3>2. W \cup L = {i \in 1..n : pnls[i] # 0}
      BY <1>1 DEF Winners, Losers
    <3> QED BY <1>1, <3>1, <3>2
  <2>4. IsFiniteSet(W) /\ IsFiniteSet(L)
    BY <2>1, <2>2, FS_Subset
  <2>5. Cardinality(W \cup L) = Cardinality(W) + Cardinality(L) - Cardinality(W \cap L)
    BY <2>4, FS_Union
  <2>6. Cardinality(W) \in Nat /\ Cardinality(L) \in Nat /\ Cardinality(W \cap L) = 0
    BY <2>2, <2>4, FS_CardinalityType, FS_EmptySet
  <2>7. TradeMetrics(pnls).wins = Cardinality(W) /\ TradeMetrics(pnls).losses = Cardinality(L)
    BY DEF TradeMetrics
  <2> DEFINE C == {i \in DOMAIN pnls : curve[i] # curve[i + 1]}
  <2>8. W \cup L = C
    BY <2>3
  <2> HIDE DEF W, L, C
  <2>9. Cardinality(C) = Cardinality(W) + Cardinality(L)
    <3>1. Cardinality(W \cup L) = Cardinality(W) + Cardinality(L)
      BY <2>5, <2>6
    <3> QED BY <2>8, <3>1, Zenon
  <2>10. TradeMetrics(pnls).wins + TradeMetrics(pnls).losses = Cardinality(C)
    BY <2>7, <2>9
  <2> QED BY <2>10 DEF C
<1>5. Rebuilt(curve[1], pnls) = curve
  <2>1. curve = [i \in 1..n + 1 |-> curve[i]]
    BY <1>1 DEF CurveInv
  <2>2. ASSUME NEW i \in 1..n + 1 PROVE curve[1] + Sums(pnls, all)[i - 1] = curve[i]
    <3>1. i - 1 \in 0..n /\ 1 \in 1..n + 1 /\ (i - 1) + 1 = i
      BY <1>1
    <3>2. Sums(pnls, all)[i - 1] = curve[i] - curve[1] /\ curve[i] \in Int /\ curve[1] \in Int
      BY <1>1, <3>1
    <3> QED BY <3>2
  <2>3. Rebuilt(curve[1], pnls) = [i \in 1..n + 1 |-> curve[1] + Sums(pnls, all)[i - 1]]
    BY DEF Rebuilt
  <2> QED BY <2>1, <2>2, <2>3
<1>6. ASSUME NEW s \in Shuffled(pnls)
      PROVE  Rebuilt(curve[1], s)[Len(curve)] = final /\ s \in Seq(Int) /\ Len(s) = n
  <2>1. PICK f \in [all -> all] : /\ \A i, j \in all : f[i] = f[j] => i = j
                                  /\ s = [i \in all |-> pnls[f[i]]]
    BY DEF Shuffled
  <2>2. s \in Seq(Int) /\ Len(s) = n /\ Sum(s, DOMAIN s) = Sum(pnls, all)
    <3>1. f \in [1..Len(pnls) -> 1..Len(pnls)] /\ \A i, j \in 1..Len(pnls) : f[i] = f[j] => i = j
      BY <1>1, <2>1
    <3> DEFINE z == [i \in DOMAIN pnls |-> pnls[f[i]]]
    <3>2. z \in Seq(Int) /\ Len(z) = Len(pnls) /\ Sum(z, DOMAIN z) = Sum(pnls, DOMAIN pnls)
      BY <1>1, <3>1, ShuffleKeepsSum
    <3>3. s = z
      BY <2>1
    <3> HIDE DEF z
    <3> QED BY <3>2, <3>3
  <2>3. Rebuilt(curve[1], s)[n + 1] = curve[1] + Sums(s, DOMAIN s)[n]
    BY <1>1, <2>2 DEF Rebuilt
  <2>4. final \in Int /\ curve[1] \in Int
    BY <1>1
  <2>5. Rebuilt(curve[1], s)[n + 1] = final
    BY <1>1, <1>2, <2>2, <2>3, <2>4 DEF Sum
  <2> QED BY <1>1, <2>2, <2>5
<1>7. ASSUME NEW s \in Shuffled(pnls), Threshold <= 100, Ruinous(Fall(1, Len(curve)))
      PROVE  IsRuined(Rebuilt(curve[1], s))
  <2> DEFINE e == Rebuilt(curve[1], s)
             c == curve[1]
             P == Peak(e, n + 1)
  <2>1. c \in Int /\ c > 0 /\ final \in Int
    BY <1>1 DEF CurveInv
  <2>2. e \in Seq(Int) /\ Len(e) = n + 1 /\ e[1] = c /\ e[n + 1] = final
    BY <1>1, <1>6, <2>1, RebuiltFacts
  <2> HIDE DEF e, c
  <2>3. P \in Int /\ P >= c
    <3>1. n + 1 \in 1..Len(e) /\ 1 \in 1..n + 1
      BY <1>1, <2>2
    <3>2. P \in Nat \ {0} /\ e[1] <= P
      BY <2>1, <2>2, <3>1, PeakOf
    <3> QED BY <2>1, <2>2, <3>2
  <2>4. Drop(e, n + 1).loss = P - final /\ Drop(e, n + 1).of = P
    BY <2>2 DEF Drop
  <2>5. 100 * (c - final) > Threshold * c
    <3>1. Fall(1, Len(curve)).loss = c - final /\ Fall(1, Len(curve)).of = c
      BY DEF Fall, c
    <3> QED BY <1>7, <3>1 DEF Ruinous
  <2> HIDE DEF P, final
  <2>6. 100 * (P - final) > Threshold * P
    BY <1>7, <2>1, <2>3, <2>5, ThresholdAssumption, StillRuinous
  <2>7. Ruinous(Drop(e, n + 1))
    BY <2>4, <2>6 DEF Ruinous
  <2>8. n + 1 \in DOMAIN e
    BY <1>1, <2>2
  <2>9. IsRuined(e)
    BY <2>7, <2>8 DEF IsRuined
  <2> QED BY <2>9 DEF e
<1> QED BY <1>3, <1>4, <1>5, <1>6, <1>7 DEF TradesMakeTheCurve

-----------------------------------------------------------------------------
(* Streaks.                                                                *)

LEMMA GreaterOfTwo ==
    ASSUME NEW a \in Nat, NEW b \in Nat
    PROVE  Greatest({a, b}) = IF a <= b THEN b ELSE a
<1> DEFINE x == IF a <= b THEN b ELSE a
           T == {a, b}
<1>1. T \subseteq Int /\ x \in T /\ \A y \in T : y <= x
  OBVIOUS
<1> HIDE DEF x, T
<1>2. Greatest(T) = x
  BY <1>1, GreatestIs
<1> QED BY <1>2 DEF x, T

\* The lengths of the runs within K up to i.
RunsTo(K, i) == {m \in 1..i : \E k \in 1..i - m + 1 : k..k + m - 1 \subseteq K}

\* A counter that is set back outside K and its maximum, step by step.
Counts(now, best, K, i) ==
    /\ now[i] = IF i \in K THEN now[i - 1] + 1 ELSE 0
    /\ best[i] = IF best[i - 1] <= now[i] THEN now[i] ELSE best[i - 1]

\* The counter is the run that ends at i, the maximum the longest one so far.
LongestRun(now, best, K, i) ==
    /\ now[i] \in 0..i /\ best[i] \in Nat
    /\ i - now[i] + 1..i \subseteq K
    /\ now[i] < i => i - now[i] \notin K
    /\ best[i] = 0 \/ best[i] \in RunsTo(K, i)
    /\ \A m \in RunsTo(K, i) : m <= best[i]

\* A step keeps that.
LEMMA CountsOn ==
    ASSUME NEW i, i \in Nat, i > 0, NEW K, NEW now, NEW best,
           LongestRun(now, best, K, i - 1), Counts(now, best, K, i)
    PROVE  LongestRun(now, best, K, i)
<1> DEFINE a == now[i - 1]
           b == now[i]
           x == best[i - 1]
           y == best[i]
<1>1. /\ a \in 0..i - 1 /\ x \in Nat
      /\ (i - 1) - a + 1..i - 1 \subseteq K
      /\ a < i - 1 => (i - 1) - a \notin K
      /\ x = 0 \/ x \in RunsTo(K, i - 1)
      /\ \A m \in RunsTo(K, i - 1) : m <= x
  BY DEF LongestRun
<1>2. b = (IF i \in K THEN a + 1 ELSE 0) /\ y = IF x <= b THEN b ELSE x
  BY DEF Counts
<1> HIDE DEF a, b, x, y
<1>3. b \in 0..i /\ y \in Nat /\ x <= y /\ b <= y
  BY <1>1, <1>2
<1>4. i - b + 1..i \subseteq K
  <2> SUFFICES ASSUME NEW j \in i - b + 1..i PROVE j \in K
    OBVIOUS
  <2>1. i \in K /\ b = a + 1
    BY <1>2, <1>3
  <2>2. j = i \/ j \in (i - 1) - a + 1..i - 1
    BY <1>1, <2>1
  <2> QED BY <1>1, <2>1, <2>2
<1>5. b < i => i - b \notin K
  <2> SUFFICES ASSUME b < i PROVE i - b \notin K
    OBVIOUS
  <2>1. CASE i \in K
    <3>1. b = a + 1
      BY <1>2, <2>1
    <3>2. a < i - 1 /\ (i - 1) - a = i - b
      BY <1>1, <3>1
    <3> QED BY <1>1, <3>2
  <2>2. CASE i \notin K
    <3>1. i - b = i
      BY <1>2, <2>2
    <3> QED BY <2>2, <3>1
  <2> QED BY <2>1, <2>2
<1>6. RunsTo(K, i - 1) \subseteq RunsTo(K, i)
  <2> SUFFICES ASSUME NEW m \in RunsTo(K, i - 1) PROVE m \in RunsTo(K, i)
    OBVIOUS
  <2>1. m \in 1..i - 1
    BY DEF RunsTo
  <2>2. PICK k \in 1..(i - 1) - m + 1 : k..k + m - 1 \subseteq K
    BY DEF RunsTo
  <2>3. m \in 1..i /\ k \in 1..i - m + 1
    BY <2>1, <2>2
  <2> QED BY <2>2, <2>3 DEF RunsTo
<1>7. b > 0 => b \in RunsTo(K, i)
  <2> SUFFICES ASSUME b > 0 PROVE b \in RunsTo(K, i)
    OBVIOUS
  <2> DEFINE k == i - b + 1
  <2>1. b \in 1..i /\ k \in 1..i - b + 1 /\ k + b - 1 = i
    BY <1>3
  <2>2. k..k + b - 1 \subseteq K
    BY <1>4, <2>1
  <2> HIDE DEF k
  <2> QED BY <2>1, <2>2 DEF RunsTo
<1>8. y = 0 \/ y \in RunsTo(K, i)
  <2>1. CASE y = b
    BY <1>3, <1>7, <2>1
  <2>2. CASE y = x
    BY <1>1, <1>6, <2>2
  <2> QED BY <1>2, <2>1, <2>2
<1>9. ASSUME NEW m \in RunsTo(K, i) PROVE m <= y
  <2>1. m \in 1..i
    BY DEF RunsTo
  <2>2. PICK k \in 1..i - m + 1 : k..k + m - 1 \subseteq K
    BY DEF RunsTo
  <2>3. CASE k + m - 1 < i
    <3>1. m \in 1..i - 1 /\ k \in 1..(i - 1) - m + 1
      BY <2>1, <2>2, <2>3
    <3>2. m \in RunsTo(K, i - 1)
      BY <2>2, <3>1 DEF RunsTo
    <3> QED BY <1>1, <1>3, <2>1, <3>2
  <2>4. CASE ~(k + m - 1 < i)
    <3>1. k + m - 1 = i /\ k \in Int /\ m \in Int
      BY <2>1, <2>2, <2>4
    <3>2. ASSUME b < m PROVE FALSE
      <4>1. i - b \in k..k + m - 1 /\ b < i
        BY <1>3, <2>1, <2>2, <3>1, <3>2
      <4> QED BY <1>5, <2>2, <4>1
    <3>3. m <= b
      BY <1>3, <3>1, <3>2
    <3> QED BY <1>3, <3>1, <3>3
  <2> QED BY <2>3, <2>4
<1> QED BY <1>3, <1>4, <1>5, <1>8, <1>9 DEF LongestRun, b, y

\* So the maximum is the longest run.
LEMMA CountsAreRuns ==
    ASSUME NEW n, n \in Nat, NEW K, NEW now, NEW best, now[0] = 0, best[0] = 0,
           \A i \in 1..n : Counts(now, best, K, i)
    PROVE  LongestRun(now, best, K, n) /\ best[n] = Greatest(RunsTo(K, n))
<1> DEFINE T == {i \in 0..n : LongestRun(now, best, K, i)}
<1>1. 0 \in T
  BY DEF LongestRun, RunsTo
<1>2. ASSUME NEW i \in 1..n, i - 1 \in T PROVE i \in T
  <2>1. i \in Nat /\ i > 0 /\ i \in 0..n /\ LongestRun(now, best, K, i - 1)
    BY <1>2
  <2> QED BY <2>1, CountsOn
<1> HIDE DEF T
<1>3. n \in T
  BY <1>1, <1>2, Climb
<1>4. LongestRun(now, best, K, n)
  BY <1>3 DEF T
<1> DEFINE R == RunsTo(K, n)
<1>5. R \subseteq Int /\ \A m \in R : m > 0
  BY DEF RunsTo
<1>6. best[n] = 0 \/ best[n] \in R
  BY <1>4 DEF LongestRun
<1>7. \A m \in R : m <= best[n]
  BY <1>4 DEF LongestRun
<1> HIDE DEF R
<1>8. CASE best[n] \in R
  BY <1>5, <1>7, <1>8, GreatestIs, <1>4 DEF R
<1>9. CASE best[n] \notin R
  <2>1. R = {}
    BY <1>5, <1>6, <1>7, <1>9
  <2> QED BY <1>4, <1>6, <1>9, <2>1 DEF Greatest, R
<1> QED BY <1>8, <1>9

Tally == [wins : Nat, losses : Nat, maxWins : Nat, maxLosses : Nat]
NoTally == [wins |-> 0, losses |-> 0, maxWins |-> 0, maxLosses |-> 0]

\* What a trade does to the streaks.
LEMMA StreakFacts ==
    ASSUME NEW c \in Tally, NEW p \in Int
    PROVE  /\ Streak(c, p) \in Tally
           /\ Streak(c, p).wins = IF p > 0 THEN c.wins + 1 ELSE 0
           /\ Streak(c, p).losses = IF p < 0 THEN c.losses + 1 ELSE 0
           /\ Streak(c, p).maxWins = IF c.maxWins <= Streak(c, p).wins THEN Streak(c, p).wins
                                     ELSE c.maxWins
           /\ Streak(c, p).maxLosses = IF c.maxLosses <= Streak(c, p).losses
                                       THEN Streak(c, p).losses ELSE c.maxLosses
<1> DEFINE w == IF p > 0 THEN c.wins + 1 ELSE 0
           l == IF p < 0 THEN c.losses + 1 ELSE 0
<1>1. c.wins \in Nat /\ c.losses \in Nat /\ c.maxWins \in Nat /\ c.maxLosses \in Nat
  BY DEF Tally
<1>2. w \in Nat /\ l \in Nat
  BY <1>1
<1>3. Streak(c, p) = [wins |-> w, losses |-> l, maxWins |-> Greatest({c.maxWins, w}),
                      maxLosses |-> Greatest({c.maxLosses, l})]
  BY DEF Streak
<1> HIDE DEF w, l
<1>4. /\ Greatest({c.maxWins, w}) = IF c.maxWins <= w THEN w ELSE c.maxWins
      /\ Greatest({c.maxLosses, l}) = IF c.maxLosses <= l THEN l ELSE c.maxLosses
  BY <1>1, <1>2, GreaterOfTwo
<1>5. Streak(c, p) \in Tally
  BY <1>1, <1>2, <1>3, <1>4 DEF Tally
<1> QED BY <1>3, <1>4, <1>5 DEF w, l

\* The streaks exist as a function of the trades counted.
LEMMA StreaksFacts ==
    ASSUME NEW t \in Seq(Int)
    PROVE  \E f \in [0..Len(t) -> Tally] :
               /\ f[0] = NoTally /\ Streaks(t) = f[Len(t)]
               /\ \A i \in 1..Len(t) : f[i] = Streak(f[i - 1], t[i])
<1> DEFINE n == Len(t)
           g == [p \in Tally \X (1..n) |-> Streak(p[1], t[p[2]])]
           Solves(f) == f = [i \in 0..n |-> IF i = 0 THEN NoTally ELSE Streak(f[i - 1], t[i])]
<1>1. n \in Nat /\ \A i \in 1..n : t[i] \in Int
  OBVIOUS
<1>2. \A c \in Tally, i \in 1..n : Streak(c, t[i]) \in Tally /\ g[<<c, i>>] = Streak(c, t[i])
  BY <1>1, StreakFacts
<1>3. g \in [Tally \X (1..n) -> Tally]
  BY <1>2
<1> HIDE DEF g, n
<1>4. PICK f \in [0..n -> Tally] : Follows(f, NoTally, g, n)
  <2>1. NoTally \in Tally
    BY DEF NoTally, Tally
  <2> QED BY <1>1, <1>3, <2>1, Recursion
<1>5. Solves(f)
  <2>1. ASSUME NEW i \in 0..n PROVE f[i] = IF i = 0 THEN NoTally ELSE Streak(f[i - 1], t[i])
    <3>1. CASE i = 0
      BY <1>4, <3>1 DEF Follows
    <3>2. CASE i # 0
      <4>1. i \in 1..n /\ i - 1 \in 0..n
        BY <1>1, <3>2
      <4>2. f[i] = g[<<f[i - 1], i>>] /\ f[i - 1] \in Tally
        BY <1>4, <4>1 DEF Follows
      <4> QED BY <1>2, <3>2, <4>1, <4>2
    <3> QED BY <3>1, <3>2
  <2> QED BY <2>1
<1> DEFINE F == CHOOSE s : s = [i \in 0..n |-> IF i = 0 THEN NoTally ELSE Streak(s[i - 1], t[i])]
<1>6. Solves(F)
  BY <1>5
<1>7. Streaks(t) = F[n]
  BY DEF Streaks, NoTally, n
<1> HIDE DEF F
<1>8. /\ F = [i \in 0..n |-> F[i]] /\ F[0] = NoTally
      /\ \A i \in 1..n : F[i] = Streak(F[i - 1], t[i])
  <2>1. F = [i \in 0..n |-> IF i = 0 THEN NoTally ELSE Streak(F[i - 1], t[i])]
    BY <1>6
  <2>2. F = [i \in 0..n |-> F[i]]
    BY <2>1
  <2>3. F[0] = NoTally
    <3>1. 0 \in 0..n
      BY <1>1
    <3> QED BY <2>1, <3>1
  <2>4. ASSUME NEW i \in 1..n PROVE F[i] = Streak(F[i - 1], t[i])
    <3>1. i \in 0..n /\ i # 0
      BY <1>1
    <3> QED BY <2>1, <3>1
  <2> QED BY <2>2, <2>3, <2>4
<1>9. \A i \in 0..n : F[i] \in Tally
  <2> DEFINE T == {i \in 0..n : F[i] \in Tally}
  <2>1. 0 \in T
    BY <1>1, <1>8 DEF NoTally, Tally
  <2>2. ASSUME NEW i \in 1..n, i - 1 \in T PROVE i \in T
    <3>1. i \in 0..n /\ F[i - 1] \in Tally
      BY <1>1, <2>2
    <3>2. Streak(F[i - 1], t[i]) \in Tally
      BY <1>2, <3>1
    <3> QED BY <1>8, <3>1, <3>2
  <2> HIDE DEF T
  <2>3. \A i \in 0..n : i \in T
    BY <1>1, <2>1, <2>2, Climb
  <2> QED BY <2>3 DEF T
<1>10. F \in [0..n -> Tally]
  BY <1>8, <1>9
<1> QED BY <1>7, <1>8, <1>10 DEF n

\* The longest streaks of both kinds are the longest runs.
LEMMA StreaksOk == pnls \in Seq(Int) => StreaksAreRuns
<1> SUFFICES ASSUME pnls \in Seq(Int) PROVE StreaksAreRuns
  OBVIOUS
<1> DEFINE n == Len(pnls)
           W == Winners(pnls)
           L == Losers(pnls)
<1>1. n \in Nat /\ DOMAIN pnls = 1..n /\ \A i \in 1..n : pnls[i] \in Int
  OBVIOUS
<1>2. PICK f \in [0..n -> Tally] :
          /\ f[0] = NoTally /\ Streaks(pnls) = f[n]
          /\ \A i \in 1..n : f[i] = Streak(f[i - 1], pnls[i])
  BY StreaksFacts
<1> DEFINE nw == [i \in 0..n |-> f[i].wins]
           bw == [i \in 0..n |-> f[i].maxWins]
           nl == [i \in 0..n |-> f[i].losses]
           bl == [i \in 0..n |-> f[i].maxLosses]
<1>3. nw[0] = 0 /\ bw[0] = 0 /\ nl[0] = 0 /\ bl[0] = 0
  BY <1>1, <1>2 DEF NoTally
<1>4. ASSUME NEW i \in 1..n PROVE Counts(nw, bw, W, i) /\ Counts(nl, bl, L, i)
  <2>1. i \in 0..n /\ i - 1 \in 0..n /\ f[i - 1] \in Tally /\ pnls[i] \in Int
    BY <1>1
  <2>2. f[i] = Streak(f[i - 1], pnls[i])
    BY <1>2
  <2>3. (i \in W <=> pnls[i] > 0) /\ (i \in L <=> pnls[i] < 0)
    BY <1>1 DEF Winners, Losers
  <2>4. /\ f[i].wins = IF pnls[i] > 0 THEN f[i - 1].wins + 1 ELSE 0
        /\ f[i].losses = IF pnls[i] < 0 THEN f[i - 1].losses + 1 ELSE 0
        /\ f[i].maxWins = IF f[i - 1].maxWins <= f[i].wins THEN f[i].wins ELSE f[i - 1].maxWins
        /\ f[i].maxLosses = IF f[i - 1].maxLosses <= f[i].losses THEN f[i].losses
                            ELSE f[i - 1].maxLosses
    <3> DEFINE c == f[i - 1]
               p == pnls[i]
               s == Streak(c, p)
    <3>1. c \in Tally /\ p \in Int /\ f[i] = s
      BY <2>1, <2>2
    <3> HIDE DEF c, p
    <3>2. /\ s.wins = IF p > 0 THEN c.wins + 1 ELSE 0
          /\ s.losses = IF p < 0 THEN c.losses + 1 ELSE 0
          /\ s.maxWins = IF c.maxWins <= s.wins THEN s.wins ELSE c.maxWins
          /\ s.maxLosses = IF c.maxLosses <= s.losses THEN s.losses ELSE c.maxLosses
      BY <3>1, StreakFacts
    <3> HIDE DEF s
    <3> QED BY <3>1, <3>2, Zenon DEF c, p
  <2>5. /\ nw[i] = f[i].wins /\ nw[i - 1] = f[i - 1].wins
        /\ bw[i] = f[i].maxWins /\ bw[i - 1] = f[i - 1].maxWins
        /\ nl[i] = f[i].losses /\ nl[i - 1] = f[i - 1].losses
        /\ bl[i] = f[i].maxLosses /\ bl[i - 1] = f[i - 1].maxLosses
    BY <2>1
  <2> HIDE DEF nw, bw, nl, bl, W, L
  <2> QED BY <2>3, <2>4, <2>5 DEF Counts
<1>5. bw[n] = Streaks(pnls).maxWins /\ bl[n] = Streaks(pnls).maxLosses
  BY <1>1, <1>2
<1> HIDE DEF nw, bw, nl, bl
<1>6. bw[n] = Greatest(RunsTo(W, n)) /\ bl[n] = Greatest(RunsTo(L, n))
  BY <1>1, <1>3, <1>4, CountsAreRuns
<1>7. Runs(W) = RunsTo(W, n) /\ Runs(L) = RunsTo(L, n)
  BY <1>1 DEF Runs, RunsTo
<1> QED BY <1>5, <1>6, <1>7 DEF StreaksAreRuns

-----------------------------------------------------------------------------
(* Depth of drops, without fractions.                                     *)

\* Products of integers.
LEMMA Scales ==
    ASSUME NEW m \in Nat \ {0}, NEW x \in Int, NEW y \in Int
    PROVE  /\ x <= y => m * x <= m * y
           /\ m * x <= m * y => x <= y
BY Z3

LEMMA Regroup ==
    ASSUME NEW x \in Int, NEW y \in Int, NEW z \in Int
    PROVE  z * (x * y) = y * (x * z) /\ z * (x * y) = x * (y * z)
BY Z3

\* Drops compare as fractions do.
IsDrop(d) == d.loss \in Int /\ d.of \in Nat \ {0}

LEMMA DeeperOrder ==
    ASSUME NEW a, NEW b, NEW c, IsDrop(a), IsDrop(b), IsDrop(c), ~Deeper(a, b), ~Deeper(b, c)
    PROVE  ~Deeper(a, c)
<1> DEFINE p == a.loss
           q == b.loss
           r == c.loss
           u == a.of
           v == b.of
           w == c.of
<1>1. p \in Int /\ q \in Int /\ r \in Int /\ u \in Nat \ {0} /\ v \in Nat \ {0} /\ w \in Nat \ {0}
  BY DEF IsDrop
<1>2. ~(p * v > q * u) /\ ~(q * w > r * v)
  BY DEF Deeper
<1>3. Deeper(a, c) <=> p * w > r * u
  BY DEF Deeper
<1> HIDE DEF p, q, r, u, v, w
<1>4. /\ p * v \in Int /\ q * u \in Int /\ q * w \in Int /\ r * v \in Int
      /\ p * w \in Int /\ r * u \in Int
  BY <1>1, TimesInt
<1>5. w * (p * v) <= w * (q * u)
  BY <1>1, <1>2, <1>4, Scales
<1>6. u * (q * w) <= u * (r * v)
  BY <1>1, <1>2, <1>4, Scales
<1>7. /\ w * (p * v) = v * (p * w) /\ w * (q * u) = u * (q * w)
      /\ u * (r * v) = v * (r * u)
  BY <1>1, Regroup
<1>8. v * (p * w) <= v * (r * u)
  <2> DEFINE A == v * (p * w)
             B == u * (q * w)
             C == v * (r * u)
  <2>1. A \in Int /\ B \in Int /\ C \in Int
    BY <1>1, <1>4, TimesInt
  <2>2. A <= B /\ B <= C
    BY <1>5, <1>6, <1>7
  <2> HIDE DEF A, B, C
  <2>3. A <= C
    BY <2>1, <2>2
  <2> QED BY <2>3 DEF A, C
<1>9. p * w <= r * u
  BY <1>1, <1>4, <1>8, Scales
<1> QED BY <1>3, <1>4, <1>9

LEMMA DeeperOneWay ==
    ASSUME NEW a, NEW b, IsDrop(a), IsDrop(b), Deeper(a, b)
    PROVE  ~Deeper(b, a)
<1>1. a.loss * b.of \in Int /\ b.loss * a.of \in Int
  BY TimesInt DEF IsDrop
<1> QED BY <1>1 DEF Deeper

LEMMA DeeperNever == ASSUME NEW a, IsDrop(a) PROVE ~Deeper(a, a)
<1>1. a.loss * a.of \in Int
  BY TimesInt DEF IsDrop
<1> QED BY <1>1 DEF Deeper

\* What reaches a threshold, so does what is as deep.
LEMMA AtLeastGrows ==
    ASSUME NEW a, NEW b, IsDrop(a), IsDrop(b), NEW c \in Int, ~Deeper(a, b), AtLeast(a, c)
    PROVE  AtLeast(b, c)
<1> DEFINE p == a.loss
           q == b.loss
           u == a.of
           v == b.of
<1>1. p \in Int /\ q \in Int /\ u \in Nat \ {0} /\ v \in Nat \ {0}
  BY DEF IsDrop
<1>2. ~(p * v > q * u) /\ 100 * p >= c * u
  BY DEF Deeper, AtLeast
<1>3. AtLeast(b, c) <=> 100 * q >= c * v
  BY DEF AtLeast
<1> HIDE DEF p, q, u, v
<1>4. p * v \in Int /\ q * u \in Int /\ c * u \in Int /\ c * v \in Int /\ 100 * p \in Int /\ 100 * q \in Int
  BY <1>1, TimesInt
<1>5. v * (c * u) <= v * (100 * p)
  BY <1>1, <1>2, <1>4, Scales
<1>6. 100 * (p * v) <= 100 * (q * u)
  BY <1>2, <1>4, Scales
<1>7. v * (c * u) = u * (c * v) /\ v * (100 * p) = 100 * (p * v) /\ u * (100 * q) = 100 * (q * u)
  BY <1>1, Regroup
<1>8. u * (c * v) <= u * (100 * q)
  <2> DEFINE A == u * (c * v)
             B == 100 * (p * v)
             C == u * (100 * q)
  <2>1. A \in Int /\ B \in Int /\ C \in Int
    BY <1>1, <1>4, TimesInt
  <2>2. A <= B /\ B <= C
    BY <1>5, <1>6, <1>7
  <2> HIDE DEF A, B, C
  <2>3. A <= C
    BY <2>1, <2>2
  <2> QED BY <2>3 DEF A, C
<1>9. c * v <= 100 * q
  BY <1>1, <1>4, <1>8, Scales
<1> QED BY <1>3, <1>4, <1>9

-----------------------------------------------------------------------------
(* Peaks and drops.                                                        *)

Valued == curve \in Seq(Int) /\ (Len(curve) >= 1 => curve[1] > 0)

\* The peak is the greatest record so far.
LEMMA PeakFacts ==
    ASSUME Valued, NEW i \in 1..Len(curve)
    PROVE  /\ Peak(curve, i) \in Nat \ {0}
           /\ \E k \in 1..i : curve[k] = Peak(curve, i)
           /\ \A k \in 1..i : curve[k] <= Peak(curve, i)
<1>1. curve \in Seq(Int) /\ curve[1] > 0
  BY DEF Valued
<1> QED BY <1>1, PeakOf

\* A record has a loss where it is below an earlier one.
LEMMA DropFacts ==
    ASSUME Valued, NEW i \in 1..Len(curve)
    PROVE  /\ IsDrop(Drop(curve, i)) /\ Drop(curve, i).loss \in Nat
           /\ Drop(curve, i).of = Peak(curve, i)
           /\ Drop(curve, i).loss = Peak(curve, i) - curve[i]
           /\ Below(i) <=> Drop(curve, i).loss > 0
           /\ ~Below(i) => Drop(curve, i).loss = 0
<1> DEFINE P == Peak(curve, i)
<1>1. P \in Nat \ {0} /\ curve[i] \in Int /\ curve[i] <= P
  <2>1. i \in 1..i /\ curve[i] \in Int
    BY DEF Valued
  <2> QED BY <2>1, PeakFacts
<1>2. Drop(curve, i).loss = P - curve[i] /\ Drop(curve, i).of = P
  BY DEF Drop
<1>3. Below(i) <=> P > curve[i]
  <2>1. PICK k \in 1..i : curve[k] = P
    BY PeakFacts
  <2>2. \A j \in 1..i : curve[j] <= P /\ curve[j] \in Int
    BY PeakFacts DEF Valued
  <2> HIDE DEF P
  <2>3. ASSUME Below(i) PROVE P > curve[i]
    <3>1. PICK j \in 1..i : curve[j] > curve[i]
      BY <2>3 DEF Below
    <3> QED BY <1>1, <2>2, <3>1
  <2>4. ASSUME P > curve[i] PROVE Below(i)
    BY <2>1, <2>4 DEF Below
  <2> QED BY <2>3, <2>4
<1> HIDE DEF P
<1>4. Drop(curve, i).loss \in Nat /\ Drop(curve, i).of \in Nat \ {0}
  BY <1>1, <1>2
<1> QED BY <1>1, <1>2, <1>3, <1>4 DEF P, IsDrop

\* The drop at one position is deeper than at another.
Worse(i, j) == Deeper(Drop(curve, i), Drop(curve, j))

\* A strict order of the positions in classes; those that are not below come last.
LEMMA WorseFacts ==
    ASSUME Valued
    PROVE  LET D == 1..Len(curve) IN
           /\ \A i, j, k \in D : ~Worse(i, j) /\ ~Worse(j, k) => ~Worse(i, k)
           /\ \A i, j \in D : Worse(i, j) => ~Worse(j, i)
           /\ \A i \in D : ~Worse(i, i)
           /\ \A i, j \in D : ~Below(i) => ~Worse(i, j)
           /\ \A i, j \in D : Below(i) /\ ~Below(j) => Worse(i, j)
           /\ \A i, j \in D : /\ ~Worse(i, j) /\ AtLeast(Drop(curve, i), Threshold)
                              => AtLeast(Drop(curve, j), Threshold)
<1> DEFINE D == 1..Len(curve)
<1>1. \A i \in D : IsDrop(Drop(curve, i))
  BY DropFacts
<1>2. ASSUME NEW i \in D, NEW j \in D, NEW k \in D, ~Worse(i, j), ~Worse(j, k)
      PROVE  ~Worse(i, k)
  BY <1>1, <1>2, DeeperOrder DEF Worse
<1>3. ASSUME NEW i \in D, NEW j \in D, Worse(i, j) PROVE ~Worse(j, i)
  BY <1>1, <1>3, DeeperOneWay DEF Worse
<1>4. ASSUME NEW i \in D PROVE ~Worse(i, i)
  BY <1>1, DeeperNever DEF Worse
<1>5. ASSUME NEW i \in D, NEW j \in D, ~Below(i) PROVE ~Worse(i, j)
  <2> DEFINE d == Drop(curve, i)
             x == Drop(curve, j)
  <2>1. d.loss = 0 /\ x.of \in Int /\ x.loss \in Nat /\ d.of \in Nat
    BY <1>5, DropFacts DEF IsDrop
  <2>2. Worse(i, j) <=> d.loss * x.of > x.loss * d.of
    BY DEF Worse, Deeper
  <2> HIDE DEF d, x
  <2>3. \A y \in Int : 0 * y = 0
    BY Z3
  <2>4. \A y, z \in Nat : y * z \in Nat
    BY Z3
  <2>5. x.loss * d.of \in Nat /\ d.loss * x.of = 0
    BY <2>1, <2>3, <2>4
  <2> QED BY <2>2, <2>5
<1>6. ASSUME NEW i \in D, NEW j \in D, Below(i), ~Below(j) PROVE Worse(i, j)
  <2> DEFINE d == Drop(curve, i)
             x == Drop(curve, j)
  <2>1. x.loss = 0 /\ x.of \in Nat \ {0} /\ d.loss \in Nat \ {0} /\ d.of \in Int
    BY <1>6, DropFacts DEF IsDrop
  <2>2. Worse(i, j) <=> d.loss * x.of > x.loss * d.of
    BY DEF Worse, Deeper
  <2> HIDE DEF d, x
  <2>3. \A y \in Int : 0 * y = 0
    BY Z3
  <2>4. \A y, z \in Nat \ {0} : y * z \in Nat \ {0}
    BY Z3
  <2>5. d.loss * x.of \in Nat \ {0} /\ x.loss * d.of = 0
    BY <2>1, <2>3, <2>4
  <2> QED BY <2>2, <2>5
<1>7. ASSUME NEW i \in D, NEW j \in D, ~Worse(i, j), AtLeast(Drop(curve, i), Threshold)
      PROVE  AtLeast(Drop(curve, j), Threshold)
  BY <1>1, <1>7, ThresholdAssumption, AtLeastGrows DEF Worse
<1> HIDE DEF D
<1> QED BY <1>2, <1>3, <1>4, <1>5, <1>6, <1>7, Zenon DEF D

\* The first of the deepest positions from a to b.
FirstDeepest(t, a, b) ==
    /\ t \in a..b
    /\ \A i \in a..b : ~Worse(i, t)
    /\ \A i \in a..t - 1 : Worse(t, i)

\* One position more, a range that has one, and only one.
LEMMA FirstDeepestOn ==
    ASSUME Valued, NEW a \in 1..Len(curve), NEW b, b + 1 \in 1..Len(curve), b \in 1..Len(curve),
           NEW t, FirstDeepest(t, a, b)
    PROVE  FirstDeepest(IF Worse(b + 1, t) THEN b + 1 ELSE t, a, b + 1)
<1> DEFINE n == Len(curve)
           c == b + 1
<1>1. n \in Nat /\ a \in 1..n /\ b \in 1..n /\ c \in 1..n /\ t \in a..b /\ t \in 1..n
  BY DEF Valued, FirstDeepest
<1>2. (\A i \in a..b : ~Worse(i, t)) /\ (\A i \in a..t - 1 : Worse(t, i))
  BY DEF FirstDeepest
<1>3. \A i \in a..c : i \in a..b \/ i = c
  BY <1>1
<1>4. \A i \in a..c : i \in 1..n
  BY <1>1
<1>5. CASE Worse(c, t)
  <2>1. c \in a..c
    BY <1>1
  <2>2. ASSUME NEW i \in a..b PROVE Worse(c, i)
    <3>1. i \in 1..n /\ ~Worse(i, t)
      BY <1>1, <1>2
    <3>2. SUFFICES ASSUME ~Worse(c, i) PROVE FALSE
      OBVIOUS
    <3> QED BY <1>1, <1>5, <3>1, <3>2, WorseFacts
  <2>3. ASSUME NEW i \in a..c PROVE ~Worse(i, c)
    <3>1. CASE i = c
      BY <1>1, <3>1, WorseFacts
    <3>2. CASE i # c
      <4>1. i \in a..b /\ i \in 1..n
        BY <1>3, <1>4, <3>2
      <4> QED BY <1>1, <2>2, <4>1, WorseFacts
    <3> QED BY <3>1, <3>2
  <2>4. \A i \in a..c - 1 : i \in a..b
    BY <1>1
  <2>5. FirstDeepest(c, a, c)
    BY <2>1, <2>2, <2>3, <2>4 DEF FirstDeepest
  <2> QED BY <1>5, <2>5
<1>6. CASE ~Worse(c, t)
  <2>1. t \in a..c /\ \A i \in a..c : ~Worse(i, t)
    BY <1>1, <1>2, <1>3, <1>6
  <2>2. FirstDeepest(t, a, c)
    BY <1>2, <2>1 DEF FirstDeepest
  <2> QED BY <1>6, <2>2
<1> QED BY <1>5, <1>6

LEMMA FirstDeepestThere ==
    ASSUME Valued, NEW a \in 1..Len(curve), NEW b \in 1..Len(curve), a <= b
    PROVE  \E t \in a..b : FirstDeepest(t, a, b)
<1> DEFINE n == Len(curve)
           T == {m \in 0..b : m < a \/ \E t \in a..m : FirstDeepest(t, a, m)}
<1>1. n \in Nat /\ a \in 1..n /\ b \in 1..n /\ b \in Nat
  BY DEF Valued
<1>2. 0 \in T
  BY <1>1
<1>3. ASSUME NEW m \in 1..b, m - 1 \in T PROVE m \in T
  <2>1. m \in 0..b /\ m \in 1..n
    BY <1>1
  <2>2. CASE m < a
    BY <2>1, <2>2
  <2>3. CASE m = a
    <3>1. a \in a..a /\ (\A i \in a..a : i = a) /\ a..a - 1 = {}
      BY <1>1
    <3>2. FirstDeepest(a, a, a)
      BY <1>1, <3>1, WorseFacts DEF FirstDeepest
    <3> QED BY <2>1, <2>3, <3>1, <3>2
  <2>4. CASE m > a
    <3>1. PICK t \in a..m - 1 : FirstDeepest(t, a, m - 1)
      BY <1>1, <1>3, <2>1, <2>4
    <3> DEFINE k == m - 1
               u == IF Worse(m, t) THEN m ELSE t
    <3>2. k \in 1..n /\ k + 1 = m
      BY <1>1, <2>1, <2>4
    <3> HIDE DEF k
    <3>3. FirstDeepest(t, a, k)
      BY <3>1 DEF k
    <3>4. k + 1 \in 1..n
      BY <2>1, <3>2
    <3>5. FirstDeepest(IF Worse(k + 1, t) THEN k + 1 ELSE t, a, k + 1)
      BY <3>2, <3>3, <3>4, FirstDeepestOn
    <3>6. FirstDeepest(u, a, m)
      BY <3>2, <3>5
    <3>7. u \in a..m
      BY <3>6 DEF FirstDeepest
    <3> HIDE DEF u
    <3> QED BY <2>1, <3>6, <3>7
  <2> QED BY <1>1, <2>1, <2>2, <2>3, <2>4
<1> HIDE DEF T
<1>4. b \in T
  <2>1. \A m \in 0..b : m \in T
    BY <1>1, <1>2, <1>3, Climb
  <2> QED BY <1>1, <2>1
<1>5. ~(b < a)
  BY <1>1
<1> QED BY <1>4, <1>5 DEF T

LEMMA FirstDeepestOne ==
    ASSUME NEW a \in Int, NEW b \in Int, NEW t, NEW u, FirstDeepest(t, a, b), FirstDeepest(u, a, b)
    PROVE  t = u
<1>1. t \in a..b /\ u \in a..b
  BY DEF FirstDeepest
<1>2. CASE t < u
  <2>1. t \in a..u - 1
    BY <1>1, <1>2
  <2>2. Worse(u, t)
    BY <2>1 DEF FirstDeepest
  <2> QED BY <1>1, <2>2 DEF FirstDeepest
<1>3. CASE u < t
  <2>1. u \in a..t - 1
    BY <1>1, <1>3
  <2>2. Worse(t, u)
    BY <2>1 DEF FirstDeepest
  <2> QED BY <1>1, <2>2 DEF FirstDeepest
<1> QED BY <1>1, <1>2, <1>3

\* The trough of the maximum drawdown is that of the whole curve.
LEMMA TroughFacts ==
    ASSUME Valued, Len(curve) >= 1
    PROVE  Trough(curve) \in 1..Len(curve) /\ FirstDeepest(Trough(curve), 1, Len(curve))
<1> DEFINE n == Len(curve)
           Is(t) == /\ \A i \in DOMAIN curve : ~Deeper(Drop(curve, i), Drop(curve, t))
                    /\ \A i \in 1..t - 1 : Deeper(Drop(curve, t), Drop(curve, i))
<1>1. n \in Nat /\ n >= 1 /\ DOMAIN curve = 1..n /\ 1 \in 1..n /\ n \in 1..n
  BY DEF Valued
<1>2. PICK t \in 1..n : FirstDeepest(t, 1, n)
  BY <1>1, FirstDeepestThere
<1>3. Is(t)
  BY <1>1, <1>2 DEF FirstDeepest, Worse
<1>4. Trough(curve) = CHOOSE s \in DOMAIN curve : Is(s)
  BY DEF Trough
<1> HIDE DEF Is
<1>5. Trough(curve) \in DOMAIN curve /\ Is(Trough(curve))
  BY <1>1, <1>3, <1>4
<1> DEFINE s == Trough(curve)
<1> HIDE DEF s
<1>6. s \in 1..n /\ Is(s)
  BY <1>1, <1>5 DEF s
<1>7. FirstDeepest(s, 1, n)
  BY <1>1, <1>6 DEF FirstDeepest, Worse, Is
<1> QED BY <1>6, <1>7 DEF s

-----------------------------------------------------------------------------
(* The scan for drawdowns.                                                 *)

LEMMA FirstNotBelow == ASSUME Valued, Len(curve) >= 1 PROVE ~Below(1)
<1>1. SUFFICES ASSUME Below(1) PROVE FALSE
  OBVIOUS
<1>2. PICK j \in 1..1 : curve[j] > curve[1]
  BY <1>1 DEF Below
<1>3. Len(curve) \in Nat /\ \A k \in 1..Len(curve) : curve[k] \in Int
  BY DEF Valued
<1> QED BY <1>2, <1>3

Entry == [from : Nat, trough : Nat, end : Nat]
Scanning == [inside : BOOLEAN, from : Nat, trough : Nat, found : SUBSET Entry]
Ended(s, end) ==
    s.found \cup (IF AtLeast(Drop(curve, s.trough), Threshold)
                  THEN {[from |-> s.from, trough |-> s.trough, end |-> end]} ELSE {})

\* What ending a dip adds to the list, and what a step does.
LEMMA KeepingFacts ==
    ASSUME NEW s \in Scanning, NEW end \in Nat
    PROVE  /\ Keeping(s, curve, end) = [s EXCEPT !.found = Ended(s, end)]
           /\ Ended(s, end) \in SUBSET Entry
<1> DEFINE E == IF AtLeast(Drop(curve, s.trough), Threshold)
                THEN {[from |-> s.from, trough |-> s.trough, end |-> end]} ELSE {}
<1>1. s.found \in SUBSET Entry /\ s.from \in Nat /\ s.trough \in Nat
  BY DEF Scanning
<1>2. E \in SUBSET Entry
  BY <1>1 DEF Entry
<1>3. s = [s EXCEPT !.found = s.found]
  BY DEF Scanning
<1>4. Ended(s, end) = s.found \cup E
  BY DEF Ended
<1>5. Keeping(s, curve, end) = [s EXCEPT !.found = s.found \cup E]
  <2>1. CASE AtLeast(Drop(curve, s.trough), Threshold)
    BY <2>1 DEF Keeping
  <2>2. CASE ~AtLeast(Drop(curve, s.trough), Threshold)
    <3>1. s.found \cup E = s.found
      BY <2>2
    <3> HIDE DEF E
    <3> QED BY <1>3, <2>2, <3>1 DEF Keeping
  <2> QED BY <2>1, <2>2
<1> HIDE DEF E
<1> QED BY <1>1, <1>2, <1>4, <1>5

LEMMA ScanStepFacts ==
    ASSUME Valued, NEW s \in Scanning, NEW i \in 1..Len(curve)
    PROVE  LET r == ScanStep(s, curve, i) IN
           /\ r \in Scanning
           /\ ~s.inside /\ ~Below(i) => r = s
           /\ ~s.inside /\ Below(i) =>
                  r.inside /\ r.from = i - 1 /\ r.trough = i /\ r.found = s.found
           /\ s.inside /\ Below(i) =>
                  /\ r.inside /\ r.from = s.from /\ r.found = s.found
                  /\ r.trough = IF Worse(i, s.trough) THEN i ELSE s.trough
           /\ s.inside /\ ~Below(i) /\ s.trough \in 1..Len(curve) =>
                  ~r.inside /\ r.found = Ended(s, i)
<1> DEFINE r == ScanStep(s, curve, i)
           Loss == Drop(curve, i).loss
           t == IF Worse(i, s.trough) THEN [s EXCEPT !.trough = i] ELSE s
<1>1. i \in Nat \ {0} /\ Len(curve) \in Nat
  BY DEF Valued
<1>2. Loss \in Nat /\ (Below(i) <=> Loss > 0) /\ (~Below(i) => Loss = 0)
  BY DropFacts
<1>3. Below(i) => i > 1
  <2>1. Len(curve) >= 1
    BY <1>1
  <2> QED BY <1>1, <2>1, FirstNotBelow
<1>4. s.inside \in BOOLEAN /\ s.from \in Nat /\ s.trough \in Nat /\ s.found \in SUBSET Entry
  BY DEF Scanning
<1>5. CASE ~s.inside
  <2>1. r = IF Loss > 0
            THEN [s EXCEPT !.inside = TRUE, !.from = IF i > 1 THEN i - 1 ELSE 1, !.trough = i]
            ELSE s
    BY <1>5 DEF ScanStep
  <2> HIDE DEF r, Loss
  <2>2. CASE ~Below(i)
    <3>1. r = s
      BY <1>2, <2>1, <2>2
    <3> QED BY <1>5, <2>2, <3>1 DEF r
  <2>3. CASE Below(i)
    <3>1. r = [s EXCEPT !.inside = TRUE, !.from = i - 1, !.trough = i]
      BY <1>2, <1>3, <2>1, <2>3
    <3>2. i - 1 \in Nat
      BY <1>1
    <3>3. r \in Scanning /\ r.inside /\ r.from = i - 1 /\ r.trough = i /\ r.found = s.found
      BY <1>1, <3>1, <3>2 DEF Scanning
    <3> QED BY <1>5, <2>3, <3>3 DEF r
  <2> QED BY <2>2, <2>3
<1>6. CASE s.inside
  <2>1. r = IF Loss = 0 THEN Leaving(t, curve, i) ELSE t
    BY <1>6 DEF ScanStep, Worse
  <2>2. /\ t \in Scanning /\ t.inside = s.inside /\ t.from = s.from /\ t.found = s.found
        /\ t.trough = IF Worse(i, s.trough) THEN i ELSE s.trough
    BY <1>1 DEF Scanning
  <2> HIDE DEF r, Loss, t
  <2>3. CASE Below(i)
    <3>1. r = t
      BY <1>2, <2>1, <2>3
    <3> QED BY <1>6, <2>2, <2>3, <3>1 DEF r
  <2>4. CASE ~Below(i)
    <3>1. r = [Keeping(t, curve, i) EXCEPT !.inside = FALSE]
      BY <1>2, <2>1, <2>4 DEF Leaving
    <3>2. /\ Keeping(t, curve, i) = [t EXCEPT !.found = Ended(t, i)]
          /\ Ended(t, i) \in SUBSET Entry
      BY <1>1, <2>2, KeepingFacts
    <3>3. r \in Scanning /\ ~r.inside /\ r.found = Ended(t, i)
      BY <2>2, <3>1, <3>2 DEF Scanning
    <3>4. ASSUME s.trough \in 1..Len(curve) PROVE r.found = Ended(s, i)
      <4>1. ~Worse(i, s.trough)
        BY <2>4, <3>4, WorseFacts
      <4>2. t = s
        BY <4>1 DEF t
      <4> QED BY <3>3, <4>2
    <3> QED BY <1>6, <2>4, <3>3, <3>4 DEF r
  <2> QED BY <2>3, <2>4
<1> QED BY <1>4, <1>5, <1>6

\* The steps of the scan.
LEMMA ScanFacts ==
    ASSUME Valued
    PROVE  \E f \in [0..Len(curve) -> Scanning] :
               /\ f[0] = NoScan /\ Scan(curve) = f[Len(curve)]
               /\ \A i \in 1..Len(curve) : f[i] = ScanStep(f[i - 1], curve, i)
<1> DEFINE n == Len(curve)
           g == [p \in Scanning \X (1..n) |-> ScanStep(p[1], curve, p[2])]
           Solves(f) == f = [i \in 0..n |-> IF i = 0 THEN NoScan ELSE ScanStep(f[i - 1], curve, i)]
<1>1. n \in Nat
  BY DEF Valued
<1>2. \A c \in Scanning, i \in 1..n : /\ ScanStep(c, curve, i) \in Scanning
                                     /\ g[<<c, i>>] = ScanStep(c, curve, i)
  BY ScanStepFacts
<1>3. g \in [Scanning \X (1..n) -> Scanning]
  BY <1>2
<1> HIDE DEF g, n
<1>4. NoScan \in Scanning
  BY DEF NoScan, Scanning
<1>5. PICK f \in [0..n -> Scanning] : Follows(f, NoScan, g, n)
  BY <1>1, <1>3, <1>4, Recursion
<1>6. Solves(f)
  <2>1. ASSUME NEW i \in 0..n PROVE f[i] = IF i = 0 THEN NoScan ELSE ScanStep(f[i - 1], curve, i)
    <3>1. CASE i = 0
      BY <1>5, <3>1 DEF Follows
    <3>2. CASE i # 0
      <4>1. i \in 1..n /\ i - 1 \in 0..n
        BY <1>1, <3>2
      <4>2. f[i] = g[<<f[i - 1], i>>] /\ f[i - 1] \in Scanning
        BY <1>5, <4>1 DEF Follows
      <4> QED BY <1>2, <3>2, <4>1, <4>2
    <3> QED BY <3>1, <3>2
  <2> QED BY <2>1
<1> DEFINE F == CHOOSE x : x = [i \in 0..n |-> IF i = 0 THEN NoScan ELSE ScanStep(x[i - 1], curve, i)]
<1>7. Solves(F)
  BY <1>6
<1>8. Scan(curve) = F[n]
  BY DEF Scan, n
<1> HIDE DEF F
<1>9. /\ F = [i \in 0..n |-> F[i]] /\ F[0] = NoScan
      /\ \A i \in 1..n : F[i] = ScanStep(F[i - 1], curve, i)
  <2>1. F = [i \in 0..n |-> IF i = 0 THEN NoScan ELSE ScanStep(F[i - 1], curve, i)]
    BY <1>7
  <2>2. F = [i \in 0..n |-> F[i]]
    BY <2>1
  <2>3. F[0] = NoScan
    <3>1. 0 \in 0..n
      BY <1>1
    <3> QED BY <2>1, <3>1
  <2>4. ASSUME NEW i \in 1..n PROVE F[i] = ScanStep(F[i - 1], curve, i)
    <3>1. i \in 0..n /\ i # 0
      BY <1>1
    <3> QED BY <2>1, <3>1
  <2> QED BY <2>2, <2>3, <2>4
<1>10. \A i \in 0..n : F[i] \in Scanning
  <2> DEFINE T == {i \in 0..n : F[i] \in Scanning}
  <2>1. 0 \in T
    BY <1>1, <1>4, <1>9
  <2>2. ASSUME NEW i \in 1..n, i - 1 \in T PROVE i \in T
    <3>1. i \in 0..n /\ F[i - 1] \in Scanning
      BY <1>1, <2>2
    <3>2. ScanStep(F[i - 1], curve, i) \in Scanning
      BY <1>2, <3>1
    <3> QED BY <1>9, <3>1, <3>2
  <2> HIDE DEF T
  <2>3. \A i \in 0..n : i \in T
    BY <1>1, <2>1, <2>2, Climb
  <2> QED BY <2>3 DEF T
<1>11. F \in [0..n -> Scanning]
  BY <1>9, <1>10
<1> QED BY <1>8, <1>9, <1>11 DEF n

\* The positions after a up to b are below an earlier one, a itself is not.
Stretch(a, b) == 1 <= a /\ a < b /\ ~Below(a) /\ \A k \in a + 1..b : Below(k)

LEMMA StretchOne ==
    ASSUME NEW a \in Int, NEW c \in Int, NEW b \in Int, Stretch(a, b), Stretch(c, b)
    PROVE  a = c
<1>1. CASE a < c
  <2>1. c \in a + 1..b
    BY <1>1 DEF Stretch
  <2> QED BY <2>1 DEF Stretch
<1>2. CASE c < a
  <2>1. a \in c + 1..b
    BY <1>2 DEF Stretch
  <2> QED BY <2>1 DEF Stretch
<1> QED BY <1>1, <1>2

\* An entry of the list for a dip that has ended by i.
Dipped(x, i) ==
    /\ Stretch(x.from, x.end - 1) /\ x.end <= i /\ ~Below(x.end)
    /\ FirstDeepest(x.trough, x.from + 1, x.end - 1)
    /\ AtLeast(Drop(curve, x.trough), Threshold)

\* Where the scan is at i: inside the dip that i is in, with its deepest position
\* so far, and having listed the dips that ended by i.
ScanAt(s, i) ==
    /\ s.inside => Stretch(s.from, i) /\ FirstDeepest(s.trough, s.from + 1, i)
    /\ ~s.inside => i = 0 \/ ~Below(i)
    /\ s.found = {x \in Entry : Dipped(x, i)}

\* A step keeps that.
LEMMA ScanOn ==
    ASSUME Valued, NEW s \in Scanning, NEW i \in 1..Len(curve), ScanAt(s, i - 1)
    PROVE  ScanAt(ScanStep(s, curve, i), i)
<1> DEFINE n == Len(curve)
           r == ScanStep(s, curve, i)
<1>1. n \in Nat /\ i \in 1..n /\ i \in Nat /\ i > 0
  BY DEF Valued
<1>2. /\ r \in Scanning
      /\ ~s.inside /\ ~Below(i) => r = s
      /\ ~s.inside /\ Below(i) =>
             r.inside /\ r.from = i - 1 /\ r.trough = i /\ r.found = s.found
      /\ s.inside /\ Below(i) =>
             /\ r.inside /\ r.from = s.from /\ r.found = s.found
             /\ r.trough = IF Worse(i, s.trough) THEN i ELSE s.trough
      /\ s.inside /\ ~Below(i) /\ s.trough \in 1..n =>
             ~r.inside /\ r.found = Ended(s, i)
  BY ScanStepFacts
<1> HIDE DEF r
<1>3. /\ s.inside => Stretch(s.from, i - 1) /\ FirstDeepest(s.trough, s.from + 1, i - 1)
      /\ ~s.inside => i - 1 = 0 \/ ~Below(i - 1)
      /\ s.found = {x \in Entry : Dipped(x, i - 1)}
  BY DEF ScanAt
<1>4. s.inside \in BOOLEAN /\ s.from \in Nat /\ s.trough \in Nat
  BY DEF Scanning
<1> DEFINE Found(m) == {x \in Entry : Dipped(x, m)}
<1>5. ASSUME NEW x \in Entry PROVE x.from \in Nat /\ x.end \in Nat
  BY DEF Entry
<1>6. ASSUME NEW x \in Entry PROVE Dipped(x, i) <=> Dipped(x, i - 1) \/ (Dipped(x, i) /\ x.end = i)
  <2>1. x.end <= i <=> x.end <= i - 1 \/ x.end = i
    BY <1>1, <1>5
  <2> QED BY <2>1 DEF Dipped
<1>7. Below(i) => Found(i) = Found(i - 1)
  <2> SUFFICES ASSUME Below(i) PROVE Found(i) = Found(i - 1)
    OBVIOUS
  <2>1. ASSUME NEW x \in Entry, Dipped(x, i) PROVE x.end # i
    BY <2>1 DEF Dipped
  <2>2. \A x \in Entry : Dipped(x, i) <=> Dipped(x, i - 1)
    BY <1>6, <2>1
  <2> QED BY <2>2
<1>8. CASE ~s.inside
  <2>1. Found(i) = Found(i - 1)
    <3>1. ASSUME NEW x \in Entry, Dipped(x, i) PROVE x.end # i
      <4> SUFFICES ASSUME x.end = i PROVE FALSE
        OBVIOUS
      <4>1. Stretch(x.from, i - 1)
        BY <3>1 DEF Dipped
      <4>2. i - 1 \in x.from + 1..i - 1 /\ i - 1 # 0
        BY <1>1, <1>5, <4>1 DEF Stretch
      <4>3. Below(i - 1)
        BY <4>1, <4>2 DEF Stretch
      <4> QED BY <1>3, <1>8, <4>2, <4>3
    <3>2. \A x \in Entry : Dipped(x, i) <=> Dipped(x, i - 1)
      BY <1>6, <3>1
    <3> QED BY <3>2
  <2>2. CASE ~Below(i)
    <3>1. r = s
      BY <1>2, <1>8, <2>2
    <3> QED BY <1>3, <1>8, <2>1, <2>2, <3>1 DEF ScanAt, r
  <2>3. CASE Below(i)
    <3>1. r.inside /\ r.from = i - 1 /\ r.trough = i /\ r.found = s.found
      BY <1>2, <1>8, <2>3
    <3>2. i # 1
      <4>1. n >= 1
        BY <1>1
      <4> QED BY <2>3, <4>1, FirstNotBelow
    <3>3. ~Below(i - 1)
      BY <1>1, <1>3, <1>8, <3>2
    <3>4. 1 <= i - 1 /\ i - 1 < i /\ (i - 1) + 1 = i /\ \A k \in i..i : k = i
      BY <1>1, <3>2
    <3>5. Stretch(i - 1, i)
      BY <2>3, <3>3, <3>4 DEF Stretch
    <3>6. FirstDeepest(i, i, i)
      <4>1. i \in i..i /\ i..i - 1 = {} /\ ~Worse(i, i)
        BY <1>1, WorseFacts
      <4> QED BY <3>4, <4>1 DEF FirstDeepest
    <3> QED BY <1>3, <2>1, <3>1, <3>4, <3>5, <3>6 DEF ScanAt, r
  <2> QED BY <2>2, <2>3
<1>9. CASE s.inside
  <2>1. Stretch(s.from, i - 1) /\ FirstDeepest(s.trough, s.from + 1, i - 1)
    BY <1>3, <1>9
  <2>2. s.from + 1 \in 1..n /\ i - 1 \in 1..n /\ s.trough \in 1..n /\ s.from < i - 1
    BY <1>1, <1>4, <2>1 DEF Stretch, FirstDeepest
  <2>3. CASE Below(i)
    <3>1. /\ r.inside /\ r.from = s.from /\ r.found = s.found
          /\ r.trough = IF Worse(i, s.trough) THEN i ELSE s.trough
      BY <1>2, <1>9, <2>3
    <3>2. Stretch(s.from, i)
      <4>1. \A k \in s.from + 1..i : k \in s.from + 1..i - 1 \/ k = i
        BY <1>1, <1>4
      <4>2. s.from < i
        BY <1>1, <1>4, <2>2
      <4> QED BY <2>1, <2>3, <4>1, <4>2 DEF Stretch
    <3> DEFINE b == i - 1
               a == s.from + 1
               t == s.trough
    <3>3. FirstDeepest(r.trough, a, i)
      <4>1. a \in 1..n /\ b \in 1..n /\ b + 1 = i /\ b + 1 \in 1..n /\ FirstDeepest(t, a, b)
        BY <1>1, <2>1, <2>2
      <4> HIDE DEF a, b
      <4>2. FirstDeepest(IF Worse(b + 1, t) THEN b + 1 ELSE t, a, b + 1)
        BY <4>1, FirstDeepestOn
      <4> QED BY <3>1, <4>1, <4>2
    <3> QED BY <1>3, <1>7, <2>3, <3>1, <3>2, <3>3 DEF ScanAt, r
  <2>4. CASE ~Below(i)
    <3>1. ~r.inside /\ r.found = Ended(s, i)
      BY <1>2, <1>9, <2>2, <2>4
    <3> DEFINE y == [from |-> s.from, trough |-> s.trough, end |-> i]
    <3>2. y \in Entry /\ y.from = s.from /\ y.trough = s.trough /\ y.end = i
      BY <1>1, <1>4 DEF Entry
    <3>3. ASSUME NEW x \in Entry, Dipped(x, i), x.end = i PROVE x = y
      <4>1. Stretch(x.from, i - 1) /\ FirstDeepest(x.trough, x.from + 1, i - 1)
        BY <3>3 DEF Dipped
      <4>2. x.from = s.from
        BY <1>1, <1>4, <1>5, <2>1, <4>1, StretchOne
      <4>3. FirstDeepest(x.trough, s.from + 1, i - 1)
        BY <4>1, <4>2
      <4> DEFINE a == s.from + 1
                 b == i - 1
      <4>4. a \in Int /\ b \in Int /\ FirstDeepest(x.trough, a, b) /\ FirstDeepest(s.trough, a, b)
        BY <1>1, <1>4, <2>1, <4>3
      <4> HIDE DEF a, b
      <4>5. x.trough = s.trough
        BY <4>4, FirstDeepestOne
      <4> QED BY <3>3, <4>2, <4>5 DEF Entry
    <3>4. Dipped(y, i) <=> AtLeast(Drop(curve, s.trough), Threshold)
      <4>1. i <= i
        BY <1>1
      <4> HIDE DEF y
      <4> QED BY <2>1, <2>4, <3>2, <4>1 DEF Dipped
    <3> HIDE DEF y
    <3>5. \A x \in Entry : Dipped(x, i) <=> Dipped(x, i - 1) \/ (x = y /\ Dipped(y, i))
      BY <1>6, <3>2, <3>3
    <3>6. Found(i) = Found(i - 1) \cup (IF Dipped(y, i) THEN {y} ELSE {})
      BY <3>2, <3>5
    <3>7. r.found = Found(i)
      <4>1. Ended(s, i) = s.found \cup (IF AtLeast(Drop(curve, s.trough), Threshold) THEN {y} ELSE {})
        BY DEF Ended, y
      <4>2. s.found = Found(i - 1)
        BY <1>3
      <4> HIDE DEF Found
      <4> QED BY <3>1, <3>4, <3>6, <4>1, <4>2
    <3> QED BY <2>4, <3>1, <3>7 DEF ScanAt, r
  <2> QED BY <2>3, <2>4
<1> QED BY <1>4, <1>8, <1>9

\* The dip that has not ended.
Unended(x) ==
    /\ x.end = 0 /\ Stretch(x.from, Len(curve))
    /\ FirstDeepest(x.trough, x.from + 1, Len(curve))
    /\ AtLeast(Drop(curve, x.trough), Threshold)

\* So the list is the dips that have ended, and the one that has not.
LEMMA DrawdownsAre ==
    ASSUME Valued, Len(curve) >= 1
    PROVE  Drawdowns(curve) = {x \in Entry : Dipped(x, Len(curve)) \/ Unended(x)}
<1> DEFINE n == Len(curve)
<1>1. n \in Nat /\ n >= 1
  BY DEF Valued
<1>2. PICK f \in [0..n -> Scanning] :
          /\ f[0] = NoScan /\ Scan(curve) = f[n]
          /\ \A i \in 1..n : f[i] = ScanStep(f[i - 1], curve, i)
  BY ScanFacts
<1> DEFINE T == {i \in 0..n : ScanAt(f[i], i)}
<1>3. 0 \in T
  <2>1. ASSUME NEW x \in Entry PROVE ~Dipped(x, 0)
    BY DEF Entry, Dipped, Stretch
  <2>2. {x \in Entry : Dipped(x, 0)} = {}
    BY <2>1
  <2>3. ScanAt(NoScan, 0)
    BY <2>2 DEF ScanAt, NoScan
  <2> QED BY <1>1, <1>2, <2>3
<1>4. ASSUME NEW i \in 1..n, i - 1 \in T PROVE i \in T
  <2>1. i \in 0..n /\ i - 1 \in 0..n /\ f[i - 1] \in Scanning /\ ScanAt(f[i - 1], i - 1)
    BY <1>1, <1>4
  <2>2. ScanAt(ScanStep(f[i - 1], curve, i), i)
    BY <2>1, ScanOn
  <2> QED BY <1>2, <2>1, <2>2
<1> HIDE DEF T
<1>5. n \in T
  <2>1. n \in 0..n
    BY <1>1
  <2> QED BY <1>1, <1>3, <1>4, <2>1, Climb
<1> DEFINE s == Scan(curve)
<1>6. s \in Scanning /\ ScanAt(s, n)
  BY <1>1, <1>2, <1>5 DEF T
<1>7. Drawdowns(curve) = IF s.inside THEN Keeping(s, curve, 0).found ELSE s.found
  BY DEF Drawdowns
<1> HIDE DEF s
<1>8. /\ s.inside => Stretch(s.from, n) /\ FirstDeepest(s.trough, s.from + 1, n)
      /\ ~s.inside => n = 0 \/ ~Below(n)
      /\ s.found = {x \in Entry : Dipped(x, n)}
      /\ s.inside \in BOOLEAN /\ s.from \in Nat /\ s.trough \in Nat
  BY <1>6 DEF ScanAt, Scanning
<1>9. CASE ~s.inside
  <2>1. ASSUME NEW x \in Entry PROVE ~Unended(x)
    <3>1. SUFFICES ASSUME Stretch(x.from, n) PROVE FALSE
      BY DEF Unended
    <3>2. n \in x.from + 1..n
      BY <1>1, <3>1 DEF Stretch, Entry
    <3>3. Below(n)
      BY <3>1, <3>2 DEF Stretch
    <3> QED BY <1>1, <1>8, <1>9, <3>3
  <2>2. Drawdowns(curve) = {x \in Entry : Dipped(x, n)}
    BY <1>7, <1>8, <1>9
  <2> QED BY <2>1, <2>2
<1>10. CASE s.inside
  <2> DEFINE y == [from |-> s.from, trough |-> s.trough, end |-> 0]
  <2>1. y \in Entry /\ y.from = s.from /\ y.trough = s.trough /\ y.end = 0
    BY <1>8 DEF Entry
  <2>2. Stretch(s.from, n) /\ FirstDeepest(s.trough, s.from + 1, n)
    BY <1>8, <1>10
  <2>3. ASSUME NEW x \in Entry, Unended(x) PROVE x = y
    <3>1. Stretch(x.from, n) /\ FirstDeepest(x.trough, x.from + 1, n) /\ x.end = 0
      BY <2>3 DEF Unended
    <3>2. x.from \in Nat
      BY DEF Entry
    <3>3. x.from = s.from
      BY <1>1, <1>8, <2>2, <3>1, <3>2, StretchOne
    <3> DEFINE a == s.from + 1
    <3>4. a \in Int /\ n \in Int /\ FirstDeepest(x.trough, a, n) /\ FirstDeepest(s.trough, a, n)
      BY <1>1, <1>8, <2>2, <3>1, <3>3
    <3> HIDE DEF a
    <3>5. x.trough = s.trough
      BY <3>4, FirstDeepestOne
    <3> QED BY <3>1, <3>3, <3>5 DEF Entry
  <2> HIDE DEF y
  <2>4. Unended(y) <=> AtLeast(Drop(curve, s.trough), Threshold)
    BY <2>1, <2>2 DEF Unended
  <2>5. \A x \in Entry : Unended(x) <=> x = y /\ Unended(y)
    BY <2>3
  <2>6. Drawdowns(curve) = Ended(s, 0)
    <3>1. Keeping(s, curve, 0) = [s EXCEPT !.found = Ended(s, 0)]
      BY <1>6, KeepingFacts
    <3>2. Keeping(s, curve, 0).found = Ended(s, 0)
      BY <1>6, <3>1 DEF Scanning
    <3> QED BY <1>7, <1>10, <3>2
  <2>7. Ended(s, 0) = {x \in Entry : Dipped(x, n)} \cup (IF Unended(y) THEN {y} ELSE {})
    BY <1>8, <2>4 DEF Ended, y
  <2> QED BY <2>1, <2>5, <2>6, <2>7
<1> QED BY <1>8, <1>9, <1>10

-----------------------------------------------------------------------------
(* Dips.                                                                   *)

DipFrom(a, b) == /\ Stretch(a - 1, b) /\ b <= Len(curve)
                 /\ b < Len(curve) => ~Below(b + 1)

\* Dips are the stretches that end where the curve does or is not below.
LEMMA DipFacts ==
    ASSUME Valued, Len(curve) >= 1
    PROVE  /\ \A d \in Dips : /\ d[1] \in 2..Len(curve) /\ d[2] \in d[1]..Len(curve)
                             /\ DipFrom(d[1], d[2])
           /\ \A a, b \in Int : DipFrom(a, b) => <<a, b>> \in Dips
<1> DEFINE n == Len(curve)
<1>1. n \in Nat /\ n >= 1 /\ DOMAIN curve = 1..n /\ ~Below(1)
  BY FirstNotBelow DEF Valued
<1>2. ASSUME NEW d \in Dips
      PROVE  d[1] \in 2..n /\ d[2] \in d[1]..n /\ DipFrom(d[1], d[2])
  <2>1. PICK a \in 1..n, b \in 1..n : d = <<a, b>>
    BY <1>1 DEF Dips
  <2>2. /\ a <= b /\ \A i \in a..b : Below(i)
        /\ a > 1 => ~Below(a - 1)
        /\ b < n => ~Below(b + 1)
    BY <2>1 DEF Dips
  <2>3. a \in a..b
    BY <2>1, <2>2
  <2>4. a > 1
    BY <1>1, <2>1, <2>2, <2>3
  <2>5. (a - 1) + 1 = a /\ 1 <= a - 1 /\ a - 1 < b
    BY <2>1, <2>2, <2>4
  <2>6. Stretch(a - 1, b)
    BY <2>2, <2>4, <2>5 DEF Stretch
  <2> QED BY <1>1, <2>1, <2>2, <2>4, <2>6 DEF DipFrom
<1>3. ASSUME NEW a \in Int, NEW b \in Int, DipFrom(a, b) PROVE <<a, b>> \in Dips
  <2>1. Stretch(a - 1, b) /\ b <= n /\ (b < n => ~Below(b + 1))
    BY <1>3 DEF DipFrom
  <2>2. 1 <= a - 1 /\ a - 1 < b /\ ~Below(a - 1) /\ (a - 1) + 1 = a
    BY <2>1 DEF Stretch
  <2>3. \A i \in a..b : Below(i)
    BY <2>1, <2>2 DEF Stretch
  <2>4. a \in 1..n /\ b \in 1..n /\ a <= b
    BY <1>1, <2>1, <2>2
  <2> DEFINE z == <<a, b>>
             Couples == {<<x, y>> : x, y \in DOMAIN curve}
             Is(x) == /\ x[1] <= x[2]
                      /\ \A i \in x[1]..x[2] : Below(i)
                      /\ x[1] > 1 => ~Below(x[1] - 1)
                      /\ x[2] < Len(curve) => ~Below(x[2] + 1)
  <2>5. z[1] = a /\ z[2] = b /\ z \in Couples
    BY <1>1, <2>4
  <2> HIDE DEF z
  <2>6. Is(z)
    BY <2>1, <2>2, <2>3, <2>4, <2>5
  <2>7. Dips = {x \in Couples : Is(x)}
    BY DEF Dips
  <2> HIDE DEF Is, Couples
  <2>8. z \in Dips
    BY <2>5, <2>6, <2>7
  <2> QED BY <2>8 DEF z
<1> QED BY <1>2, <1>3

\* An entry of the list from a dip, and a dip from an entry.
LastOf(x) == IF x.end = 0 THEN Len(curve) ELSE x.end - 1

LEMMA EntryIsDip ==
    ASSUME Valued, Len(curve) >= 1, NEW x \in Drawdowns(curve)
    PROVE  /\ x \in Entry
           /\ DipFrom(x.from + 1, LastOf(x))
           /\ x.end = IF LastOf(x) = Len(curve) THEN 0 ELSE LastOf(x) + 1
           /\ FirstDeepest(x.trough, x.from + 1, LastOf(x))
           /\ AtLeast(Drop(curve, x.trough), Threshold)
<1> DEFINE n == Len(curve)
<1>1. n \in Nat /\ n >= 1
  BY DEF Valued
<1>2. x \in Entry /\ (Dipped(x, n) \/ Unended(x))
  BY DrawdownsAre
<1>3. x.from \in Nat /\ x.end \in Nat /\ (x.from + 1) - 1 = x.from
  BY <1>2 DEF Entry
<1>4. CASE Dipped(x, n)
  <2>1. Stretch(x.from, x.end - 1) /\ x.end <= n /\ ~Below(x.end)
    BY <1>4 DEF Dipped
  <2>2. x.end # 0 /\ LastOf(x) = x.end - 1 /\ (x.end - 1) + 1 = x.end /\ x.end - 1 < n
    BY <1>1, <1>3, <2>1 DEF LastOf, Stretch
  <2>3. DipFrom(x.from + 1, x.end - 1)
    BY <1>1, <1>3, <2>1, <2>2 DEF DipFrom
  <2>4. x.end - 1 # n
    BY <1>1, <1>3, <2>2
  <2> QED BY <1>2, <1>4, <2>2, <2>3, <2>4 DEF Dipped
<1>5. CASE Unended(x)
  <2>1. x.end = 0 /\ LastOf(x) = n /\ Stretch(x.from, n)
    BY <1>5 DEF Unended, LastOf
  <2>2. DipFrom(x.from + 1, n)
    BY <1>1, <1>3, <2>1 DEF DipFrom
  <2> QED BY <1>2, <1>5, <2>1, <2>2 DEF Unended
<1> QED BY <1>2, <1>4, <1>5

LEMMA DipIsEntry ==
    ASSUME Valued, Len(curve) >= 1, NEW a \in Int, NEW b \in Int, DipFrom(a, b),
           NEW t, FirstDeepest(t, a, b), AtLeast(Drop(curve, t), Threshold)
    PROVE  [from |-> a - 1, trough |-> t, end |-> IF b = Len(curve) THEN 0 ELSE b + 1]
               \in Drawdowns(curve)
<1> DEFINE n == Len(curve)
           x == [from |-> a - 1, trough |-> t, end |-> IF b = n THEN 0 ELSE b + 1]
<1>1. n \in Nat /\ n >= 1
  BY DEF Valued
<1>2. Stretch(a - 1, b) /\ b <= n /\ (b < n => ~Below(b + 1))
  BY DEF DipFrom
<1>3. 1 <= a - 1 /\ a - 1 < b /\ (a - 1) + 1 = a /\ (b + 1) - 1 = b
  BY <1>2 DEF Stretch
<1>4. t \in a..b
  BY DEF FirstDeepest
<1>5. x.from = a - 1 /\ x.trough = t /\ x.end = (IF b = n THEN 0 ELSE b + 1)
  OBVIOUS
<1>6. x \in Entry
  BY <1>3, <1>4 DEF Entry
<1> HIDE DEF x
<1>7. CASE b = n
  <2>1. x.end = 0
    BY <1>5, <1>7
  <2>2. FirstDeepest(x.trough, x.from + 1, n)
    BY <1>3, <1>5, <1>7
  <2>3. Unended(x)
    BY <1>2, <1>5, <1>7, <2>1, <2>2 DEF Unended
  <2> QED BY <1>6, <2>3, DrawdownsAre DEF x
<1>8. CASE b # n
  <2>1. x.end = b + 1 /\ b < n /\ b + 1 <= n
    BY <1>1, <1>2, <1>5, <1>8
  <2>2. FirstDeepest(x.trough, x.from + 1, x.end - 1) /\ Stretch(x.from, x.end - 1)
    BY <1>2, <1>3, <1>5, <2>1
  <2>3. Dipped(x, n)
    BY <1>2, <1>5, <2>1, <2>2 DEF Dipped
  <2> QED BY <1>6, <2>3, DrawdownsAre DEF x
<1> QED BY <1>7, <1>8

\* The list holds the dips that reach the threshold, each with its deepest record.
LEMMA ListIsDips ==
    ASSUME Valued, Len(curve) >= 1
    PROVE  /\ {[from |-> d[1] - 1, end |-> IF d[2] = Len(curve) THEN 0 ELSE d[2] + 1] :
                   d \in {x \in Dips : \E i \in x[1]..x[2] : AtLeast(Drop(curve, i), Threshold)}}
              = {[from |-> d.from, end |-> d.end] : d \in Drawdowns(curve)}
           /\ \A d \in Drawdowns(curve) :
                  d.trough \in Deepest(d.from + 1, IF d.end = 0 THEN Len(curve) ELSE d.end - 1)
<1> DEFINE n == Len(curve)
           Reached == {x \in Dips : \E i \in x[1]..x[2] : AtLeast(Drop(curve, i), Threshold)}
           Told(d) == [from |-> d[1] - 1, end |-> IF d[2] = n THEN 0 ELSE d[2] + 1]
           Seen(x) == [from |-> x.from, end |-> x.end]
<1>1. n \in Nat /\ n >= 1
  BY DEF Valued
<1>2. ASSUME NEW d \in Reached PROVE \E x \in Drawdowns(curve) : Seen(x) = Told(d)
  <2>1. d \in Dips
    OBVIOUS
  <2>2. PICK i \in d[1]..d[2] : AtLeast(Drop(curve, i), Threshold)
    OBVIOUS
  <2> DEFINE a == d[1]
             b == d[2]
  <2>3. a \in 2..n /\ b \in a..n /\ DipFrom(a, b) /\ i \in a..b
    BY <2>1, <2>2, DipFacts
  <2>4. Told(d) = [from |-> a - 1, end |-> IF b = n THEN 0 ELSE b + 1]
    OBVIOUS
  <2> HIDE DEF a, b, Told
  <2>5. a \in 1..n /\ b \in 1..n /\ i \in 1..n /\ a <= b /\ a \in Int /\ b \in Int
    BY <1>1, <2>3
  <2>6. PICK t \in a..b : FirstDeepest(t, a, b)
    BY <2>5, FirstDeepestThere
  <2>7. ~Worse(i, t) /\ t \in 1..n
    BY <2>3, <2>5, <2>6 DEF FirstDeepest
  <2>8. AtLeast(Drop(curve, t), Threshold)
    BY <2>2, <2>5, <2>7, WorseFacts
  <2> DEFINE x == [from |-> a - 1, trough |-> t, end |-> IF b = n THEN 0 ELSE b + 1]
  <2>9. x \in Drawdowns(curve)
    BY <2>3, <2>5, <2>6, <2>8, DipIsEntry
  <2>10. Seen(x) = Told(d)
    BY <2>4
  <2> HIDE DEF x, Seen
  <2> QED BY <2>9, <2>10
<1>3. ASSUME NEW x \in Drawdowns(curve) PROVE \E d \in Reached : Seen(x) = Told(d)
  <2> DEFINE a == x.from + 1
             b == LastOf(x)
             d == <<a, b>>
  <2>1. /\ x \in Entry /\ DipFrom(a, b) /\ x.end = IF b = n THEN 0 ELSE b + 1
        /\ FirstDeepest(x.trough, a, b) /\ AtLeast(Drop(curve, x.trough), Threshold)
    BY EntryIsDip
  <2>2. a \in Int /\ b \in Int /\ a - 1 = x.from
    BY <1>1, <2>1 DEF Entry, LastOf
  <2> HIDE DEF a, b
  <2>3. d \in Dips /\ d[1] = a /\ d[2] = b
    BY <2>1, <2>2, DipFacts
  <2>4. x.trough \in a..b
    BY <2>1 DEF FirstDeepest
  <2>5. d \in Reached
    BY <2>1, <2>3, <2>4
  <2>6. Seen(x) = Told(d)
    BY <2>1, <2>2, <2>3
  <2> HIDE DEF Reached, Seen, Told, d
  <2> QED BY <2>5, <2>6
<1>4. ASSUME NEW x \in Drawdowns(curve) PROVE x.trough \in Deepest(x.from + 1, LastOf(x))
  <2>1. FirstDeepest(x.trough, x.from + 1, LastOf(x))
    BY EntryIsDip
  <2> QED BY <2>1 DEF FirstDeepest, Deepest, Worse
<1>5. {Told(d) : d \in Reached} = {Seen(x) : x \in Drawdowns(curve)}
  <2> HIDE DEF Told, Seen, Reached
  <2> QED BY <1>2, <1>3
<1>6. \A x \in Drawdowns(curve) :
          x.trough \in Deepest(x.from + 1, IF x.end = 0 THEN n ELSE x.end - 1)
  BY <1>4 DEF LastOf
<1> QED BY <1>5, <1>6, Zenon

\* The peak within a dip is the record before it.
LEMMA NotBelowFacts ==
    ASSUME Valued, NEW i \in 1..Len(curve), NEW j \in i..Len(curve), ~Below(j)
    PROVE  curve[j] >= Peak(curve, i)
<1>1. PICK k \in 1..i : curve[k] = Peak(curve, i)
  BY PeakFacts
<1>2. Len(curve) \in Nat /\ \A m \in 1..Len(curve) : curve[m] \in Int
  BY DEF Valued
<1>3. k \in 1..j /\ j \in 1..Len(curve) /\ k \in 1..Len(curve)
  BY <1>2
<1>4. ~(curve[k] > curve[j])
  BY <1>3 DEF Below
<1> QED BY <1>1, <1>2, <1>3, <1>4

\* What the recovery of a trough is: the first record after it that is not below.
LEMMA RecoveryFacts ==
    ASSUME Valued, Len(curve) >= 1, Below(Trough(curve))
    PROVE  LET t == Trough(curve)
               r == Recovery(curve)
               n == Len(curve)
           IN  \/ r = 0 /\ \A k \in t..n : Below(k)
               \/ r \in t + 1..n /\ ~Below(r) /\ \A k \in t..r - 1 : Below(k)
<1> DEFINE n == Len(curve)
           t == Trough(curve)
           after == {i \in t..n : curve[i] >= Peak(curve, t)}
<1>1. n \in Nat /\ t \in 1..n /\ \A m \in 1..n : curve[m] \in Int
  BY TroughFacts DEF Valued
<1>2. Recovery(curve) = IF after = {} THEN 0 ELSE CHOOSE i \in after : \A j \in after : i <= j
  BY DEF Recovery
<1>3. Below(t)
  OBVIOUS
<1> HIDE DEF t
<1>4. \A k \in t..n : ~Below(k) => k \in after
  BY <1>1, NotBelowFacts
<1>5. CASE after = {}
  BY <1>2, <1>4, <1>5 DEF t
<1>6. CASE after # {}
  <2>1. after \subseteq Nat
    BY <1>1
  <2> DEFINE r == CHOOSE i \in after : \A j \in after : i <= j
  <2>2. r \in after /\ \A j \in after : r <= j
    <3> HIDE DEF after
    <3> QED BY <1>6, <2>1, LeastNumber
  <2>3. Recovery(curve) = r
    BY <1>2, <1>6
  <2> HIDE DEF r
  <2>4. r \in t..n /\ r \in 1..n /\ curve[r] >= Peak(curve, t)
    BY <1>1, <2>2
  <2>5. ~Below(r)
    <3> SUFFICES ASSUME Below(r) PROVE FALSE
      OBVIOUS
    <3>1. PICK j \in 1..r : curve[j] > curve[r]
      BY DEF Below
    <3>2. j \in 1..n /\ curve[j] \in Int /\ curve[r] \in Int /\ Peak(curve, t) \in Int
      BY <1>1, <2>4, PeakFacts
    <3>3. curve[j] > Peak(curve, t)
      BY <2>4, <3>1, <3>2
    <3>4. ~(j \in 1..t)
      BY <1>1, <3>2, <3>3, PeakFacts
    <3>5. j \in t..n
      BY <1>1, <2>4, <3>1, <3>2, <3>4
    <3>6. j \in after
      BY <3>2, <3>3, <3>5
    <3>7. r <= j
      BY <2>2, <3>6
    <3>8. j = r
      BY <2>4, <3>2, <3>7, <3>1
    <3> QED BY <3>1, <3>2, <3>8
  <2>6. r # t
    BY <1>3, <2>5
  <2>7. ASSUME NEW k \in t..r - 1 PROVE Below(k)
    <3>1. k \in t..n /\ ~(r <= k)
      BY <1>1, <2>4
    <3>2. k \notin after
      BY <2>2, <3>1
    <3> QED BY <1>4, <3>1, <3>2
  <2>8. r \in t + 1..n
    BY <1>1, <2>4, <2>6
  <2> QED BY <2>3, <2>5, <2>7, <2>8 DEF t
<1> QED BY <1>5, <1>6

\* The dip that the trough is in.
LEMMA TroughIsListed ==
    ASSUME Valued, Len(curve) >= 1, Below(Trough(curve)),
           AtLeast(Drop(curve, Trough(curve)), Threshold)
    PROVE  \E d \in Drawdowns(curve) : d.trough = Trough(curve) /\ d.end = Recovery(curve)
<1> DEFINE n == Len(curve)
           t == Trough(curve)
           r == Recovery(curve)
           b == IF r = 0 THEN n ELSE r - 1
<1>1. n \in Nat /\ n >= 1 /\ t \in 1..n /\ FirstDeepest(t, 1, n) /\ ~Below(1) /\ Below(t)
      /\ AtLeast(Drop(curve, t), Threshold)
  BY TroughFacts, FirstNotBelow DEF Valued
<1>2. \/ r = 0 /\ \A k \in t..n : Below(k)
      \/ r \in t + 1..n /\ ~Below(r) /\ \A k \in t..r - 1 : Below(k)
  BY RecoveryFacts
<1> HIDE DEF t, r
<1>3. /\ b \in t..n /\ \A k \in t..b : Below(k)
      /\ b < n => ~Below(b + 1)
      /\ r = IF b = n THEN 0 ELSE b + 1
  <2>1. CASE r = 0 /\ \A k \in t..n : Below(k)
    BY <1>1, <2>1
  <2>2. CASE r \in t + 1..n /\ ~Below(r) /\ \A k \in t..r - 1 : Below(k)
    <3>1. b = r - 1 /\ b + 1 = r /\ b # n /\ b \in t..n
      BY <1>1, <2>2
    <3> HIDE DEF b
    <3> QED BY <2>2, <3>1
  <2> QED BY <1>2, <2>1, <2>2
<1> HIDE DEF b
<1> DEFINE T == {k \in 1..t : ~Below(k)}
<1>4. T \subseteq 0..n /\ T # {}
  <2>1. 1 \in T
    BY <1>1
  <2>2. T \subseteq 0..n
    BY <1>1
  <2> HIDE DEF T
  <2> QED BY <2>1, <2>2
<1>5. PICK p \in T : \A y \in T : y <= p
  <2> HIDE DEF T
  <2> QED BY <1>1, <1>4, GreatestNumber
<1>6. p \in 1..t /\ ~Below(p) /\ p # t
  BY <1>1, <1>5
<1> DEFINE a == p + 1
<1>7. a \in Int /\ b \in Int /\ a - 1 = p /\ a \in 1..t /\ p < b
  BY <1>1, <1>3, <1>6
<1>8. ASSUME NEW k \in a..b PROVE Below(k)
  <2>1. CASE k <= t
    <3>1. k \in 1..t /\ ~(k <= p)
      BY <1>1, <1>6, <2>1
    <3>2. k \notin T
      BY <1>5, <3>1
    <3> QED BY <3>1, <3>2
  <2>2. CASE ~(k <= t)
    <3>1. k \in t..b
      BY <1>1, <1>3, <1>6, <2>2
    <3> QED BY <1>3, <3>1
  <2> QED BY <2>1, <2>2
<1> HIDE DEF T
<1>9. DipFrom(a, b)
  <2>1. b <= n /\ 1 <= p
    BY <1>1, <1>3, <1>6
  <2> QED BY <1>3, <1>6, <1>7, <1>8, <2>1 DEF DipFrom, Stretch
<1>10. FirstDeepest(t, a, b)
  <2>1. t \in a..b
    BY <1>1, <1>3, <1>7
  <2>2. \A i \in a..b : i \in 1..n
    BY <1>1, <1>3, <1>7
  <2>3. \A i \in a..t - 1 : i \in 1..t - 1
    BY <1>1, <1>7
  <2> HIDE DEF a
  <2> QED BY <1>1, <2>1, <2>2, <2>3 DEF FirstDeepest
<1> HIDE DEF a
<1> DEFINE x == [from |-> a - 1, trough |-> t, end |-> IF b = n THEN 0 ELSE b + 1]
<1>11. x \in Drawdowns(curve)
  BY <1>1, <1>7, <1>9, <1>10, DipIsEntry
<1>12. x.trough = t /\ x.end = r
  BY <1>3
<1> HIDE DEF x
<1> QED BY <1>11, <1>12 DEF t, r

\* The maximum drawdown is the worst fall.
LEMMA TroughIsWorst ==
    ASSUME Valued, Len(curve) >= 1
    PROVE  /\ \A i, j \in DOMAIN curve :
                  j <= i /\ curve[j] > 0 /\ curve[i] >= 0 =>
                      ~Deeper(Fall(j, i), Drop(curve, Trough(curve)))
           /\ Drop(curve, Trough(curve)) = Fall(Highest(curve, Trough(curve)), Trough(curve))
<1> DEFINE n == Len(curve)
           t == Trough(curve)
<1>1. /\ n \in Nat /\ n >= 1 /\ DOMAIN curve = 1..n /\ t \in 1..n /\ FirstDeepest(t, 1, n)
      /\ \A m \in 1..n : curve[m] \in Int
  BY TroughFacts DEF Valued
<1> HIDE DEF t
<1>2. ASSUME NEW i \in 1..n, NEW j \in 1..n, j <= i, curve[j] > 0, curve[i] >= 0
      PROVE  ~Deeper(Fall(j, i), Drop(curve, t))
  <2> DEFINE P == Peak(curve, i)
             x == curve[i]
             y == curve[j]
  <2>1. j \in 1..i
    BY <1>1, <1>2
  <2>2. P \in Nat \ {0} /\ x \in Nat /\ y \in Nat \ {0} /\ y <= P
    BY <1>1, <1>2, <2>1, PeakFacts
  <2>3. Fall(j, i).loss = y - x /\ Fall(j, i).of = y
    BY DEF Fall
  <2>4. Drop(curve, i).loss = P - x /\ Drop(curve, i).of = P
    BY DEF Drop
  <2> HIDE DEF P, x, y
  <2>5. ~((y - x) * P > (P - x) * y)
    BY <2>2, Z3
  <2>6. ~Deeper(Fall(j, i), Drop(curve, i))
    BY <2>3, <2>4, <2>5 DEF Deeper
  <2>7. ~Deeper(Drop(curve, i), Drop(curve, t))
    BY <1>1 DEF FirstDeepest, Worse
  <2>8. IsDrop(Fall(j, i)) /\ IsDrop(Drop(curve, i)) /\ IsDrop(Drop(curve, t))
    <3>1. IsDrop(Fall(j, i))
      BY <2>2, <2>3 DEF IsDrop
    <3> QED BY <1>1, <3>1, DropFacts
  <2> QED BY <2>6, <2>7, <2>8, DeeperOrder
<1>3. Drop(curve, t) = Fall(Highest(curve, t), t)
  <2> DEFINE K == {k \in 1..t : curve[k] = Peak(curve, t)}
             Is(k) == curve[k] = Peak(curve, t) /\ \A j \in 1..k - 1 : curve[j] # curve[k]
  <2>1. K \subseteq Nat /\ K # {}
    <3>1. PICK k \in 1..t : curve[k] = Peak(curve, t)
      BY <1>1, PeakFacts
    <3>2. k \in K
      BY <3>1
    <3>3. K \subseteq Nat
      BY <1>1
    <3> QED BY <3>2, <3>3
  <2>2. PICK k \in K : \A y \in K : k <= y
    <3> HIDE DEF K
    <3> QED BY <2>1, LeastNumber
  <2>3. Is(k)
    <3>1. ASSUME NEW j \in 1..k - 1, curve[j] = curve[k] PROVE FALSE
      <4>1. j \in 1..t /\ ~(k <= j)
        BY <1>1, <2>2
      <4>2. j \in K
        BY <2>2, <3>1, <4>1
      <4> QED BY <2>2, <4>1, <4>2
    <3> QED BY <2>2, <3>1
  <2>4. Highest(curve, t) = CHOOSE m \in 1..t : Is(m)
    BY DEF Highest
  <2>5. k \in 1..t
    BY <2>2
  <2> HIDE DEF Is
  <2>6. Is(Highest(curve, t))
    BY <2>3, <2>4, <2>5
  <2>7. curve[Highest(curve, t)] = Peak(curve, t)
    BY <2>6 DEF Is
  <2> QED BY <2>7 DEF Drop, Fall
<1> QED BY <1>1, <1>2, <1>3 DEF t

-----------------------------------------------------------------------------
(* The periods under a peak.                                               *)

Counter == [now : Nat, periods : Seq(Nat)]
NoCount == [now |-> 0, periods |-> <<>>]
LengthsIn(s) == {s[j] : j \in 1..Len(s)}

LEMMA CountedFacts ==
    ASSUME NEW s \in Seq(Nat), NEW m \in Nat
    PROVE  /\ Append(s, m) \in Seq(Nat) /\ LengthsIn(Append(s, m)) = LengthsIn(s) \cup {m}
           /\ LengthsIn(<<>>) = {}
<1> DEFINE n == Len(s)
           t == Append(s, m)
<1>1. /\ n \in Nat /\ t \in Seq(Nat) /\ Len(t) = n + 1 /\ t[n + 1] = m
      /\ \A j \in 1..n : t[j] = s[j]
  OBVIOUS
<1> HIDE DEF t
<1>2. \A j \in 1..n + 1 : j \in 1..n \/ j = n + 1
  BY <1>1
<1>3. n + 1 \in 1..n + 1 /\ \A j \in 1..n : j \in 1..n + 1
  BY <1>1
<1>4. LengthsIn(t) = LengthsIn(s) \cup {m}
  <2>1. ASSUME NEW v \in LengthsIn(t) PROVE v \in LengthsIn(s) \cup {m}
    <3>1. PICK j \in 1..n + 1 : v = t[j]
      BY <1>1 DEF LengthsIn
    <3> QED BY <1>1, <1>2, <3>1 DEF LengthsIn
  <2>2. ASSUME NEW v \in LengthsIn(s) PROVE v \in LengthsIn(t)
    <3>1. PICK j \in 1..n : v = s[j]
      BY DEF LengthsIn
    <3> QED BY <1>1, <1>3, <3>1 DEF LengthsIn
  <2>3. m \in LengthsIn(t)
    BY <1>1, <1>3 DEF LengthsIn
  <2> QED BY <2>1, <2>2, <2>3
<1>5. LengthsIn(<<>>) = {}
  BY DEF LengthsIn
<1> QED BY <1>1, <1>4, <1>5 DEF t

\* What a record does to the count.
LEMMA CountingFacts ==
    ASSUME Valued, NEW c \in Counter, NEW i \in 1..Len(curve)
    PROVE  LET r == Counting(c, curve, i) IN
           /\ r \in Counter
           /\ Below(i) => r.now = c.now + 1 /\ r.periods = c.periods
           /\ ~Below(i) => r.now = 0
           /\ ~Below(i) /\ c.now = 0 => r.periods = c.periods
           /\ ~Below(i) /\ c.now > 0 => r.periods = Append(c.periods, c.now)
<1> DEFINE r == Counting(c, curve, i)
           Loss == Drop(curve, i).loss
<1>1. Loss \in Nat /\ (Below(i) <=> Loss > 0)
  BY DropFacts
<1>2. c.now \in Nat /\ c.periods \in Seq(Nat)
  BY DEF Counter
<1>3. r = IF Loss > 0 THEN [c EXCEPT !.now = @ + 1]
          ELSE IF c.now > 0 THEN [now |-> 0, periods |-> Append(c.periods, c.now)]
          ELSE c
  BY DEF Counting
<1> HIDE DEF r, Loss
<1>4. CASE Below(i)
  <2>1. r = [c EXCEPT !.now = c.now + 1]
    BY <1>1, <1>3, <1>4
  <2>2. r \in Counter /\ r.now = c.now + 1 /\ r.periods = c.periods
    BY <1>2, <2>1 DEF Counter
  <2> QED BY <1>4, <2>2 DEF r
<1>5. CASE ~Below(i)
  <2>1. CASE c.now > 0
    <3>1. r = [now |-> 0, periods |-> Append(c.periods, c.now)]
      BY <1>1, <1>3, <1>5, <2>1
    <3>2. Append(c.periods, c.now) \in Seq(Nat)
      BY <1>2
    <3>3. r \in Counter
      BY <3>1, <3>2 DEF Counter
    <3> QED BY <1>2, <1>5, <2>1, <3>1, <3>3 DEF r
  <2>2. CASE ~(c.now > 0)
    <3>1. r = c /\ c.now = 0
      BY <1>1, <1>2, <1>3, <1>5, <2>2
    <3> QED BY <1>5, <3>1 DEF r
  <2> QED BY <2>1, <2>2
<1> QED BY <1>4, <1>5

\* The steps of the count.
LEMMA PeriodsFacts ==
    ASSUME Valued
    PROVE  \E f \in [0..Len(curve) -> Counter] :
               /\ f[0] = NoCount
               /\ Periods(curve) = IF f[Len(curve)].now > 0
                                   THEN Append(f[Len(curve)].periods, f[Len(curve)].now)
                                   ELSE f[Len(curve)].periods
               /\ \A i \in 1..Len(curve) : f[i] = Counting(f[i - 1], curve, i)
<1> DEFINE n == Len(curve)
           g == [p \in Counter \X (1..n) |-> Counting(p[1], curve, p[2])]
           Solves(f) == f = [i \in 0..n |-> IF i = 0 THEN NoCount ELSE Counting(f[i - 1], curve, i)]
<1>1. n \in Nat
  BY DEF Valued
<1>2. \A c \in Counter, i \in 1..n : /\ Counting(c, curve, i) \in Counter
                                    /\ g[<<c, i>>] = Counting(c, curve, i)
  BY CountingFacts
<1>3. g \in [Counter \X (1..n) -> Counter]
  BY <1>2
<1> HIDE DEF g, n
<1>4. NoCount \in Counter
  BY DEF NoCount, Counter
<1>5. PICK f \in [0..n -> Counter] : Follows(f, NoCount, g, n)
  BY <1>1, <1>3, <1>4, Recursion
<1>6. Solves(f)
  <2>1. ASSUME NEW i \in 0..n PROVE f[i] = IF i = 0 THEN NoCount ELSE Counting(f[i - 1], curve, i)
    <3>1. CASE i = 0
      BY <1>5, <3>1 DEF Follows
    <3>2. CASE i # 0
      <4>1. i \in 1..n /\ i - 1 \in 0..n
        BY <1>1, <3>2
      <4>2. f[i] = g[<<f[i - 1], i>>] /\ f[i - 1] \in Counter
        BY <1>5, <4>1 DEF Follows
      <4> QED BY <1>2, <3>2, <4>1, <4>2
    <3> QED BY <3>1, <3>2
  <2> QED BY <2>1
<1> DEFINE F == CHOOSE x : x = [i \in 0..n |-> IF i = 0 THEN NoCount ELSE Counting(x[i - 1], curve, i)]
<1>7. Solves(F)
  BY <1>6
<1>8. Periods(curve) = IF F[n].now > 0 THEN Append(F[n].periods, F[n].now) ELSE F[n].periods
  BY DEF Periods, NoCount, n
<1> HIDE DEF F
<1>9. /\ F = [i \in 0..n |-> F[i]] /\ F[0] = NoCount
      /\ \A i \in 1..n : F[i] = Counting(F[i - 1], curve, i)
  <2>1. F = [i \in 0..n |-> IF i = 0 THEN NoCount ELSE Counting(F[i - 1], curve, i)]
    BY <1>7
  <2>2. F = [i \in 0..n |-> F[i]]
    BY <2>1
  <2>3. F[0] = NoCount
    <3>1. 0 \in 0..n
      BY <1>1
    <3> QED BY <2>1, <3>1
  <2>4. ASSUME NEW i \in 1..n PROVE F[i] = Counting(F[i - 1], curve, i)
    <3>1. i \in 0..n /\ i # 0
      BY <1>1
    <3> QED BY <2>1, <3>1
  <2> QED BY <2>2, <2>3, <2>4
<1>10. \A i \in 0..n : F[i] \in Counter
  <2> DEFINE T == {i \in 0..n : F[i] \in Counter}
  <2>1. 0 \in T
    BY <1>1, <1>4, <1>9
  <2>2. ASSUME NEW i \in 1..n, i - 1 \in T PROVE i \in T
    <3>1. i \in 0..n /\ F[i - 1] \in Counter
      BY <1>1, <2>2
    <3>2. Counting(F[i - 1], curve, i) \in Counter
      BY <1>2, <3>1
    <3> QED BY <1>9, <3>1, <3>2
  <2> HIDE DEF T
  <2>3. \A i \in 0..n : i \in T
    BY <1>1, <2>1, <2>2, Climb
  <2> QED BY <2>3 DEF T
<1>11. F \in [0..n -> Counter]
  BY <1>9, <1>10
<1> QED BY <1>8, <1>9, <1>11 DEF n

\* The lengths of the dips that have ended by i.
EndsBy(a, m, i) == Stretch(a, a + m) /\ a + m + 1 <= i /\ ~Below(a + m + 1)
Lengths(i) == {m \in Nat : \E a \in Nat : EndsBy(a, m, i)}

\* Where the count is at i: it has the length so far of the dip that i is in, and
\* those of the dips that ended by i.
CountAt(c, i) ==
    /\ c.now = 0 => i = 0 \/ ~Below(i)
    /\ c.now > 0 => Stretch(i - c.now, i)
    /\ LengthsIn(c.periods) = Lengths(i)

\* A step keeps that.
LEMMA CountOn ==
    ASSUME Valued, NEW c \in Counter, NEW i \in 1..Len(curve), CountAt(c, i - 1)
    PROVE  CountAt(Counting(c, curve, i), i)
<1> DEFINE n == Len(curve)
           r == Counting(c, curve, i)
<1>1. n \in Nat /\ n >= 1 /\ i \in 1..n /\ i \in Nat /\ i > 0 /\ ~Below(1)
  <2>1. n \in Nat /\ n >= 1
    BY DEF Valued
  <2> QED BY <2>1, FirstNotBelow
<1>2. /\ r \in Counter
      /\ Below(i) => r.now = c.now + 1 /\ r.periods = c.periods
      /\ ~Below(i) => r.now = 0
      /\ ~Below(i) /\ c.now = 0 => r.periods = c.periods
      /\ ~Below(i) /\ c.now > 0 => r.periods = Append(c.periods, c.now)
  BY CountingFacts
<1> HIDE DEF r
<1>3. /\ c.now = 0 => i - 1 = 0 \/ ~Below(i - 1)
      /\ c.now > 0 => Stretch((i - 1) - c.now, i - 1)
      /\ LengthsIn(c.periods) = Lengths(i - 1)
  BY DEF CountAt
<1>4. c.now \in Nat /\ c.periods \in Seq(Nat)
  BY DEF Counter
<1>5. ASSUME NEW a \in Nat, NEW m \in Nat
      PROVE  EndsBy(a, m, i) <=> EndsBy(a, m, i - 1) \/ (EndsBy(a, m, i) /\ a + m + 1 = i)
  <2>1. a + m + 1 <= i <=> a + m + 1 <= i - 1 \/ a + m + 1 = i
    BY <1>1
  <2> QED BY <2>1 DEF EndsBy
<1>6. ASSUME NEW a \in Nat, NEW m \in Nat, EndsBy(a, m, i), a + m + 1 = i
      PROVE  ~Below(i) /\ Stretch(a, i - 1) /\ m = (i - 1) - a /\ Below(i - 1)
  <2>1. a + m = i - 1 /\ m = (i - 1) - a
    BY <1>1, <1>6
  <2>2. ~Below(i) /\ Stretch(a, i - 1)
    BY <1>6, <2>1 DEF EndsBy
  <2>3. i - 1 \in a + 1..i - 1
    BY <1>1, <2>2 DEF Stretch
  <2> QED BY <2>1, <2>2, <2>3 DEF Stretch
<1>7. CASE Below(i)
  <2>1. Lengths(i) = Lengths(i - 1)
    <3>1. \A a, m \in Nat : EndsBy(a, m, i) <=> EndsBy(a, m, i - 1)
      BY <1>5, <1>6, <1>7
    <3> QED BY <3>1 DEF Lengths
  <2>2. r.now = c.now + 1 /\ r.periods = c.periods
    BY <1>2, <1>7
  <2>3. Stretch(i - r.now, i)
    <3>1. CASE c.now = 0
      <4>1. i # 1
        BY <1>1, <1>7
      <4>2. ~Below(i - 1)
        BY <1>1, <1>3, <3>1, <4>1
      <4>3. i - r.now = i - 1 /\ (i - 1) + 1 = i /\ 1 <= i - 1 /\ i - 1 < i /\ \A k \in i..i : k = i
        BY <1>1, <2>2, <3>1, <4>1
      <4> QED BY <1>7, <4>2, <4>3 DEF Stretch
    <3>2. CASE c.now # 0
      <4> DEFINE a == (i - 1) - c.now
      <4>1. Stretch(a, i - 1)
        BY <1>3, <1>4, <3>2
      <4>2. i - r.now = a /\ a \in Int
        BY <1>1, <1>4, <2>2
      <4> HIDE DEF a
      <4>3. \A k \in a + 1..i : k \in a + 1..i - 1 \/ k = i
        BY <1>1, <4>2
      <4>4. 1 <= a /\ a < i /\ ~Below(a)
        BY <1>1, <4>1, <4>2 DEF Stretch
      <4>5. \A k \in a + 1..i : Below(k)
        BY <1>7, <4>1, <4>3 DEF Stretch
      <4>6. Stretch(a, i)
        BY <4>4, <4>5 DEF Stretch
      <4> QED BY <4>2, <4>6
    <3> QED BY <3>1, <3>2
  <2>4. r.now # 0
    BY <1>4, <2>2
  <2> QED BY <1>3, <2>1, <2>2, <2>3, <2>4 DEF CountAt, r
<1>8. CASE ~Below(i)
  <2>1. r.now = 0
    BY <1>2, <1>8
  <2>2. LengthsIn(r.periods) = Lengths(i)
    <3>1. CASE c.now = 0
      <4>1. ASSUME NEW a \in Nat, NEW m \in Nat, EndsBy(a, m, i), a + m + 1 = i PROVE FALSE
        <5>1. Below(i - 1) /\ Stretch(a, i - 1)
          BY <1>6, <4>1
        <5>2. i - 1 # 0
          BY <1>1, <5>1 DEF Stretch
        <5> QED BY <1>3, <3>1, <5>1, <5>2
      <4>2. \A a, m \in Nat : EndsBy(a, m, i) <=> EndsBy(a, m, i - 1)
        BY <1>5, <4>1
      <4>3. Lengths(i) = Lengths(i - 1)
        BY <4>2 DEF Lengths
      <4> QED BY <1>2, <1>3, <1>8, <3>1, <4>3
    <3>2. CASE c.now # 0
      <4> DEFINE b == (i - 1) - c.now
                 w == c.now
      <4>1. Stretch(b, i - 1) /\ b \in Int
        BY <1>1, <1>3, <1>4, <3>2
      <4>2. w \in Nat /\ b + w = i - 1 /\ b + w + 1 = i
        BY <1>1, <1>4
      <4>3. r.periods = Append(c.periods, w)
        BY <1>2, <1>4, <1>8, <3>2
      <4> DEFINE z == i - 1
      <4>4. w = z - b /\ z \in Int
        BY <1>1, <1>4
      <4> HIDE DEF b, w
      <4>5. b \in Nat
        BY <4>1 DEF Stretch
      <4>6. EndsBy(b, w, i)
        <5>1. i <= i
          BY <1>1
        <5> QED BY <1>8, <4>1, <4>2, <5>1 DEF EndsBy
      <4>7. ASSUME NEW a \in Nat, NEW m \in Nat, EndsBy(a, m, i), a + m + 1 = i PROVE m = w
        <5>1. Stretch(a, z) /\ m = z - a
          BY <1>6, <4>7
        <5>2. Stretch(b, z)
          BY <4>1
        <5> HIDE DEF z
        <5>3. a = b
          BY <4>1, <4>4, <5>1, <5>2, StretchOne
        <5> QED BY <4>4, <5>1, <5>3
      <4>8. \A m \in Nat : (\E a \in Nat : EndsBy(a, m, i))
                             <=> (\E a \in Nat : EndsBy(a, m, i - 1)) \/ m = w
        BY <1>5, <4>2, <4>5, <4>6, <4>7
      <4>9. Lengths(i) = Lengths(i - 1) \cup {w}
        BY <4>2, <4>8 DEF Lengths
      <4>10. LengthsIn(r.periods) = LengthsIn(c.periods) \cup {w}
        BY <1>4, <4>2, <4>3, CountedFacts
      <4> QED BY <1>3, <4>9, <4>10
    <3> QED BY <3>1, <3>2
  <2> QED BY <1>8, <2>1, <2>2 DEF CountAt, r
<1> QED BY <1>7, <1>8

\* So the longest period is the longest dip.
LEMMA PeriodsAreDips ==
    ASSUME Valued, Len(curve) >= 1
    PROVE  LongestUnder(curve) = Greatest({d[2] - d[1] + 1 : d \in Dips})
<1> DEFINE n == Len(curve)
           Spans == {d[2] - d[1] + 1 : d \in Dips}
<1>1. n \in Nat /\ n >= 1
  BY DEF Valued
<1>2. PICK f \in [0..n -> Counter] :
          /\ f[0] = NoCount
          /\ Periods(curve) = IF f[n].now > 0 THEN Append(f[n].periods, f[n].now)
                              ELSE f[n].periods
          /\ \A i \in 1..n : f[i] = Counting(f[i - 1], curve, i)
  BY PeriodsFacts
<1> DEFINE T == {i \in 0..n : CountAt(f[i], i)}
<1>3. 0 \in T
  <2>1. Lengths(0) = {}
    BY DEF Lengths, EndsBy
  <2>2. CountAt(NoCount, 0)
    <3>1. LengthsIn(<<>>) = {}
      BY DEF LengthsIn
    <3> QED BY <2>1, <3>1 DEF CountAt, NoCount
  <2> QED BY <1>1, <1>2, <2>2
<1>4. ASSUME NEW i \in 1..n, i - 1 \in T PROVE i \in T
  <2>1. i \in 0..n /\ i - 1 \in 0..n /\ f[i - 1] \in Counter /\ CountAt(f[i - 1], i - 1)
    BY <1>1, <1>4
  <2>2. CountAt(Counting(f[i - 1], curve, i), i)
    BY <2>1, CountOn
  <2> QED BY <1>2, <2>1, <2>2
<1> HIDE DEF T
<1>5. n \in T
  <2>1. n \in 0..n
    BY <1>1
  <2> QED BY <1>1, <1>3, <1>4, <2>1, Climb
<1> DEFINE c == f[n]
           w == c.now
<1>6. c \in Counter /\ CountAt(c, n)
  BY <1>1, <1>5 DEF T
<1>7. Periods(curve) = IF w > 0 THEN Append(c.periods, w) ELSE c.periods
  BY <1>2
<1>8. /\ w \in Nat /\ c.periods \in Seq(Nat)
      /\ w = 0 => ~Below(n)
      /\ w > 0 => Stretch(n - w, n)
      /\ LengthsIn(c.periods) = Lengths(n)
  BY <1>1, <1>6 DEF CountAt, Counter
<1> HIDE DEF c, w
<1>9. LengthsIn(Periods(curve)) = Lengths(n) \cup (IF w > 0 THEN {w} ELSE {})
  BY <1>7, <1>8, CountedFacts
<1>10. ASSUME NEW m \in Spans PROVE m \in LengthsIn(Periods(curve))
  <2>1. PICK d \in Dips : m = d[2] - d[1] + 1
    OBVIOUS
  <2> DEFINE a == d[1] - 1
             b == d[2]
  <2>2. a \in Nat /\ b \in Nat /\ b <= n /\ m = b - a /\ m \in Nat /\ a + m = b
        /\ Stretch(a, b) /\ (b < n => ~Below(b + 1))
    <3> DEFINE x == d[1]
               y == d[2]
    <3>1. x \in 2..n /\ y \in x..n /\ DipFrom(x, y) /\ m = y - x + 1
      BY <1>1, <2>1, DipFacts
    <3> HIDE DEF x, y
    <3>2. Stretch(x - 1, y) /\ (y < n => ~Below(y + 1))
      BY <3>1 DEF DipFrom
    <3>3. x - 1 \in Nat /\ y \in Nat /\ y <= n /\ m = y - (x - 1) /\ m \in Nat /\ (x - 1) + m = y
      BY <1>1, <3>1
    <3> QED BY <3>2, <3>3 DEF x, y
  <2> HIDE DEF a, b
  <2>3. CASE b = n
    <3>1. n \in a + 1..n /\ Stretch(a, n)
      BY <1>1, <2>2, <2>3 DEF Stretch
    <3>2. Below(n)
      BY <3>1 DEF Stretch
    <3>3. w > 0
      BY <1>8, <3>2
    <3>4. n - w = a
      <4> DEFINE k == n - w
      <4>1. Stretch(k, n) /\ k \in Int /\ a \in Int /\ n \in Int
        BY <1>1, <1>8, <2>2, <3>3
      <4> HIDE DEF k
      <4>2. k = a
        BY <3>1, <4>1, StretchOne
      <4> QED BY <4>2 DEF k
    <3>5. m = w
      BY <1>1, <1>8, <2>2, <2>3, <3>4
    <3> QED BY <1>9, <3>3, <3>5
  <2>4. CASE b # n
    <3>1. EndsBy(a, m, n)
      BY <1>1, <2>2, <2>4 DEF EndsBy
    <3>2. m \in Lengths(n)
      BY <2>2, <3>1 DEF Lengths
    <3> QED BY <1>9, <3>2
  <2> QED BY <2>3, <2>4
<1>11. ASSUME NEW m \in LengthsIn(Periods(curve)) PROVE m \in Spans
  <2>1. \E a, b \in Int : DipFrom(a, b) /\ m = b - a + 1
    <3>1. CASE m \in Lengths(n)
      <4>1. m \in Nat /\ \E a \in Nat : EndsBy(a, m, n)
        BY <3>1 DEF Lengths
      <4>2. PICK a \in Nat : EndsBy(a, m, n)
        BY <4>1
      <4> DEFINE b == a + m
                 k == a + 1
      <4>3. Stretch(a, b) /\ b + 1 <= n /\ ~Below(b + 1)
        BY <4>2 DEF EndsBy
      <4>4. b \in Int /\ k \in Int /\ m = b - k + 1 /\ k - 1 = a
        BY <4>1
      <4> HIDE DEF b, k
      <4>5. b <= n
        BY <1>1, <4>3, <4>4
      <4>6. DipFrom(k, b)
        BY <4>3, <4>4, <4>5 DEF DipFrom
      <4> QED BY <4>4, <4>6
    <3>2. CASE w > 0 /\ m = w
      <4> DEFINE a == n - w
                 k == a + 1
      <4>1. Stretch(a, n) /\ k \in Int /\ n \in Int /\ m = n - k + 1 /\ k - 1 = a
        BY <1>1, <1>8, <3>2
      <4> HIDE DEF a, k
      <4>2. DipFrom(k, n)
        BY <1>1, <4>1 DEF DipFrom
      <4> QED BY <4>1, <4>2
    <3>3. m \in Lengths(n) \/ (w > 0 /\ m = w)
      BY <1>9
    <3> QED BY <3>1, <3>2, <3>3
  <2>2. PICK a \in Int, b \in Int : DipFrom(a, b) /\ m = b - a + 1
    BY <2>1
  <2> DEFINE d == <<a, b>>
  <2>3. d \in Dips /\ d[1] = a /\ d[2] = b
    BY <2>2, DipFacts
  <2> HIDE DEF d
  <2> QED BY <2>2, <2>3
<1>12. LengthsIn(Periods(curve)) = Spans
  <2> HIDE DEF Spans
  <2> QED BY <1>10, <1>11
<1>13. LongestUnder(curve) = Greatest(LengthsIn(Periods(curve)))
  <2>1. Periods(curve) \in Seq(Nat)
    BY <1>7, <1>8, CountedFacts
  <2>2. DOMAIN Periods(curve) = 1..Len(Periods(curve))
    BY <2>1
  <2> QED BY <2>2 DEF LongestUnder, LengthsIn
<1> HIDE DEF Spans
<1>14. LongestUnder(curve) = Greatest(Spans)
  BY <1>12, <1>13
<1> QED BY <1>14 DEF Spans

-----------------------------------------------------------------------------
(* The curve as Research records it.                                       *)

\* What was shown of any curve, for the one recorded.
LEMMA CurveDips == CurveInv => DrawdownsAreDips
<1> SUFFICES ASSUME CurveInv, Len(curve) >= 2 PROVE DrawdownsAreDips
  BY DEF DrawdownsAreDips
<1> DEFINE n == Len(curve)
<1>1. Valued /\ n \in Nat /\ n >= 1 /\ curve # <<>>
  <2>1. curve \in Seq(Equities)
    BY DEF CurveInv
  <2>2. n \in Nat /\ curve \in [1..n -> Equities]
    BY <2>1
  <2>3. curve \in Seq(Int)
    <3>1. curve \in [1..n -> Int]
      BY <2>2, EquitiesAssumption
    <3> QED BY <2>2, <3>1
  <2>4. n >= 1 /\ curve # <<>>
    BY <2>2
  <2>5. curve[1] > 0
    BY <2>4 DEF CurveInv
  <2> QED BY <2>2, <2>3, <2>4, <2>5 DEF Valued
<1>2. ~(Drop(curve, Trough(curve)).loss > 0) \/ Below(Trough(curve))
  BY <1>1, TroughFacts, DropFacts
<1>3. AtLeast(Drop(curve, Trough(curve)), Threshold) /\ Drop(curve, Trough(curve)).loss > 0 =>
          \E d \in Drawdowns(curve) : d.trough = Trough(curve) /\ d.end = Recovery(curve)
  BY <1>1, <1>2, TroughIsListed
<1>4. Drop(curve, n) = [loss |-> peak - curve[n], of |-> peak]
  <2> DEFINE K == {curve[k] : k \in 1..n}
  <2>1. /\ \E k \in 1..n : peak = curve[k]
        /\ \A k \in 1..n : curve[k] <= peak
    BY <1>1 DEF CurveInv
  <2>2. \A k \in 1..n : curve[k] \in Int
    BY <1>1 DEF Valued
  <2>3. K \subseteq Int /\ peak \in K /\ \A y \in K : y <= peak
    BY <2>1, <2>2
  <2>4. Peak(curve, n) = Greatest(K)
    BY DEF Peak
  <2> HIDE DEF K
  <2>5. Peak(curve, n) = peak
    BY <2>3, <2>4, GreatestIs
  <2> QED BY <2>5 DEF Drop
<1>5. LongestUnder(curve) = Greatest({d[2] - d[1] + 1 : d \in Dips})
  BY <1>1, PeriodsAreDips
<1>6. /\ {[from |-> d[1] - 1, end |-> IF d[2] = Len(curve) THEN 0 ELSE d[2] + 1] :
              d \in {x \in Dips : \E i \in x[1]..x[2] : AtLeast(Drop(curve, i), Threshold)}}
         = {[from |-> d.from, end |-> d.end] : d \in Drawdowns(curve)}
      /\ \A d \in Drawdowns(curve) :
             d.trough \in Deepest(d.from + 1, IF d.end = 0 THEN Len(curve) ELSE d.end - 1)
  BY <1>1, ListIsDips
<1>7. /\ \A i, j \in DOMAIN curve :
             j <= i /\ curve[j] > 0 /\ curve[i] >= 0 =>
                 ~Deeper(Fall(j, i), Drop(curve, Trough(curve)))
      /\ Drop(curve, Trough(curve)) = Fall(Highest(curve, Trough(curve)), Trough(curve))
  BY <1>1, TroughIsWorst
<1> QED BY <1>3, <1>4, <1>5, <1>6, <1>7, Zenon DEF DrawdownsAreDips

LEMMA CurveStep == CurveInv /\ [Next]_vars => CurveInv'
<1> SUFFICES ASSUME CurveInv, [Next]_vars PROVE CurveInv'
  OBVIOUS
<1>1. NextCurve \/ UNCHANGED curveVars
  BY DEF Next, vars
<1>2. CASE UNCHANGED curveVars
  BY <1>2 DEF curveVars, CurveInv
<1>3. CASE NextCurve
  BY <1>3, RecordKeeps DEF NextCurve
<1> QED BY <1>1, <1>2, <1>3

\* For any equities, below zero too, and any threshold, on a curve of any length that
\* begins with a positive capital: the maximum drawdown is the worst fall to a record
\* not below zero, the drawdowns listed are the dips that reach the threshold, the
\* longest drawdown is the longest dip, the streaks are the longest runs of winners
\* and losers, and whatever a Monte Carlo simulation draws ends where the backtest
\* did, as a ruin if the backtest ended with a loss beyond the threshold.
THEOREM ScansAlwaysRight == Spec => []ScansAreRight
<1>1. Init => CurveInv
  BY CurveStart DEF Init
<1>2. CurveInv => ScansAreRight
  BY CurveDips, StreaksOk, CurveIsTheTrades DEF ScansAreRight, CurveInv
<1> QED BY <1>1, <1>2, CurveStep, PTL DEF Spec
=============================================================================
