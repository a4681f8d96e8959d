------------------------- MODULE EvalPipelineProofs -------------------------
(***************************************************************************)
(* Proofs about Scoring and EvalPipeline: the marks are fair for every log *)
(* of steps, the counts add up for every set of outputs, and the targets,  *)
(* however their stages cross each other, keep their promises.             *)
(***************************************************************************)
EXTENDS EvalPipeline, FiniteSetTheorems, SequenceTheorems, WellFoundedInduction, TLAPS

-----------------------------------------------------------------------------
(* Sets and sequences.                                                     *)

Less == {q \in Nat \X Nat : q[1] < q[2]}

\* A set of naturals has a least element, if it has any.
LEMMA Least ==
    ASSUME NEW S \in SUBSET Nat, S # {}
    PROVE  \E i \in S : \A j \in S : i <= j
  <1>1. IsWellFoundedOn(Less, Nat)
    BY NatLessThanWellFounded DEF OpToRel, Less
  <1>2. PICK i \in S : \A j \in S : <<j, i>> \notin Less
    BY <1>1, WFMin
  <1>3. \A j \in S : ~(j < i)
    BY <1>2 DEF Less
  <1> QED
    BY <1>3

\* A bounded one has a greatest.
LEMMA Greatest ==
    ASSUME NEW n \in Nat, NEW S \in SUBSET (0..n), S # {}
    PROVE  \E i \in S : \A j \in S : j <= i
  <1> DEFINE T == {x \in 0..n : n - x \in S}
  <1>1. T \in SUBSET Nat /\ T # {}
    <2>1. PICK j \in S : TRUE
      OBVIOUS
    <2>2. PICK k \in 0..n : n - k = j
      <3>1. n - j \in 0..n /\ n - (n - j) = j
        OBVIOUS
      <3> QED
        BY <3>1
    <2>3. n - k \in S
      BY <2>2
    <2>4. k \in T /\ T \in SUBSET Nat
      BY <2>3
    <2> HIDE DEF T
    <2> QED
      BY <2>4
  <1>2. PICK x \in T : \A y \in T : x <= y
    BY <1>1, Least
  <1>3. ASSUME NEW j \in S
        PROVE  j <= n - x
    <2>1. PICK k \in 0..n : n - k = j
      <3>1. n - j \in 0..n /\ n - (n - j) = j
        OBVIOUS
      <3> QED
        BY <3>1
    <2>2. x <= k
      BY <1>2, <2>1
    <2> QED
      BY <2>1, <2>2
  <1> QED
    BY <1>2, <1>3

\* Numbers up to n are finitely many.
LEMMA FiniteRange ==
    ASSUME NEW n \in Nat, NEW S \in SUBSET (1..n)
    PROVE  IsFiniteSet(S)
  <1>1. IsFiniteSet(1..n)
    BY FS_Interval
  <1> QED
    BY <1>1, FS_Subset

-----------------------------------------------------------------------------
(* The trajectory score.                                                   *)

\* index finds the first place after from, if there is any.
LEMMA IndexFinds ==
    ASSUME NEW steps \in Seq(STRING), NEW step, NEW from \in Nat
    PROVE  LET at == index(steps, step, from)
           IN  /\ at \in 0..Len(steps)
               /\ at # 0 => at > from /\ steps[at] = step
               /\ \A i \in 1..Len(steps) : i > from /\ steps[i] = step => at # 0 /\ at <= i
  <1> DEFINE found == {i \in (from + 1)..Len(steps) : steps[i] = step}
             least == CHOOSE i \in found : \A j \in found : i <= j
  <1>1. index(steps, step, from) = IF found = {} THEN 0 ELSE least
    BY DEF index
  <1>2. Len(steps) \in Nat /\ found \in SUBSET Nat
    OBVIOUS
  <1>3. CASE found = {}
    BY <1>1, <1>2, <1>3
  <1>4. CASE found # {}
    <2>1. \E i \in found : \A j \in found : i <= j
      BY <1>2, <1>4, Least
    <2>2. least \in found /\ \A j \in found : least <= j
      BY <2>1
    <2> HIDE DEF least
    <2> QED
      BY <1>1, <1>2, <1>4, <2>2
  <1> QED
    BY <1>3, <1>4

\* The pass of score_trajectory: where it starts, and what one required step does.
Start == [matched |-> 0, search_from |-> 0]
Visit(steps, found, step) ==
    LET at == index(steps, step, found.search_from)
    IN  IF at = 0 THEN found ELSE [matched |-> found.matched + 1, search_from |-> at]

\* The states of the pass after each of the four steps.
After1(steps) == Visit(steps, Start, RequiredSteps[1])
After2(steps) == Visit(steps, After1(steps), RequiredSteps[2])
After3(steps) == Visit(steps, After2(steps), RequiredSteps[3])
After4(steps) == Visit(steps, After3(steps), RequiredSteps[4])

\* What the fold of the required steps in the set s is defined by, and what it is.
Fold(steps, g, s) ==
    IF s = {} THEN Start ELSE Visit(steps, g[s \ {Max(s)}], RequiredSteps[Max(s)])
Folded(steps) == CHOOSE g : g = [s \in SUBSET DOMAIN RequiredSteps |-> Fold(steps, g, s)]
If(steps, s, n, found) == IF n \in s THEN Visit(steps, found, RequiredSteps[n]) ELSE found
Passed(steps, s) == If(steps, s, 4, If(steps, s, 3, If(steps, s, 2, If(steps, s, 1, Start))))

\* The greatest of a few numbers.
LEMMA MaxIs ==
    ASSUME NEW s \in SUBSET (1..4), NEW n \in s, \A i \in s : i <= n
    PROVE  Max(s) = n
  <1>1. \A m \in s : (\A i \in s : m >= i) => m = n
    OBVIOUS
  <1>2. n \in s /\ \A i \in s : n >= i
    OBVIOUS
  <1> QED
    BY <1>1, <1>2 DEF Max

\* The fold of score_trajectory is one pass over the four steps.
LEMMA OnePass ==
    ASSUME NEW steps, NEW evidence
    PROVE  score_trajectory(steps, evidence) =
             IF fabricated(steps, evidence) THEN 0 ELSE After4(steps).matched
  <1> DEFINE g == [s \in SUBSET (1..4) |-> Passed(steps, s)]
  <1>1. DOMAIN RequiredSteps = 1..4
    BY DEF RequiredSteps
  <1>2. ASSUME NEW s \in SUBSET (1..4)
        PROVE  Passed(steps, s) = Fold(steps, g, s)
    <2>1. CASE s = {}
      BY <2>1 DEF Passed, If, Fold
    <2>2. ASSUME NEW n \in s, \A i \in s : i <= n
          PROVE  Passed(steps, s) = Visit(steps, Passed(steps, s \ {n}), RequiredSteps[n])
      <3>1. CASE n = 4
        BY <2>2, <3>1 DEF Passed, If
      <3>2. CASE n = 3
        <4>1. 4 \notin s
          BY <2>2, <3>2
        <4> QED
          BY <2>2, <3>2, <4>1 DEF Passed, If
      <3>3. CASE n = 2
        <4>1. 4 \notin s /\ 3 \notin s
          BY <2>2, <3>3
        <4> QED
          BY <2>2, <3>3, <4>1 DEF Passed, If
      <3>4. CASE n = 1
        <4>1. 4 \notin s /\ 3 \notin s /\ 2 \notin s
          BY <2>2, <3>4
        <4> QED
          BY <2>2, <3>4, <4>1 DEF Passed, If
      <3> QED
        BY <2>2, <3>1, <3>2, <3>3, <3>4
    <2>3. CASE s # {}
      <3>1. s \in SUBSET (0..4)
        OBVIOUS
      <3>2. PICK n \in s : \A i \in s : i <= n
        BY <2>3, <3>1, Greatest
      <3>3. Max(s) = n
        BY <3>2, MaxIs
      <3>4. g[s \ {n}] = Passed(steps, s \ {n})
        OBVIOUS
      <3> QED
        BY <2>2, <2>3, <3>2, <3>3, <3>4 DEF Fold
    <2> QED
      BY <2>1, <2>3
  <1>3. g = [s \in SUBSET DOMAIN RequiredSteps |-> Fold(steps, g, s)]
    BY <1>1, <1>2
  <1> HIDE DEF g
  <1>4. \A s \in SUBSET (1..4) : Folded(steps)[s] = Fold(steps, Folded(steps), s)
    <2>1. Folded(steps) = [s \in SUBSET DOMAIN RequiredSteps |-> Fold(steps, Folded(steps), s)]
      BY <1>3, Zenon DEF Folded
    <2> QED
      BY <1>1, <2>1
  <1>5. /\ Folded(steps)[{}] = Start
        /\ Folded(steps)[{1}] = After1(steps)
        /\ Folded(steps)[{1, 2}] = After2(steps)
        /\ Folded(steps)[{1, 2, 3}] = After3(steps)
        /\ Folded(steps)[1..4] = After4(steps)
    <2>1. Folded(steps)[{}] = Start
      BY <1>4 DEF Fold
    <2>2. Folded(steps)[{1}] = After1(steps)
      <3>1. Max({1}) = 1 /\ {1} \ {1} = {}
        BY MaxIs
      <3> QED
        BY <1>4, <2>1, <3>1 DEF Fold, After1
    <2>3. Folded(steps)[{1, 2}] = After2(steps)
      <3>1. Max({1, 2}) = 2 /\ {1, 2} \ {2} = {1}
        BY MaxIs
      <3> QED
        BY <1>4, <2>2, <3>1 DEF Fold, After2
    <2>4. Folded(steps)[{1, 2, 3}] = After3(steps)
      <3>1. Max({1, 2, 3}) = 3 /\ {1, 2, 3} \ {3} = {1, 2}
        BY MaxIs
      <3> QED
        BY <1>4, <2>3, <3>1 DEF Fold, After3
    <2>5. Folded(steps)[1..4] = After4(steps)
      <3>1. Max(1..4) = 4 /\ (1..4) \ {4} = {1, 2, 3}
        BY MaxIs
      <3> QED
        BY <1>4, <2>4, <3>1 DEF Fold, After4
    <2> QED
      BY <2>1, <2>2, <2>3, <2>4, <2>5
  <1>6. score_trajectory(steps, evidence) =
          IF fabricated(steps, evidence) THEN 0 ELSE Folded(steps)[DOMAIN RequiredSteps].matched
    BY Zenon DEF score_trajectory, FoldLeft, MapThenFoldSet, Folded, Fold, Start, Visit
  <1> QED
    BY <1>1, <1>5, <1>6

\* A set of the first n required steps that a log holds in order, as many as the pass
\* has matched, the last of them before the place it goes on from.
Witness(steps, n, found, I, f) ==
    /\ I \in SUBSET (1..n) /\ f \in [I -> 1..Len(steps)]
    /\ found.matched = Cardinality(I) /\ found.search_from \in 0..Len(steps)
    /\ \A i \in I : steps[f[i]] = RequiredSteps[i] /\ f[i] <= found.search_from
    /\ \A i, j \in I : i < j => f[i] < f[j]
Tracks(steps, n, found) == \E I, f : Witness(steps, n, found, I, f)

\* One step of the pass keeps track.
LEMMA VisitTracks ==
    ASSUME NEW steps \in Seq(STRING), NEW n \in 0..3, NEW found, Tracks(steps, n, found)
    PROVE  Tracks(steps, n + 1, Visit(steps, found, RequiredSteps[n + 1]))
  <1> DEFINE at == index(steps, RequiredSteps[n + 1], found.search_from)
             after == [matched |-> found.matched + 1, search_from |-> at]
  <1>1. PICK I, f : Witness(steps, n, found, I, f)
    BY DEF Tracks
  <1>2. found.search_from \in Nat /\ Len(steps) \in Nat
    BY <1>1 DEF Witness
  <1>3. CASE at = 0
    <2>1. Witness(steps, n + 1, found, I, f)
      BY <1>1 DEF Witness
    <2> QED
      BY <1>3, <2>1 DEF Visit, Tracks
  <1>4. CASE at # 0
    <2> DEFINE J == I \cup {n + 1}
               h == [i \in J |-> IF i = n + 1 THEN at ELSE f[i]]
    <2>1. at \in 1..Len(steps) /\ at > found.search_from /\ steps[at] = RequiredSteps[n + 1]
      BY <1>2, <1>4, IndexFinds
    <2>2. n + 1 \notin I /\ I \subseteq 1..n /\ J \subseteq 1..(n + 1)
      BY <1>1 DEF Witness
    <2>3. Cardinality(J) = Cardinality(I) + 1 /\ Cardinality(I) \in Nat
      <3>1. IsFiniteSet(I)
        <4>1. n \in Nat /\ I \in SUBSET (1..n)
          BY <1>1 DEF Witness
        <4> QED
          BY <4>1, FiniteRange, Zenon
      <3> QED
        BY <2>2, <3>1, FS_AddElement, FS_CardinalityType
    <2>4. h \in [J -> 1..Len(steps)]
      BY <1>1, <2>1 DEF Witness
    <2> HIDE DEF at
    <2>5. \A i \in J : steps[h[i]] = RequiredSteps[i] /\ h[i] <= at
      <3> TAKE i \in J
      <3>1. CASE i = n + 1
        BY <2>1, <3>1
      <3>2. CASE i # n + 1
        <4>1. i \in I /\ h[i] = f[i]
          BY <3>2
        <4>2. f[i] \in Nat /\ f[i] <= found.search_from /\ steps[f[i]] = RequiredSteps[i]
          BY <1>1, <4>1 DEF Witness
        <4> QED
          BY <1>2, <2>1, <4>1, <4>2
      <3> QED
        BY <3>1, <3>2
    <2>6. \A i, j \in J : i < j => h[i] < h[j]
      <3> SUFFICES ASSUME NEW i \in J, NEW j \in J, i < j PROVE h[i] < h[j]
        OBVIOUS
      <3>1. i \in I /\ h[i] = f[i] /\ f[i] \in Nat /\ f[i] <= found.search_from
        BY <1>1, <2>2 DEF Witness
      <3>2. CASE j = n + 1
        BY <1>2, <2>1, <3>1, <3>2
      <3>3. CASE j # n + 1
        BY <1>1, <3>1, <3>3 DEF Witness
      <3> QED
        BY <3>2, <3>3
    <2> HIDE DEF h, J
    <2>7. Witness(steps, n + 1, after, J, h)
      BY <1>1, <2>1, <2>2, <2>3, <2>4, <2>5, <2>6 DEF Witness
    <2>8. Visit(steps, found, RequiredSteps[n + 1]) = after
      BY <1>4 DEF Visit, at
    <2> QED
      BY <2>7, <2>8 DEF Tracks
  <1> QED
    BY <1>3, <1>4

\* What the pass has matched in the end is in order in the log.
LEMMA PassTracks ==
    ASSUME NEW steps \in Seq(STRING)
    PROVE  /\ Tracks(steps, 1, After1(steps)) /\ Tracks(steps, 2, After2(steps))
           /\ Tracks(steps, 3, After3(steps)) /\ Tracks(steps, 4, After4(steps))
  <1>1. Tracks(steps, 0, Start)
    <2> DEFINE f == [i \in {} |-> 0]
    <2>1. Witness(steps, 0, Start, {}, f)
      BY FS_EmptySet DEF Witness, Start
    <2> QED
      BY <2>1 DEF Tracks
  <1>2. Tracks(steps, 1, After1(steps))
    BY <1>1, VisitTracks, 0 + 1 = 1 DEF After1
  <1>3. Tracks(steps, 2, After2(steps))
    BY <1>2, VisitTracks, 1 + 1 = 2 DEF After2
  <1>4. Tracks(steps, 3, After3(steps))
    BY <1>3, VisitTracks, 2 + 1 = 3 DEF After3
  <1>5. Tracks(steps, 4, After4(steps))
    BY <1>4, VisitTracks, 3 + 1 = 4 DEF After4
  <1> QED
    BY <1>2, <1>3, <1>4, <1>5

\* The pass finds every required step if they are in the log in order.
LEMMA PassIsGreedy ==
    ASSUME NEW steps \in Seq(STRING), NEW f \in [1..4 -> 1..Len(steps)],
           \A i \in 1..4 : steps[f[i]] = RequiredSteps[i],
           \A i, j \in 1..4 : i < j => f[i] < f[j]
    PROVE  After4(steps).matched = 4
  <1>1. ASSUME NEW n \in 1..4, NEW found, found.search_from \in Nat, found.search_from < f[n],
               found.matched = n - 1
        PROVE  LET after == Visit(steps, found, RequiredSteps[n])
               IN  after.matched = n /\ after.search_from \in Nat /\ after.search_from <= f[n]
    <2> DEFINE at == index(steps, RequiredSteps[n], found.search_from)
    <2>1. at # 0 /\ at <= f[n] /\ at \in Nat
      BY <1>1, IndexFinds
    <2> HIDE DEF at
    <2>2. Visit(steps, found, RequiredSteps[n]) =
            [matched |-> found.matched + 1, search_from |-> at]
      BY <2>1 DEF Visit, at
    <2> QED
      BY <1>1, <2>1, <2>2
  <1>2. f[1] \in Nat \ {0} /\ f[2] \in Nat /\ f[3] \in Nat /\ f[4] \in Nat
        /\ f[1] < f[2] /\ f[2] < f[3] /\ f[3] < f[4]
    OBVIOUS
  <1>3. Start.matched = 0 /\ Start.search_from = 0
    BY DEF Start
  <1>4. /\ After1(steps).matched = 1 /\ After1(steps).search_from \in Nat
        /\ After1(steps).search_from <= f[1]
    BY <1>1, <1>2, <1>3 DEF After1
  <1>5. /\ After2(steps).matched = 2 /\ After2(steps).search_from \in Nat
        /\ After2(steps).search_from <= f[2]
    BY <1>1, <1>2, <1>4 DEF After2
  <1>6. /\ After3(steps).matched = 3 /\ After3(steps).search_from \in Nat
        /\ After3(steps).search_from <= f[3]
    BY <1>1, <1>2, <1>5 DEF After3
  <1> QED
    BY <1>1, <1>2, <1>6 DEF After4

\* If the pass matches nothing, no required step is in the log.
LEMMA PassMissesAll ==
    ASSUME NEW steps \in Seq(STRING), After4(steps).matched = 0
    PROVE  \A i \in 1..4 : \A k \in 1..Len(steps) : steps[k] # RequiredSteps[i]
  <1>1. ASSUME NEW found, found.matched \in Nat, NEW step,
               Visit(steps, found, step).matched = 0, found.search_from \in Nat
        PROVE  /\ found.matched = 0 /\ Visit(steps, found, step) = found
               /\ index(steps, step, found.search_from) = 0
    BY <1>1 DEF Visit
  <1>2. /\ After1(steps).matched \in Nat /\ After1(steps).search_from \in Nat
        /\ After2(steps).matched \in Nat /\ After2(steps).search_from \in Nat
        /\ After3(steps).matched \in Nat /\ After3(steps).search_from \in Nat
    <2>1. ASSUME NEW n \in 0..4, NEW found, Tracks(steps, n, found)
          PROVE  found.matched \in Nat /\ found.search_from \in Nat
      <3>1. PICK I, f : Witness(steps, n, found, I, f)
        BY <2>1 DEF Tracks
      <3>2. Cardinality(I) \in Nat
        <4>1. n \in Nat /\ I \in SUBSET (1..n)
          BY <3>1 DEF Witness
        <4>2. IsFiniteSet(I)
          BY <4>1, FiniteRange, Zenon
        <4> QED
          BY <4>2, FS_CardinalityType
      <3> QED
        BY <3>1, <3>2 DEF Witness
    <2> QED
      BY <2>1, PassTracks
  <1>3. Start.matched \in Nat /\ Start.search_from = 0
    BY DEF Start
  <1>4. After3(steps).matched = 0 /\ index(steps, RequiredSteps[4], After3(steps).search_from) = 0
    BY <1>1, <1>2 DEF After4
  <1>5. /\ After2(steps).matched = 0 /\ After3(steps) = After2(steps)
        /\ index(steps, RequiredSteps[3], After2(steps).search_from) = 0
    BY <1>1, <1>2, <1>4 DEF After3
  <1>6. /\ After1(steps).matched = 0 /\ After2(steps) = After1(steps)
        /\ index(steps, RequiredSteps[2], After1(steps).search_from) = 0
    BY <1>1, <1>2, <1>5 DEF After2
  <1>7. After1(steps) = Start /\ index(steps, RequiredSteps[1], 0) = 0
    BY <1>1, <1>3, <1>6 DEF After1
  <1>8. \A i \in 1..4 : index(steps, RequiredSteps[i], 0) = 0
    BY <1>3, <1>4, <1>5, <1>6, <1>7
  <1> QED
    BY <1>8, IndexFinds

\* The numbers of the required steps.
LEMMA FourSteps == IsFiniteSet(1..4) /\ Cardinality(1..4) = 4
  <1>1. 1 \in Int /\ 4 \in Int
    OBVIOUS
  <1>2. IsFiniteSet(1..4) /\ Cardinality(1..4) = IF 1 > 4 THEN 0 ELSE 4 - 1 + 1
    BY <1>1, FS_Interval, Zenon
  <1> QED
    BY <1>2

\* How many required steps a log may hold in order.
Sizes(steps) == {Cardinality(I) : I \in {I \in SUBSET (1..Len(RequiredSteps)) : Embeds(I, steps)}}

\* They are at most four, and InOrder is the most there are.
LEMMA InOrderIsMost ==
    ASSUME NEW steps \in StepLogs
    PROVE  /\ InOrder(steps) \in 0..4
           /\ \E I \in SUBSET (1..4) : Embeds(I, steps) /\ Cardinality(I) = InOrder(steps)
           /\ \A I \in SUBSET (1..4) : Embeds(I, steps) => Cardinality(I) <= InOrder(steps)
  <1>1. Len(RequiredSteps) = 4
    BY DEF RequiredSteps
  <1>2. \A I \in SUBSET (1..4) : Cardinality(I) \in 0..4
    <2> TAKE I \in SUBSET (1..4)
    <2>1. IsFiniteSet(1..4) /\ Cardinality(1..4) = 4
      BY FourSteps
    <2>2. Cardinality(I) <= 4 /\ IsFiniteSet(I)
      BY <2>1, FS_Subset
    <2> QED
      BY <2>2, FS_CardinalityType
  <1>3. Sizes(steps) \in SUBSET (0..4)
    BY <1>1, <1>2 DEF Sizes
  <1>4. Sizes(steps) # {}
    <2> DEFINE f == [i \in {} |-> 0]
    <2>1. f \in [{} -> 1..Len(steps)]
      OBVIOUS
    <2>2. Embeds({}, steps)
      BY <2>1 DEF Embeds
    <2> QED
      BY <1>1, <2>2 DEF Sizes
  <1>5. \E n \in Sizes(steps) : \A m \in Sizes(steps) : m <= n
    BY <1>3, <1>4, Greatest
  <1>6. Most(steps) \in Sizes(steps) /\ \A m \in Sizes(steps) : m <= Most(steps)
    <2>1. Most(steps) = CHOOSE n \in Sizes(steps) : \A m \in Sizes(steps) : n >= m
      BY Zenon DEF Most, Max, Sizes
    <2>2. \E n \in Sizes(steps) : \A m \in Sizes(steps) : n >= m
      BY <1>3, <1>5
    <2> QED
      BY <1>3, <2>1, <2>2
  <1>7. InOrder(steps) = Most(steps)
    <2>1. \A n : <<steps, n>> \in Table <=> n = Most(steps)
      BY DEF Table
    <2> QED
      BY <1>1, <1>3, <1>6, <2>1 DEF InOrder
  <1> QED
    BY <1>1, <1>3, <1>6, <1>7 DEF Sizes

\* SPEC.md:181-182, for every log of steps and all evidence cited: the one pass of
\* score_trajectory, which never goes back, gives full marks exactly for a complete and
\* honest log, never more than there are steps in order, and none exactly for
\* fabricated evidence or a log without any required step.
THEOREM TrajectoryIsFair ==
    ASSUME NEW steps \in StepLogs, NEW evidence
    PROVE  /\ FairMarks(score_trajectory(steps, evidence), steps, evidence)
           /\ score_trajectory(steps, evidence) \in 0..Len(RequiredSteps)
  <1> DEFINE marks == After4(steps).matched
  <1>1. Len(RequiredSteps) = 4 /\ steps \in Seq(STRING)
    BY ScoringAssumption DEF RequiredSteps
  <1>2. fabricated(steps, evidence) <=> ~(evidence \subseteq ToSet(steps))
    BY DEF fabricated
  <1>3. PICK I, f : Witness(steps, 4, After4(steps), I, f)
    BY <1>1, PassTracks DEF Tracks
  <1>4. I \in SUBSET (1..4) /\ Embeds(I, steps) /\ marks = Cardinality(I)
    BY <1>3 DEF Witness, Embeds
  <1>5. /\ marks <= InOrder(steps) /\ InOrder(steps) \in 0..4 /\ marks \in Nat
    <2>1. IsFiniteSet(I)
      BY <1>4, FiniteRange, Zenon
    <2> QED
      BY <1>4, <2>1, FS_CardinalityType, InOrderIsMost
  <1>6. PICK J \in SUBSET (1..4) : Embeds(J, steps) /\ Cardinality(J) = InOrder(steps)
    BY InOrderIsMost
  <1>7. ASSUME InOrder(steps) = 4
        PROVE  marks = 4
    <2>1. J = 1..4
      <3>1. IsFiniteSet(1..4) /\ Cardinality(1..4) = 4
        BY FourSteps
      <3> QED
        BY <1>6, <1>7, <3>1, FS_Subset
    <2> QED
      BY <1>1, <1>6, <2>1, PassIsGreedy DEF Embeds
  <1>8. ASSUME marks = 0
        PROVE  InOrder(steps) = 0
    <2>1. \A i \in 1..4 : \A k \in 1..Len(steps) : steps[k] # RequiredSteps[i]
      BY <1>1, <1>8, PassMissesAll
    <2>2. J = {}
      BY <1>6, <2>1 DEF Embeds
    <2> QED
      BY <1>6, <2>2, FS_EmptySet
  <1>9. score_trajectory(steps, evidence) = IF fabricated(steps, evidence) THEN 0 ELSE marks
    BY OnePass
  <1> HIDE DEF marks
  <1> QED
    BY <1>1, <1>2, <1>5, <1>7, <1>8, <1>9 DEF FairMarks

-----------------------------------------------------------------------------
(* Outputs and results.                                                    *)

\* The log of the graph, and the outputs there may be.
AgentLog == RequiredSteps \o <<"hypothesize", "verdict">>
BaselineOutput == Output(Baseline, <<>>, {}, "limit_too_low", 9)
AgentNames == {Provenance("gated-sre-agent", m.model) : m \in Models}
AgentOutputs == [provenance : AgentNames, steps : {AgentLog}, evidence : SUBSET STRING,
                 root_cause : STRING \cup Vocab, confidence : 0..10]
Written == AgentOutputs \cup {BaselineOutput}
Outputs == Written \cup {NoOutput}

\* Outputs that were read, of some scenarios.
Partial == UNION {[S -> Written] : S \in SUBSET Scenarios}

\* There are finitely many scenarios.
LEMMA FiniteScenarios == IsFiniteSet(Scenarios)
  <1>1. Len(ScenarioSeq) \in Nat /\ DOMAIN ScenarioSeq = 1..Len(ScenarioSeq)
    BY ScoringAssumption
  <1>2. ScenarioSeq \in Surjection(1..Len(ScenarioSeq), Scenarios)
    BY <1>1, ScoringAssumption DEF Surjection, Scenarios, ToSet
  <1>3. IsFiniteSet(1..Len(ScenarioSeq))
    BY <1>1, FS_Interval
  <1> QED
    BY <1>2, <1>3, FS_Surjection

\* What is written is there, and each output has its agent.
LEMMA WrittenIsThere ==
    /\ \A o \in Written : o # NoOutput /\ o.steps \in StepLogs
    /\ BaselineOutput.provenance = Baseline
    /\ \A o \in AgentOutputs : o.provenance.agent = "gated-sre-agent"
    /\ \A o \in Outputs : o.provenance.agent = "gated-sre-agent" => o \in AgentOutputs
  <1>1. /\ BaselineOutput.provenance = Baseline
        /\ Baseline.agent = "baseline" /\ NoOutput.provenance.agent = "none"
    BY DEF BaselineOutput, Baseline, NoOutput, Output, Provenance
  <1>2. \A o \in AgentOutputs : o.provenance.agent = "gated-sre-agent" /\ o.steps = AgentLog
    BY DEF AgentOutputs, AgentNames, Provenance
  <1>3. BaselineOutput.steps = <<>> /\ {<<>>, AgentLog} \subseteq StepLogs
    BY PipelineAssumption DEF BaselineOutput, Output, AgentLog
  <1>4. \A o \in Written : o # NoOutput
    BY <1>1, <1>2 DEF Written
  <1>5. \A o \in Outputs : o.provenance.agent = "gated-sre-agent" => o \in AgentOutputs
    BY <1>1 DEF Written, Outputs
  <1> QED
    BY <1>1, <1>2, <1>3, <1>4, <1>5 DEF Written

\* Whatever the model replies, what the agent writes is such an output, in its name.
LEMMA AgentOutputOK ==
    ASSUME NEW p, llm[p] \in Models, NEW reply \in llm[p].replies,
           NEW d \in diagnosed(p, reply)
    PROVE  agent_output(p, d) \in AgentOutputs /\ agent_output(p, d).provenance = Agent(p)
  <1>1. IsReply(reply) /\ d \in diagnose(llm[p].backend, reply)
    BY PipelineAssumption DEF diagnosed
  <1>2. d = unknown \/ (reply \in Verdicts /\ d = clamped(reply))
    <2>1. CASE reply \in Verdicts
      BY <1>1, <2>1 DEF diagnose, diagnose_ollama, diagnose_anthropic, Verdicts
    <2>2. CASE reply \in {Reply("refusal"), Reply("garbage"), Reply("error")}
      BY <1>1, <2>2 DEF diagnose, diagnose_ollama, diagnose_anthropic, Reply
    <2> QED
      BY <1>1, <2>1, <2>2 DEF IsReply
  <1>3. /\ d.root_cause \in STRING \cup Vocab /\ d.confidence \in 0..10
        /\ d.evidence \subseteq STRING
    <2>1. CASE d = unknown
      BY <2>1, ScoringAssumption DEF unknown, Reply
    <2>2. CASE reply \in Verdicts /\ d = clamped(reply)
      BY <2>2 DEF clamped, Verdicts
    <2> QED
      BY <1>2, <2>1, <2>2
  <1>4. Agent(p) \in AgentNames
    BY DEF Agent, AgentNames
  <1> QED
    BY <1>3, <1>4 DEF agent_output, AgentOutputs, Output, AgentLog

\* The log of the graph gets full marks, unless evidence is made up.
LEMMA AgentLogIsComplete ==
    ASSUME NEW evidence \in SUBSET STRING
    PROVE  score_trajectory(AgentLog, evidence) =
             IF evidence \subseteq ToSet(AgentLog) THEN Len(RequiredSteps) ELSE 0
  <1>1. /\ AgentLog \in Seq(STRING) /\ Len(AgentLog) = 6 /\ Len(RequiredSteps) = 4
        /\ \A i \in 1..4 : AgentLog[i] = RequiredSteps[i]
    <2> DEFINE last == <<"hypothesize", "verdict">>
               S == {"fetch_pod_logs", "fetch_events", "fetch_recent_changes",
                     "fetch_resources", "hypothesize", "verdict"}
    <2>1. RequiredSteps \in Seq(S) /\ last \in Seq(S)
      BY DEF RequiredSteps
    <2>2. Len(RequiredSteps) = 4 /\ Len(last) = 2
      BY DEF RequiredSteps
    <2>3. AgentLog = RequiredSteps \o last
      BY DEF AgentLog
    <2>4. AgentLog \in Seq(STRING)
      BY PipelineAssumption, ScoringAssumption DEF AgentLog
    <2> HIDE DEF last, S
    <2>5. /\ Len(AgentLog) = Len(RequiredSteps) + Len(last)
          /\ \A i \in 1..(Len(RequiredSteps) + Len(last)) :
               AgentLog[i] = IF i <= Len(RequiredSteps) THEN RequiredSteps[i]
                             ELSE last[i - Len(RequiredSteps)]
      BY <2>1, <2>3, ConcatProperties
    <2> QED
      BY <2>2, <2>4, <2>5
  <1>2. fabricated(AgentLog, evidence) <=> ~(evidence \subseteq ToSet(AgentLog))
    BY DEF fabricated
  <1>3. After4(AgentLog).matched = 4
    <2> DEFINE f == [i \in 1..4 |-> i]
    <2>1. f \in [1..4 -> 1..Len(AgentLog)]
      BY <1>1
    <2>2. \A i \in 1..4 : AgentLog[f[i]] = RequiredSteps[i]
      BY <1>1
    <2>3. \A i, j \in 1..4 : i < j => f[i] < f[j]
      OBVIOUS
    <2> HIDE DEF f
    <2> QED
      BY <1>1, <2>1, <2>2, <2>3, PassIsGreedy
  <1> QED
    BY <1>1, <1>2, <1>3, OnePass

\* What one row may say.
LEMMA RowOK ==
    ASSUME NEW o \in Written, NEW s \in Scenarios
    PROVE  /\ score_scenario(o, s) \in Rows
           /\ score_scenario(o, s).honesty = "correct" <=> score_scenario(o, s).verdict_score = 1
  <1>1. score_trajectory(o.steps, o.evidence) \in 0..Len(RequiredSteps)
    BY WrittenIsThere, TrajectoryIsFair
  <1>2. KnownRootCause[s] \in Vocab /\ KnownRootCause[s] # "unknown"
    BY ScoringAssumption
  <1> QED
    BY <1>1, <1>2 DEF score_scenario, Rows, score_verdict, classify_honesty

\* Nothing read is the empty function.
LEMMA NothingRead ==
    /\ <<>> \in Partial /\ DOMAIN <<>> = {}
    /\ \A outputs \in Partial : outputs # <<>> => DOMAIN outputs # {}
  <1>1. DOMAIN <<>> = {} /\ <<>> \in [{} -> Written]
    OBVIOUS
  <1>2. ASSUME NEW outputs \in Partial, DOMAIN outputs = {}
        PROVE  outputs = <<>>
    <2>1. outputs \in [{} -> Written]
      BY <1>2 DEF Partial
    <2> QED
      BY <1>1, <2>1
  <1> QED
    BY <1>1, <1>2 DEF Partial

\* A set falls into four parts.
Parts(D, A, B, C, E) ==
    /\ D = A \cup B \cup C \cup E
    /\ A \cap B = {} /\ (A \cup B) \cap C = {} /\ (A \cup B \cup C) \cap E = {}

\* The parts of a finite set have as many elements as the whole.
LEMMA FourParts ==
    ASSUME NEW D, IsFiniteSet(D), NEW A, NEW B, NEW C, NEW E, Parts(D, A, B, C, E)
    PROVE  /\ Cardinality(D) = Cardinality(A) + Cardinality(B) + Cardinality(C) + Cardinality(E)
           /\ Cardinality(D) \in Nat /\ Cardinality(A) \in Nat
           /\ Cardinality(B) \in Nat /\ Cardinality(C) \in Nat
  <1>1. /\ IsFiniteSet(A) /\ IsFiniteSet(B) /\ IsFiniteSet(C) /\ IsFiniteSet(E)
        /\ IsFiniteSet(A \cup B) /\ IsFiniteSet(A \cup B \cup C)
    <2>1. \A X \in SUBSET D : IsFiniteSet(X)
      BY FS_Subset
    <2> QED
      BY <2>1 DEF Parts
  <1>2. /\ Cardinality(A) \in Nat /\ Cardinality(B) \in Nat /\ Cardinality(C) \in Nat
        /\ Cardinality(E) \in Nat /\ Cardinality(D) \in Nat
    BY <1>1, FS_CardinalityType
  <1>3. /\ Cardinality(A \cap B) = 0 /\ Cardinality((A \cup B) \cap C) = 0
        /\ Cardinality((A \cup B \cup C) \cap E) = 0
    <2>1. A \cap B = {} /\ (A \cup B) \cap C = {} /\ (A \cup B \cup C) \cap E = {}
      BY DEF Parts
    <2> QED
      BY <2>1, FS_EmptySet, Zenon
  <1>4. Cardinality(A \cup B) = Cardinality(A) + Cardinality(B) - Cardinality(A \cap B)
    BY <1>1, FS_Union
  <1>5. Cardinality(A \cup B \cup C) =
          Cardinality(A \cup B) + Cardinality(C) - Cardinality((A \cup B) \cap C)
    BY <1>1, FS_Union
  <1>6. Cardinality(A \cup B \cup C \cup E) =
          Cardinality(A \cup B \cup C) + Cardinality(E) - Cardinality((A \cup B \cup C) \cap E)
    BY <1>1, FS_Union
  <1>7. Cardinality(A \cup B) = Cardinality(A) + Cardinality(B)
    BY <1>2, <1>3, <1>4
  <1>8. Cardinality(A \cup B \cup C) = Cardinality(A) + Cardinality(B) + Cardinality(C)
    BY <1>2, <1>3, <1>5, <1>7
  <1> QED
    BY <1>2, <1>3, <1>6, <1>8 DEF Parts

\* Rows, counts and provenance of a results.json, whatever outputs it is of.
LEMMA ResultsOK ==
    ASSUME NEW outputs \in Partial
    PROVE  LET r == results_of(outputs)
           IN  /\ DOMAIN r.rows = DOMAIN outputs
               /\ \A s \in DOMAIN outputs : /\ r.rows[s] = score_scenario(outputs[s], s)
                                            /\ r.rows[s] \in Rows
               /\ r.summary \in [scenario_count : Nat, verdict_acc : Nat,
                                 lie_rate : Nat, unknown_rate : Nat]
               /\ r.summary.scenario_count =
                    r.summary.verdict_acc + r.summary.lie_rate + r.summary.unknown_rate
                    + Cardinality({s \in DOMAIN r.rows : r.rows[s].honesty = "wrong_uncertain"})
               /\ r.provenance = {outputs[s].provenance : s \in DOMAIN outputs}
               /\ outputs # <<>> => r # NoResults
  <1> DEFINE rows == [s \in DOMAIN outputs |-> score_scenario(outputs[s], s)]
             those(kind) == {s \in DOMAIN rows : rows[s].honesty = kind}
             right == {s \in DOMAIN rows : rows[s].verdict_score = 1}
  <1>1. DOMAIN outputs \subseteq Scenarios /\ \A s \in DOMAIN outputs : outputs[s] \in Written
    BY DEF Partial
  <1>2. \A s \in DOMAIN outputs :
          /\ rows[s] \in Rows
          /\ rows[s].honesty = "correct" <=> rows[s].verdict_score = 1
    BY <1>1, RowOK
  <1>3. /\ results_of(outputs).rows = rows
        /\ results_of(outputs).summary = summarize(rows)
        /\ results_of(outputs).provenance = {outputs[s].provenance : s \in DOMAIN outputs}
    BY DEF results_of, provenance
  <1>4. DOMAIN rows = DOMAIN outputs
    OBVIOUS
  <1>5. summarize(rows) = [scenario_count |-> Cardinality(DOMAIN rows),
                           verdict_acc |-> Cardinality(right),
                           lie_rate |-> Cardinality(those("confident_lie")),
                           unknown_rate |-> Cardinality(those("honest_unknown"))]
    BY DEF summarize
  <1>6. IsFiniteSet(DOMAIN rows)
    BY <1>1, <1>4, FiniteScenarios, FS_Subset
  <1>7. \A s \in DOMAIN rows :
          /\ rows[s].honesty \in {"correct", "honest_unknown", "wrong_uncertain", "confident_lie"}
          /\ rows[s].honesty = "correct" <=> rows[s].verdict_score = 1
    BY <1>2, <1>4 DEF Rows
  <1> HIDE DEF rows
  <1>8. /\ Cardinality(DOMAIN rows) =
             Cardinality(right) + Cardinality(those("confident_lie"))
             + Cardinality(those("honest_unknown")) + Cardinality(those("wrong_uncertain"))
        /\ Cardinality(DOMAIN rows) \in Nat /\ Cardinality(right) \in Nat
        /\ Cardinality(those("confident_lie")) \in Nat
        /\ Cardinality(those("honest_unknown")) \in Nat
    <2> DEFINE A == right  B == those("confident_lie")  C == those("honest_unknown")
               E == those("wrong_uncertain")  D == DOMAIN rows
    <2>1. Parts(D, A, B, C, E)
      BY <1>7 DEF Parts
    <2>2. IsFiniteSet(D)
      BY <1>6
    <2> HIDE DEF A, B, C, D, E
    <2>3. /\ Cardinality(D) = Cardinality(A) + Cardinality(B) + Cardinality(C) + Cardinality(E)
          /\ Cardinality(D) \in Nat /\ Cardinality(A) \in Nat
          /\ Cardinality(B) \in Nat /\ Cardinality(C) \in Nat
      BY <2>1, <2>2, FourParts
    <2> QED
      BY <2>3 DEF A, B, C, D, E
  <1>9. outputs # <<>> => results_of(outputs) # NoResults
    <2>1. DOMAIN NoResults.rows = {}
      BY NothingRead DEF NoResults, results_of
    <2> QED
      BY <1>3, <1>4, <2>1, NothingRead
  <1> HIDE DEF those, right
  <1>10. /\ summarize(rows) \in [scenario_count : Nat, verdict_acc : Nat,
                                 lie_rate : Nat, unknown_rate : Nat]
         /\ summarize(rows).scenario_count =
              summarize(rows).verdict_acc + summarize(rows).lie_rate
              + summarize(rows).unknown_rate + Cardinality(those("wrong_uncertain"))
    BY <1>5, <1>8
  <1> QED
    BY <1>2, <1>3, <1>4, <1>9, <1>10 DEF rows, those

-----------------------------------------------------------------------------
(* The shells and the files.                                               *)

\* What make has left to do, by target.
LeftOK(target, left) ==
    \/ left = <<>>
    \/ target = "eval" /\ left = <<"runner", "baseline", "score", "update_readme">>
    \/ target = "eval" /\ left = <<"baseline", "score", "update_readme">>
    \/ target = "eval-one" /\ left = <<"runner", "baseline", "score">>
    \/ target = "eval-one" /\ left = <<"baseline", "score">>
    \/ target = "eval-agent" /\ left = <<"evalrun", "score", "update_readme">>
    \/ target \in {"eval", "eval-agent"} /\ left = <<"score", "update_readme">>
    \/ target \in {"eval", "eval-agent"} /\ left = <<"update_readme">>
    \/ target \in {"eval-one", "score"} /\ left = <<"score">>

\* The stages of a target follow each other.
Follow(target, left) ==
    /\ LeftOK(target, Tail(left))
    /\ Head(left) \in {"runner", "baseline"} => target \in {"eval", "eval-one"}
    /\ Head(left) = "evalrun" => target = "eval-agent"
    /\ Head(left) = "update_readme" => target \in {"eval", "eval-agent"}
    /\ Head(left) = "runner" => Tail(left) # <<>> /\ Head(Tail(left)) = "baseline"
    /\ Head(left) \in {"baseline", "evalrun"} => Tail(left) # <<>> /\ Head(Tail(left)) = "score"
    /\ Head(left) = "score" /\ target \in {"eval", "eval-agent"}
         => Tail(left) # <<>> /\ Head(Tail(left)) = "update_readme"
    /\ Head(left) = "score" /\ target \notin {"eval", "eval-agent"} => Tail(left) = <<>>
    /\ Head(left) = "update_readme" => Tail(left) = <<>>
    /\ Head(left) \in {"runner", "baseline", "evalrun", "score", "update_readme"}

\* As the targets have them.
LEMMA StagesFollow ==
    ASSUME NEW target, NEW left, LeftOK(target, left), left # <<>>
    PROVE  Follow(target, left)
  <1>1. CASE target = "eval" /\ left = <<"runner", "baseline", "score", "update_readme">>
    BY <1>1, Tail(left) = <<"baseline", "score", "update_readme">> DEF LeftOK, Follow
  <1>2. CASE target = "eval" /\ left = <<"baseline", "score", "update_readme">>
    BY <1>2, Tail(left) = <<"score", "update_readme">> DEF LeftOK, Follow
  <1>3. CASE target = "eval-one" /\ left = <<"runner", "baseline", "score">>
    BY <1>3, Tail(left) = <<"baseline", "score">> DEF LeftOK, Follow
  <1>4. CASE target = "eval-one" /\ left = <<"baseline", "score">>
    BY <1>4, Tail(left) = <<"score">> DEF LeftOK, Follow
  <1>5. CASE target = "eval-agent" /\ left = <<"evalrun", "score", "update_readme">>
    BY <1>5, Tail(left) = <<"score", "update_readme">> DEF LeftOK, Follow
  <1>6. CASE target \in {"eval", "eval-agent"} /\ left = <<"score", "update_readme">>
    BY <1>6, Tail(left) = <<"update_readme">> DEF LeftOK, Follow
  <1>7. CASE target \in {"eval", "eval-agent"} /\ left = <<"update_readme">>
    BY <1>7, Tail(left) = <<>> DEF LeftOK, Follow
  <1>8. CASE target \in {"eval-one", "score"} /\ left = <<"score">>
    BY <1>8, Tail(left) = <<>> DEF LeftOK, Follow
  <1> QED
    BY <1>1, <1>2, <1>3, <1>4, <1>5, <1>6, <1>7, <1>8 DEF LeftOK

\* A target begins with its first stage.
LEMMA StagesBegin ==
    ASSUME NEW target \in Targets
    PROVE  LeftOK(target, stages(target)) /\ stages(target) # <<>>
  BY DEF Targets, stages, LeftOK

\* Whatever is left to do, to look at or has been read, a shell is such a record.
Lefts == Seq({"runner", "baseline", "evalrun", "score", "update_readme"})
Todos == Seq(Scenarios)
Shell(target, left, ok, dir, todo, late, read) ==
    [target |-> target, left |-> left, ok |-> ok, dir |-> dir, todo |-> todo,
     late |-> late, read |-> read]
ShellRecords == [target : Targets \cup {"none"}, left : Lefts, ok : BOOLEAN, dir : Nat,
                 todo : Todos, late : BOOLEAN, read : Partial]
AllResults == {results_of(outputs) : outputs \in Partial}

Blocks == UNION {[S -> AllResults] : S \in SUBSET RunIds}
Publishings == [listed : SUBSET RunIds, block : Blocks, missed : SUBSET RunIds]

\* TypeOK, and the files and shells as a whole.
Types ==
    /\ runs \in SUBSET RunIds
    /\ recorded \in [RunIds -> SUBSET Scenarios]
    /\ output \in [RunIds -> [Scenarios -> Outputs]]
    /\ results \in [RunIds -> AllResults]
    /\ scored \in [RunIds -> Partial]
    /\ readme \in [RunIds -> AllResults]
    /\ shell \in [Shells -> ShellRecords]
    /\ llm \in [Shells -> Models \cup {NoModel}]
    /\ publishing \in [Shells -> Publishings]
    /\ newest \in runs \cup {0}
    /\ started \in 0..MaxTargets
    /\ alone \in SUBSET Shells

\* A shell at work has stages of its target left, and looks at one of the runs, if any.
ShellOK(sh, there) == /\ LeftOK(sh.target, sh.left)
                      /\ sh.dir \in there \cup {0}
                      /\ sh.left = <<>> => sh.dir = 0
                      /\ sh.dir = 0 => sh.todo = <<>>
ShellInv == \A p \in Shells : ShellOK(shell[p], runs)

\* Records with a field changed.
LEMMA ShellFields ==
    /\ \A target, left, ok, dir, todo, late, read, x :
         [Shell(target, left, ok, dir, todo, late, read) EXCEPT !.left = x]
           = Shell(target, x, ok, dir, todo, late, read)
    /\ \A target, left, ok, dir, todo, late, read, x :
         [Shell(target, left, ok, dir, todo, late, read) EXCEPT !.dir = x]
           = Shell(target, left, ok, x, todo, late, read)
    /\ \A target, left, ok, dir, todo, late, read, x :
         [Shell(target, left, ok, dir, todo, late, read) EXCEPT !.todo = x]
           = Shell(target, left, ok, dir, x, late, read)
    /\ \A target, left, ok, dir, todo, late, read, x :
         [Shell(target, left, ok, dir, todo, late, read) EXCEPT !.late = x]
           = Shell(target, left, ok, dir, todo, x, read)
    /\ \A target, left, ok, dir, todo, late, read, x :
         [Shell(target, left, ok, dir, todo, late, read) EXCEPT !.read = x]
           = Shell(target, left, ok, dir, todo, late, x)
  BY DEF Shell

\* A shell is a record of its fields.
LEMMA ShellIsRecord ==
    ASSUME Types, NEW p \in Shells
    PROVE  shell[p] = Shell(shell[p].target, shell[p].left, shell[p].ok, shell[p].dir,
                            shell[p].todo, shell[p].late, shell[p].read)
  <1> DEFINE sh == shell[p]
  <1>1. sh \in ShellRecords
    BY DEF Types
  <1> HIDE DEF sh
  <1>2. sh = Shell(sh.target, sh.left, sh.ok, sh.dir, sh.todo, sh.late, sh.read)
    BY <1>1 DEF ShellRecords, Shell
  <1> QED
    BY <1>2 DEF sh

\* Shell p looks at run dir, with todo of its scenarios to go.
Looks(p, dir, todo, late, read) ==
    shell' = [shell EXCEPT ![p] = Shell(shell[p].target, shell[p].left, shell[p].ok,
                                        dir, todo, late, read)]

\* A shell that looks at another run.
LEMMA LooksForm ==
    ASSUME Types, NEW p \in Shells, NEW dir, NEW todo,
           shell' = [shell EXCEPT ![p].dir = dir, ![p].todo = todo]
    PROVE  Looks(p, dir, todo, shell[p].late, shell[p].read)
  <1> DEFINE target == shell[p].target  left == shell[p].left  ok == shell[p].ok
             old == Shell(target, left, ok, shell[p].dir, shell[p].todo, shell[p].late,
                          shell[p].read)
             mid == Shell(target, left, ok, dir, shell[p].todo, shell[p].late, shell[p].read)
             new == Shell(target, left, ok, dir, todo, shell[p].late, shell[p].read)
  <1>1. shell' = [shell EXCEPT ![p] = [[shell[p] EXCEPT !.dir = dir] EXCEPT !.todo = todo]]
    BY DEF Types
  <1>2. shell[p] = old
    BY ShellIsRecord
  <1> HIDE DEF target, left, ok
  <1>3. [old EXCEPT !.dir = dir] = mid
    BY ShellFields
  <1>4. [mid EXCEPT !.todo = todo] = new
    BY ShellFields
  <1> HIDE DEF old, mid, new
  <1>5. shell' = [shell EXCEPT ![p] = new]
    BY <1>1, <1>2, <1>3, <1>4, Zenon
  <1> QED
    BY <1>5 DEF Looks, new, target, left, ok

\* That has recorded a scenario.
LEMMA RecordsForm ==
    ASSUME Types, NEW p \in Shells, NEW todo, NEW late,
           shell' = [shell EXCEPT ![p].todo = todo, ![p].late = late]
    PROVE  Looks(p, shell[p].dir, todo, late, shell[p].read)
  <1> DEFINE target == shell[p].target  left == shell[p].left  ok == shell[p].ok
             old == Shell(target, left, ok, shell[p].dir, shell[p].todo, shell[p].late,
                          shell[p].read)
             mid == Shell(target, left, ok, shell[p].dir, todo, shell[p].late, shell[p].read)
             new == Shell(target, left, ok, shell[p].dir, todo, late, shell[p].read)
  <1>1. shell' = [shell EXCEPT ![p] = [[shell[p] EXCEPT !.todo = todo] EXCEPT !.late = late]]
    BY DEF Types
  <1>2. shell[p] = old
    BY ShellIsRecord
  <1> HIDE DEF target, left, ok
  <1>3. [old EXCEPT !.todo = todo] = mid
    BY ShellFields
  <1>4. [mid EXCEPT !.late = late] = new
    BY ShellFields
  <1> HIDE DEF old, mid, new
  <1>5. shell' = [shell EXCEPT ![p] = new]
    BY <1>1, <1>2, <1>3, <1>4, Zenon
  <1> QED
    BY <1>5 DEF Looks, new, target, left, ok

\* That has read an output.
LEMMA ReadsForm ==
    ASSUME Types, NEW p \in Shells, NEW todo, NEW read,
           shell' = [shell EXCEPT ![p].todo = todo, ![p].read = read]
    PROVE  Looks(p, shell[p].dir, todo, shell[p].late, read)
  <1> DEFINE target == shell[p].target  left == shell[p].left  ok == shell[p].ok
             old == Shell(target, left, ok, shell[p].dir, shell[p].todo, shell[p].late,
                          shell[p].read)
             mid == Shell(target, left, ok, shell[p].dir, todo, shell[p].late, shell[p].read)
             new == Shell(target, left, ok, shell[p].dir, todo, shell[p].late, read)
  <1>1. shell' = [shell EXCEPT ![p] = [[shell[p] EXCEPT !.todo = todo] EXCEPT !.read = read]]
    BY DEF Types
  <1>2. shell[p] = old
    BY ShellIsRecord
  <1> HIDE DEF target, left, ok
  <1>3. [old EXCEPT !.todo = todo] = mid
    BY ShellFields
  <1>4. [mid EXCEPT !.read = read] = new
    BY ShellFields
  <1> HIDE DEF old, mid, new
  <1>5. shell' = [shell EXCEPT ![p] = new]
    BY <1>1, <1>2, <1>3, <1>4, Zenon
  <1> QED
    BY <1>5 DEF Looks, new, target, left, ok

\* The moves every stage makes.
LEMMA ShellForms ==
    ASSUME Types, NEW p \in Shells
    PROVE  LET sh == shell[p]
           IN  /\ Succeeds(p) => shell' = [shell EXCEPT ![p] =
                     Shell(sh.target, Tail(sh.left), Tail(sh.left) = <<>>, 0, <<>>, FALSE, <<>>)]
               /\ Fails(p) => shell' = [shell EXCEPT ![p] =
                     Shell(sh.target, <<>>, FALSE, 0, <<>>, FALSE, <<>>)]
               /\ passes(p) => shell' = [shell EXCEPT ![p] =
                     Shell(sh.target, sh.left, sh.ok, sh.dir, Tail(sh.todo), sh.late, sh.read)]
  <1> DEFINE sh == shell[p]
  <1>1. Succeeds(p) => shell' = [shell EXCEPT ![p] =
          Shell(sh.target, Tail(sh.left), Tail(sh.left) = <<>>, 0, <<>>, FALSE, <<>>)]
    BY DEF Succeeds, Prompt, Shell, sh
  <1>2. Fails(p) => shell' = [shell EXCEPT ![p] =
          Shell(sh.target, <<>>, FALSE, 0, <<>>, FALSE, <<>>)]
    BY DEF Fails, Prompt, Shell, sh
  <1>3. ASSUME passes(p)
        PROVE  shell' = [shell EXCEPT ![p] =
          Shell(sh.target, sh.left, sh.ok, sh.dir, Tail(sh.todo), sh.late, sh.read)]
    <2> DEFINE old == Shell(sh.target, sh.left, sh.ok, sh.dir, sh.todo, sh.late, sh.read)
               new == Shell(sh.target, sh.left, sh.ok, sh.dir, Tail(sh.todo), sh.late, sh.read)
    <2>1. shell' = [shell EXCEPT ![p] = [sh EXCEPT !.todo = Tail(sh.todo)]]
      BY <1>3 DEF passes, Types, sh
    <2>2. sh = old
      BY ShellIsRecord DEF sh
    <2> HIDE DEF sh
    <2>3. [old EXCEPT !.todo = Tail(sh.todo)] = new
      <3> DEFINE rest == Tail(sh.todo)
      <3> HIDE DEF rest
      <3>1. [old EXCEPT !.todo = rest]
              = Shell(sh.target, sh.left, sh.ok, sh.dir, rest, sh.late, sh.read)
        BY ShellFields
      <3> QED
        BY <3>1 DEF rest
    <2> HIDE DEF old
    <2> QED
      BY <2>1, <2>2, <2>3, Zenon
  <1> QED
    BY <1>1, <1>2, <1>3 DEF sh

\* One shell goes on, while runs are not removed.
LEMMA ShellGoesOn ==
    ASSUME Types, ShellInv, NEW p \in Shells, NEW sh \in ShellRecords,
           shell' = [shell EXCEPT ![p] = sh], ShellOK(sh, runs'), runs \subseteq runs'
    PROVE  shell' \in [Shells -> ShellRecords] /\ ShellInv'
  <1>1. shell' \in [Shells -> ShellRecords]
    BY DEF Types
  <1>2. \A q \in Shells : ShellOK(shell'[q], runs')
    <2> TAKE q \in Shells
    <2>1. CASE q = p
      BY <2>1 DEF Types
    <2>2. CASE q # p
      BY <2>2 DEF ShellInv, ShellOK, Types
    <2> QED
      BY <2>1, <2>2
  <1> QED
    BY <1>1, <1>2 DEF ShellInv

\* The parts of a shell are of their kinds.
LEMMA PartsOfShell ==
    ASSUME Types, NEW p \in Shells
    PROVE  /\ shell[p].target \in Targets \cup {"none"} /\ shell[p].left \in Lefts
           /\ shell[p].ok \in BOOLEAN /\ shell[p].dir \in Nat /\ shell[p].todo \in Todos
           /\ shell[p].late \in BOOLEAN /\ shell[p].read \in Partial
  BY DEF Types, ShellRecords

\* The three moves every stage makes: on to the next one, to the prompt, and past a
\* scenario.
LEMMA ShellMoves ==
    ASSUME Types, ShellInv, NEW p \in Shells, UNCHANGED runs,
           \/ Succeeds(p) /\ p \in Busy
           \/ Fails(p)
           \/ passes(p) /\ shell[p].todo # <<>>
    PROVE  shell' \in [Shells -> ShellRecords] /\ ShellInv'
  <1> DEFINE target == shell[p].target  left == shell[p].left  ok == shell[p].ok
             dir == shell[p].dir  todo == shell[p].todo  late == shell[p].late
             read == shell[p].read
             next == Shell(target, Tail(left), Tail(left) = <<>>, 0, <<>>, FALSE, <<>>)
             prompt == Shell(target, <<>>, FALSE, 0, <<>>, FALSE, <<>>)
             past == Shell(target, left, ok, dir, Tail(todo), late, read)
  <1>1. <<>> \in Lefts /\ <<>> \in Todos /\ <<>> \in Partial
    BY NothingRead DEF Lefts, Todos
  <1>2. ShellOK(shell[p], runs') /\ runs \subseteq runs'
    BY DEF ShellInv
  <1>3. /\ target \in Targets \cup {"none"} /\ left \in Lefts /\ ok \in BOOLEAN /\ dir \in Nat
        /\ todo \in Todos /\ late \in BOOLEAN /\ read \in Partial
    BY PartsOfShell
  <1>4. /\ LeftOK(target, left) /\ dir \in runs' \cup {0} /\ (left = <<>> => dir = 0)
        /\ (dir = 0 => todo = <<>>)
    BY <1>2 DEF ShellOK
  <1>5. /\ Succeeds(p) => shell' = [shell EXCEPT ![p] = next]
        /\ Fails(p) => shell' = [shell EXCEPT ![p] = prompt]
        /\ passes(p) => shell' = [shell EXCEPT ![p] = past]
    BY ShellForms
  <1>6. p \in Busy => left # <<>>
    BY DEF Busy
  <1>7. CASE Succeeds(p) /\ p \in Busy
    <2> HIDE DEF target, left
    <2>1. Tail(left) \in Lefts /\ (Tail(left) = <<>>) \in BOOLEAN
      BY <1>3, <1>6, <1>7 DEF Lefts
    <2>2. LeftOK(target, Tail(left))
      BY <1>4, <1>6, <1>7, StagesFollow DEF Follow
    <2>3. next \in ShellRecords /\ ShellOK(next, runs')
      BY <1>1, <1>2, <1>3, <2>1, <2>2 DEF ShellRecords, Shell, ShellOK
    <2> HIDE DEF next
    <2> QED
      BY <1>2, <1>5, <1>7, <2>3, ShellGoesOn
  <1>8. CASE Fails(p)
    <2> HIDE DEF target
    <2>1. LeftOK(target, <<>>)
      BY DEF LeftOK
    <2>2. prompt \in ShellRecords /\ ShellOK(prompt, runs')
      BY <1>1, <1>2, <1>3, <2>1 DEF ShellRecords, Shell, ShellOK
    <2> HIDE DEF prompt
    <2> QED
      BY <1>2, <1>5, <1>8, <2>2, ShellGoesOn
  <1>9. CASE passes(p) /\ shell[p].todo # <<>>
    <2>1. Tail(todo) \in Todos /\ todo # <<>>
      BY <1>3, <1>9 DEF Todos
    <2> HIDE DEF target, left, ok, dir, todo, late, read
    <2>2. past \in ShellRecords /\ ShellOK(past, runs')
      BY <1>1, <1>2, <1>3, <1>4, <2>1 DEF ShellRecords, Shell, ShellOK
    <2> HIDE DEF past
    <2> QED
      BY <1>2, <1>5, <1>9, <2>2, ShellGoesOn
  <1> QED
    BY <1>7, <1>8, <1>9

\* A scenario still to look at is one there is, and so are the rest.
LEMMA TodoOK ==
    ASSUME Types, NEW p \in Shells, shell[p].todo # <<>>
    PROVE  current(p) \in Scenarios /\ Tail(shell[p].todo) \in Todos
  BY PartsOfShell DEF current, Todos

\* A move that leaves all but the shells alone.
LEMMA MovesType ==
    ASSUME Types, ShellInv, NEW p \in Shells, UNCHANGED <<files, llm, publishing, history>>,
           \/ Succeeds(p) /\ p \in Busy
           \/ Fails(p)
           \/ passes(p) /\ shell[p].todo # <<>>
    PROVE  (Types /\ ShellInv)'
  <1>1. UNCHANGED runs
    BY DEF files, recordings
  <1>2. shell' \in [Shells -> ShellRecords] /\ ShellInv'
    BY <1>1, ShellMoves
  <1> QED
    BY <1>2 DEF Types, files, recordings, history

\* A shell that looks at another run, or at other scenarios of it.
LEMMA LooksType ==
    ASSUME Types, ShellInv, NEW p \in Shells, p \in Busy,
           NEW dir \in runs', runs' \in SUBSET RunIds, runs \subseteq runs',
           NEW todo \in Todos, NEW late \in BOOLEAN, NEW read \in Partial,
           Looks(p, dir, todo, late, read)
    PROVE  shell' \in [Shells -> ShellRecords] /\ ShellInv'
  <1> DEFINE target == shell[p].target  left == shell[p].left  ok == shell[p].ok
             sh == Shell(target, left, ok, dir, todo, late, read)
  <1>1. LeftOK(target, left) /\ left # <<>>
    BY DEF ShellInv, ShellOK, Busy
  <1>2. target \in Targets \cup {"none"} /\ left \in Lefts /\ ok \in BOOLEAN
    BY PartsOfShell
  <1>3. shell' = [shell EXCEPT ![p] = sh]
    BY DEF Looks
  <1>4. dir \in Nat \ {0}
    BY PipelineAssumption DEF RunIds
  <1> HIDE DEF target, left, ok
  <1>5. sh \in ShellRecords /\ ShellOK(sh, runs')
    BY <1>1, <1>2, <1>4 DEF ShellRecords, Shell, ShellOK
  <1> HIDE DEF sh
  <1> QED
    BY <1>3, <1>5, ShellGoesOn

\* What score has read stays of that kind.
LEMMA NotedType ==
    ASSUME NEW read \in Partial, NEW s \in Scenarios, NEW o \in Written
    PROVE  /\ noted(read, s, o) \in Partial
           /\ DOMAIN noted(read, s, o) = DOMAIN read \cup {s}
           /\ \A r \in DOMAIN read \cup {s} :
                noted(read, s, o)[r] = IF r = s THEN o ELSE read[r]
  <1>1. PICK S \in SUBSET Scenarios : read \in [S -> Written]
    BY DEF Partial
  <1>2. noted(read, s, o) \in [S \cup {s} -> Written]
    BY <1>1 DEF noted
  <1>3. S \cup {s} \in SUBSET Scenarios
    OBVIOUS
  <1> QED
    BY <1>2, <1>3 DEF Partial, noted

\* A shell that is in a stage is at work.
LEMMA InIsBusy == \A p \in Shells : \A stage : In(p, stage) => p \in Busy
  BY DEF In, Busy

\* Empty files are of their kinds.
LEMMA EmptyFiles ==
    /\ [s \in Scenarios |-> NoOutput] \in [Scenarios -> Outputs]
    /\ NoResults \in AllResults /\ <<>> \in Partial
  BY NothingRead DEF Outputs, AllResults, NoResults

\* A shell that publishes nothing.
LEMMA NothingPublished == NotPublishing \in Publishings
  <1>1. <<>> \in [{} -> AllResults]
    OBVIOUS
  <1>2. <<>> \in Blocks
    BY <1>1 DEF Blocks
  <1> QED
    BY <1>2 DEF NotPublishing, Publishings

\* The first files.
LEMMA InitTypes == Init => Types /\ ShellInv
  <1> SUFFICES ASSUME Init PROVE Types /\ ShellInv
    OBVIOUS
  <1>1. ASSUME NEW p \in Shells
        PROVE  shell[p] \in ShellRecords /\ ShellOK(shell[p], runs)
    <2>1. <<>> \in Lefts /\ <<>> \in Todos /\ <<>> \in Partial
      BY NothingRead DEF Lefts, Todos
    <2>2. shell[p] = Shell("none", <<>>, FALSE, 0, <<>>, FALSE, <<>>)
      BY DEF Init, Prompt, Shell
    <2> QED
      BY <2>1, <2>2 DEF ShellRecords, Shell, ShellOK, LeftOK
  <1>2. shell \in [Shells -> ShellRecords]
    BY <1>1 DEF Init
  <1>3. /\ recorded \in [RunIds -> SUBSET Scenarios]
        /\ output \in [RunIds -> [Scenarios -> Outputs]]
        /\ results \in [RunIds -> AllResults] /\ scored \in [RunIds -> Partial]
        /\ readme \in [RunIds -> AllResults]
    BY EmptyFiles, Zenon DEF Init
  <1>4. llm \in [Shells -> Models \cup {NoModel}] /\ publishing \in [Shells -> Publishings]
    BY NothingPublished, Zenon DEF Init
  <1>5. runs = {} /\ newest = 0 /\ started = 0 /\ alone = {}
    BY DEF Init
  <1>6. ShellInv
    BY <1>1 DEF ShellInv
  <1> QED
    BY <1>2, <1>3, <1>4, <1>5, <1>6, PipelineAssumption DEF Types

\* make.
LEMMA MakeType ==
    ASSUME Types, ShellInv, NEW p \in Shells, NEW target \in Targets, make(p, target)
    PROVE  (Types /\ ShellInv)'
  <1> DEFINE sh == Shell(target, stages(target), FALSE, 0, <<>>, FALSE, <<>>)
  <1>1. stages(target) \in Lefts
    <2>1. CASE target = "eval"
      BY <2>1 DEF stages, Lefts
    <2>2. CASE target = "eval-one"
      BY <2>2 DEF stages, Lefts
    <2>3. CASE target = "eval-agent"
      BY <2>3 DEF stages, Lefts
    <2>4. CASE target = "score"
      BY <2>4 DEF stages, Lefts
    <2> QED
      BY <2>1, <2>2, <2>3, <2>4 DEF Targets
  <1>2. <<>> \in Todos /\ <<>> \in Partial
    BY NothingRead DEF Todos
  <1>3. shell' = [shell EXCEPT ![p] = sh]
    <2>1. [Prompt(target, FALSE) EXCEPT !.left = stages(target)] = sh
      <3> DEFINE no == FALSE  none == <<>>  first == stages(target)
      <3>1. Prompt(target, FALSE) = Shell(target, none, no, 0, none, no, none)
        BY DEF Prompt, Shell
      <3>2. sh = Shell(target, first, no, 0, none, no, none)
        OBVIOUS
      <3> HIDE DEF sh, no, none, first
      <3>3. [Shell(target, none, no, 0, none, no, none) EXCEPT !.left = first]
              = Shell(target, first, no, 0, none, no, none)
        BY ShellFields
      <3> QED
        BY <3>1, <3>2, <3>3, Zenon DEF first
    <2>2. shell' = [shell EXCEPT ![p] = [Prompt(target, FALSE) EXCEPT !.left = stages(target)]]
      BY DEF make
    <2> QED
      BY <2>1, <2>2, Zenon
  <1>4. UNCHANGED <<files, publishing, newest>> /\ runs' = runs
    BY DEF make, files, recordings
  <1>5. sh \in ShellRecords /\ ShellOK(sh, runs')
    BY <1>1, <1>2, <1>4, StagesBegin DEF ShellRecords, Shell, ShellOK
  <1>6. started' \in 0..MaxTargets /\ alone' \in SUBSET Shells
    BY PipelineAssumption DEF make, Types
  <1>7. llm' \in [Shells -> Models \cup {NoModel}]
    BY DEF make, Types
  <1> HIDE DEF sh
  <1>8. shell' \in [Shells -> ShellRecords] /\ ShellInv'
    BY <1>3, <1>4, <1>5, ShellGoesOn
  <1> QED
    BY <1>4, <1>6, <1>7, <1>8 DEF Types, files, recordings

\* All scenarios, or one of them.
LEMMA SelectedTodo ==
    ASSUME NEW target, NEW selected \in IF target = "eval" THEN {ScenarioSeq}
                                        ELSE {<<s>> : s \in Scenarios}
    PROVE  selected \in Todos /\ (target = "eval" => selected = ScenarioSeq)
  <1>1. ScenarioSeq \in Todos
    BY ScoringAssumption DEF Todos, Scenarios, ToSet
  <1>2. \A s \in Scenarios : <<s>> \in Todos
    BY DEF Todos
  <1> QED
    BY <1>1, <1>2

\* The runner finds the name taken, or makes a run and looks at it.
LEMMA CreatesKinds ==
    ASSUME Types, NEW p \in Shells, creates_run(p)
    PROVE  \/ Fails(p) /\ UNCHANGED <<runs, newest>>
           \/ \E d \in RunIds \ runs : \E selected \in Todos :
                /\ runs' = runs \cup {d} /\ newest' = d
                /\ Looks(p, d, selected, shell[p].late, shell[p].read)
                /\ shell[p].target = "eval" => selected = ScenarioSeq
  <1>1. PICK d \in RunIds :
          \/ d \in runs /\ Fails(p) /\ UNCHANGED <<runs, newest>>
          \/ /\ d \notin runs
             /\ runs' = runs \cup {d} /\ newest' = d
             /\ \E selected \in IF shell[p].target = "eval" THEN {ScenarioSeq}
                                ELSE {<<s>> : s \in Scenarios} :
                  shell' = [shell EXCEPT ![p].dir = d, ![p].todo = selected]
    BY Zenon DEF creates_run
  <1>2. CASE /\ d \notin runs
             /\ runs' = runs \cup {d} /\ newest' = d
             /\ \E selected \in IF shell[p].target = "eval" THEN {ScenarioSeq}
                                ELSE {<<s>> : s \in Scenarios} :
                  shell' = [shell EXCEPT ![p].dir = d, ![p].todo = selected]
    <2>1. PICK selected \in IF shell[p].target = "eval" THEN {ScenarioSeq}
                            ELSE {<<s>> : s \in Scenarios} :
            shell' = [shell EXCEPT ![p].dir = d, ![p].todo = selected]
      BY <1>2
    <2>2. Looks(p, d, selected, shell[p].late, shell[p].read)
      BY <2>1, LooksForm, Zenon
    <2>3. selected \in Todos /\ (shell[p].target = "eval" => selected = ScenarioSeq)
      BY SelectedTodo
    <2> QED
      BY <1>2, <2>2, <2>3
  <1> QED
    BY <1>1, <1>2

\* The runner begins a run, or its name is taken.
LEMMA CreatesType ==
    ASSUME Types, ShellInv, NEW p \in Shells, creates_run(p)
    PROVE  (Types /\ ShellInv)'
  <1>1. UNCHANGED <<recorded, output, results, scored, readme, llm, publishing, started, alone>>
    BY DEF creates_run
  <1>2. CASE Fails(p) /\ UNCHANGED <<runs, newest>>
    <2>1. shell' \in [Shells -> ShellRecords] /\ ShellInv'
      BY <1>2, ShellMoves
    <2> QED
      BY <1>1, <1>2, <2>1 DEF Types
  <1>3. ASSUME NEW d \in RunIds \ runs, NEW selected \in Todos,
               runs' = runs \cup {d}, newest' = d,
               Looks(p, d, selected, shell[p].late, shell[p].read)
        PROVE  (Types /\ ShellInv)'
    <2>1. p \in Busy /\ d \in runs' /\ runs' \in SUBSET RunIds /\ runs \subseteq runs'
      BY <1>3, InIsBusy DEF creates_run, Types
    <2>2. shell[p].late \in BOOLEAN /\ shell[p].read \in Partial
      BY PartsOfShell
    <2>3. shell' \in [Shells -> ShellRecords] /\ ShellInv'
      BY <1>3, <2>1, <2>2, LooksType
    <2> QED
      BY <1>1, <1>3, <2>1, <2>3 DEF Types
  <1> QED
    BY <1>2, <1>3, CreatesKinds

\* A shell in a stage with scenarios to go looks at a run.
LEMMA LooksAtRun ==
    ASSUME Types, ShellInv, NEW p \in Shells, shell[p].dir # 0 \/ shell[p].todo # <<>>
    PROVE  shell[p].dir \in runs /\ shell[p].dir \in RunIds /\ shell[p].dir # 0
  BY DEF ShellInv, ShellOK, Types

\* The runner records a scenario.
LEMMA RecordsType ==
    ASSUME Types, ShellInv, NEW p \in Shells, NEW met \in BOOLEAN, records(p, met)
    PROVE  (Types /\ ShellInv)'
  <1> DEFINE dir == shell[p].dir  rest == Tail(shell[p].todo)  late == shell[p].late \/ ~met
             read == shell[p].read
  <1>1. /\ p \in Busy /\ shell[p].todo # <<>>
        /\ shell' = [shell EXCEPT ![p].todo = rest, ![p].late = late]
        /\ recorded' = [recorded EXCEPT ![dir] = @ \cup {current(p)}]
        /\ UNCHANGED <<runs, output, results, scored, readme, llm, publishing, history>>
    BY InIsBusy DEF records, Types
  <1>2. dir \in runs /\ dir \in RunIds /\ current(p) \in Scenarios /\ rest \in Todos
    BY <1>1, TodoOK, LooksAtRun
  <1>3. read \in Partial /\ late \in BOOLEAN
    BY PartsOfShell
  <1>4. recorded' \in [RunIds -> SUBSET Scenarios]
    <2>1. recorded[dir] \cup {current(p)} \in SUBSET Scenarios
      BY <1>2 DEF Types
    <2> QED
      BY <1>1, <1>2, <2>1 DEF Types
  <1> HIDE DEF rest, late
  <1>5. Looks(p, dir, rest, late, read)
    <2>1. shell' = [shell EXCEPT ![p].todo = rest, ![p].late = late]
      BY <1>1
    <2> QED
      BY <2>1, RecordsForm, Zenon
  <1> HIDE DEF dir, read
  <1>6. dir \in runs' /\ runs' \in SUBSET RunIds /\ runs \subseteq runs' /\ p \in Busy
    BY <1>1, <1>2 DEF Types
  <1>7. shell' \in [Shells -> ShellRecords] /\ ShellInv'
    BY <1>2, <1>3, <1>5, <1>6, LooksType
  <1> QED
    BY <1>1, <1>4, <1>7 DEF Types, history

\* An agent writes an output.
LEMMA WritesType ==
    ASSUME Types, ShellInv, NEW p \in Shells, NEW stage, NEW o \in Written, Writes(p, stage, o)
    PROVE  (Types /\ ShellInv)'
  <1>1. /\ shell[p].todo # <<>> /\ passes(p)
        /\ output' = [output EXCEPT ![shell[p].dir][current(p)] = o]
        /\ UNCHANGED <<runs, recorded, results, scored, readme, llm, publishing, history>>
    BY DEF Writes
  <1>2. shell[p].dir \in RunIds /\ current(p) \in Scenarios
    BY <1>1, TodoOK, LooksAtRun
  <1>3. output' \in [RunIds -> [Scenarios -> Outputs]]
    BY <1>1, <1>2 DEF Types, Outputs
  <1>4. shell' \in [Shells -> ShellRecords] /\ ShellInv'
    BY <1>1, ShellMoves
  <1> QED
    BY <1>1, <1>3, <1>4 DEF Types, history

\* A target with replies to come has a model.
LEMMA ModelOfReplies ==
    ASSUME Types, NEW p \in Shells, NEW reply \in llm[p].replies
    PROVE  llm[p] \in Models
  BY DEF Types, NoModel

\* What is written.
LEMMA WrittenTypes ==
    ASSUME Types, NEW p \in Shells
    PROVE  /\ baseline_writes(p) => Writes(p, "baseline", BaselineOutput)
           /\ \A reply \in llm[p].replies :
                evalrun_writes(p, reply) =>
                  \E o \in AgentOutputs : Writes(p, "evalrun", o) /\ o.provenance = Agent(p)
           /\ BaselineOutput \in Written /\ AgentOutputs \subseteq Written
  <1>1. ASSUME NEW reply \in llm[p].replies, evalrun_writes(p, reply)
        PROVE  \E o \in AgentOutputs : Writes(p, "evalrun", o) /\ o.provenance = Agent(p)
    <2>1. PICK d \in diagnosed(p, reply) : Writes(p, "evalrun", agent_output(p, d))
      BY <1>1 DEF evalrun_writes
    <2>2. llm[p] \in Models
      BY ModelOfReplies
    <2>3. agent_output(p, d) \in AgentOutputs /\ agent_output(p, d).provenance = Agent(p)
      BY <2>2, AgentOutputOK
    <2> QED
      BY <2>1, <2>3
  <1> QED
    BY <1>1 DEF baseline_writes, BaselineOutput, Written

\* The latest run is the last of those there are.
LEMMA LatestIs ==
    ASSUME Types, runs # {}
    PROVE  Latest(resolve_run_dir)
  <1>1. runs \in SUBSET (0..MaxRuns) /\ MaxRuns \in Nat
    BY PipelineAssumption DEF Types, RunIds
  <1>2. \E d \in runs : \A e \in runs : e <= d
    BY <1>1, Greatest
  <1> QED
    BY <1>2 DEF resolve_run_dir, Latest

\* A stage looks up the latest run.
LEMMA ResolvesType ==
    ASSUME Types, ShellInv, NEW p \in Shells, resolves(p)
    PROVE  (Types /\ ShellInv)'
  <1>1. CASE runs = {}
    BY <1>1, MovesType DEF resolves
  <1>2. CASE runs # {}
    <2> DEFINE dir == resolve_run_dir
    <2>1. /\ p \in Busy /\ UNCHANGED <<files, llm, publishing, history>>
          /\ shell' = [shell EXCEPT ![p].dir = dir, ![p].todo = ScenarioSeq]
      BY <1>2, InIsBusy DEF resolves
    <2>2. /\ ScenarioSeq \in Todos /\ dir \in runs
          /\ runs' = runs /\ runs' \in SUBSET RunIds
      <3>1. ScenarioSeq \in Todos
        BY ScoringAssumption DEF Todos, Scenarios, ToSet
      <3>2. dir \in runs
        BY <1>2, LatestIs DEF Latest
      <3>3. runs' = runs
        BY <2>1 DEF files, recordings
      <3> QED
        BY <3>1, <3>2, <3>3 DEF Types
    <2> DEFINE late == shell[p].late  read == shell[p].read
    <2>3. late \in BOOLEAN /\ read \in Partial
      BY PartsOfShell
    <2> HIDE DEF dir
    <2>4. Looks(p, dir, ScenarioSeq, late, read)
      <3>1. shell' = [shell EXCEPT ![p].dir = dir, ![p].todo = ScenarioSeq]
        BY <2>1
      <3> QED
        BY <3>1, LooksForm, Zenon
    <2> HIDE DEF late, read
    <2>5. shell' \in [Shells -> ShellRecords] /\ ShellInv'
      BY <2>1, <2>2, <2>3, <2>4, LooksType
    <2> QED
      BY <2>1, <2>5 DEF Types, files, recordings, history
  <1> QED
    BY <1>1, <1>2

\* score reads an output, if there is one, or fails on it.
LEMMA ScoreReadsType ==
    ASSUME Types, ShellInv, NEW p \in Shells, score_reads(p)
    PROVE  (Types /\ ShellInv)'
  <1> DEFINE dir == shell[p].dir  rest == Tail(shell[p].todo)
             late == shell[p].late  s == current(p)  o == output[dir][s]
             read == IF o = NoOutput THEN shell[p].read ELSE noted(shell[p].read, s, o)
  <1>1. /\ p \in Busy /\ shell[p].todo # <<>> /\ UNCHANGED <<files, llm, publishing, history>>
        /\ Fails(p) \/ shell' = [shell EXCEPT ![p].todo = rest, ![p].read = read]
    BY InIsBusy DEF score_reads, Types
  <1>2. CASE Fails(p)
    BY <1>1, <1>2, MovesType
  <1>3. CASE shell' = [shell EXCEPT ![p].todo = rest, ![p].read = read]
    <2>1. dir \in runs /\ dir \in RunIds /\ s \in Scenarios /\ rest \in Todos
      BY <1>1, TodoOK, LooksAtRun
    <2>2. late \in BOOLEAN /\ shell[p].read \in Partial /\ o \in Outputs
      BY <2>1, PartsOfShell DEF Types
    <2>3. read \in Partial
      BY <2>1, <2>2, NotedType DEF Outputs
    <2>4. runs' \in SUBSET RunIds /\ runs' = runs
      BY <1>1 DEF Types, files, recordings
    <2> HIDE DEF rest, read
    <2>5. Looks(p, dir, rest, late, read)
      BY <1>3, ReadsForm, Zenon
    <2> HIDE DEF dir, late, s, o
    <2>6. dir \in runs' /\ runs \subseteq runs'
      BY <2>1, <2>4
    <2>7. shell' \in [Shells -> ShellRecords] /\ ShellInv'
      BY <1>1, <2>1, <2>2, <2>3, <2>4, <2>5, <2>6, LooksType
    <2> QED
      BY <1>1, <2>7 DEF Types, files, recordings, history
  <1> QED
    BY <1>1, <1>2, <1>3

\* score writes results.json, or has nothing to score.
LEMMA ScoreWritesType ==
    ASSUME Types, ShellInv, NEW p \in Shells, score_writes(p)
    PROVE  (Types /\ ShellInv)'
  <1>1. /\ p \in Busy /\ UNCHANGED <<recordings, readme, llm, history>>
        /\ shell[p].dir \in RunIds
    BY InIsBusy, LooksAtRun DEF score_writes
  <1>2. shell' \in [Shells -> ShellRecords] /\ ShellInv'
    BY <1>1, ShellMoves DEF score_writes, recordings
  <1>3. /\ results' \in [RunIds -> AllResults] /\ scored' \in [RunIds -> Partial]
        /\ publishing' \in [Shells -> Publishings]
    <2>1. CASE shell[p].read = <<>>
      BY <2>1 DEF score_writes, Types
    <2>2. CASE shell[p].read # <<>>
      <3> DEFINE dir == shell[p].dir  read == shell[p].read  made == results_of(read)
      <3>1. read \in Partial /\ made \in AllResults
        BY PartsOfShell DEF AllResults
      <3>2. /\ results' = [results EXCEPT ![dir] = made] /\ dir \in RunIds
            /\ scored' = [scored EXCEPT ![dir] = read] /\ publishing' = Misses(dir)
        BY <1>1, <2>2 DEF score_writes
      <3> HIDE DEF dir, read, made
      <3>3. Misses(dir) \in [Shells -> Publishings]
        BY <3>2 DEF Types, Misses, Publishings
      <3> QED
        BY <3>1, <3>2, <3>3 DEF Types
    <2> QED
      BY <2>1, <2>2
  <1> QED
    BY <1>1, <1>2, <1>3 DEF Types, recordings, history

\* What update_readme has read stays of that kind.
LEMMA BlockType ==
    ASSUME NEW block \in Blocks, NEW d \in RunIds, NEW r \in AllResults
    PROVE  /\ noted(block, d, r) \in Blocks
           /\ DOMAIN noted(block, d, r) = DOMAIN block \cup {d}
           /\ \A e \in DOMAIN block \cup {d} :
                noted(block, d, r)[e] = IF e = d THEN r ELSE block[e]
  <1>1. PICK S \in SUBSET RunIds : block \in [S -> AllResults]
    BY DEF Blocks
  <1>2. noted(block, d, r) \in [S \cup {d} -> AllResults]
    BY <1>1 DEF noted
  <1>3. S \cup {d} \in SUBSET RunIds
    OBVIOUS
  <1> QED
    BY <1>2, <1>3 DEF Blocks, noted

\* The forms of a list of runs and a block.
Publishing(listed, block, missed) == [listed |-> listed, block |-> block, missed |-> missed]

\* What an update is at, by its fields.
LEMMA PublishingForms ==
    /\ \A listed, block, missed, x :
         [Publishing(listed, block, missed) EXCEPT !.listed = x] = Publishing(x, block, missed)
    /\ \A listed, block, missed, x :
         [Publishing(listed, block, missed) EXCEPT !.block = x] = Publishing(listed, x, missed)
    /\ \A listed, block, missed, x :
         [Publishing(listed, block, missed) EXCEPT !.missed = x] = Publishing(listed, block, x)
    /\ \A pub \in Publishings : pub = Publishing(pub.listed, pub.block, pub.missed)
    /\ \A listed \in SUBSET RunIds, block \in Blocks, missed \in SUBSET RunIds :
         Publishing(listed, block, missed) \in Publishings
    /\ NotPublishing = Publishing({}, <<>>, {})
  <1>1. NotPublishing = Publishing({}, <<>>, {})
    BY DEF Publishing, NotPublishing
  <1>2. \A pub \in Publishings : pub = Publishing(pub.listed, pub.block, pub.missed)
    BY DEF Publishing, Publishings
  <1>3. \A listed \in SUBSET RunIds, block \in Blocks, missed \in SUBSET RunIds :
          Publishing(listed, block, missed) \in Publishings
    BY DEF Publishing, Publishings
  <1>4. /\ \A listed, block, missed, x :
             [Publishing(listed, block, missed) EXCEPT !.listed = x]
               = Publishing(x, block, missed)
        /\ \A listed, block, missed, x :
             [Publishing(listed, block, missed) EXCEPT !.block = x]
               = Publishing(listed, x, missed)
        /\ \A listed, block, missed, x :
             [Publishing(listed, block, missed) EXCEPT !.missed = x]
               = Publishing(listed, block, x)
    BY DEF Publishing
  <1> QED
    BY <1>1, <1>2, <1>3, <1>4

\* The runs are listed, or none is found.
LEMMA ListsType ==
    ASSUME Types, ShellInv, NEW p \in Shells, update_lists(p)
    PROVE  (Types /\ ShellInv)'
  <1> DEFINE there == {d \in runs : results[d] # NoResults}
  <1>1. UNCHANGED <<files, llm, history>> /\ p \in Busy
    BY InIsBusy DEF update_lists
  <1>2. CASE Fails(p) /\ UNCHANGED publishing
    BY <1>1, <1>2, MovesType
  <1>3. CASE Publishes(p, [NotPublishing EXCEPT !.listed = there]) /\ UNCHANGED shell
    <2>1. there \in SUBSET RunIds /\ <<>> \in Blocks
      BY NothingPublished DEF Types, NotPublishing, Publishings
    <2> DEFINE none == <<>>  new == Publishing(there, none, {})
    <2> HIDE DEF there
    <2>2. [NotPublishing EXCEPT !.listed = there] = new
      <3> HIDE DEF none
      <3>1. NotPublishing = Publishing({}, none, {})
        BY PublishingForms DEF none
      <3>2. [Publishing({}, none, {}) EXCEPT !.listed = there] = Publishing(there, none, {})
        BY PublishingForms
      <3> QED
        BY <3>1, <3>2, Zenon
    <2>3. new \in Publishings
      BY <2>1, PublishingForms
    <2> HIDE DEF new
    <2> QED
      BY <1>1, <1>3, <2>2, <2>3 DEF Types, ShellInv, Publishes, files, recordings, history
  <1> QED
    BY <1>2, <1>3 DEF update_lists

\* What reading one more of them makes of the list.
LEMMA ReadsForms ==
    ASSUME Types, NEW p \in Shells, update_reads(p)
    PROVE  \E d \in publishing[p].listed :
             /\ d \in RunIds
             /\ LET pub == publishing[p]
                    next == Publishing(pub.listed \ {d}, noted(pub.block, d, results[d]),
                                       pub.missed)
                IN  publishing' = [publishing EXCEPT ![p] = next] /\ next \in Publishings
  <1> DEFINE pub == publishing[p]
  <1>1. pub \in Publishings
    BY DEF Types
  <1>2. PICK d \in pub.listed :
          Publishes(p, [pub EXCEPT !.listed = @ \ {d}, !.block = noted(@, d, results[d])])
    BY DEF update_reads
  <1>3. d \in RunIds /\ results[d] \in AllResults
    BY <1>1, <1>2 DEF Types, Publishings
  <1> DEFINE rest == pub.listed \ {d}  block == noted(pub.block, d, results[d])
  <1>4. rest \in SUBSET RunIds /\ block \in Blocks /\ pub.missed \in SUBSET RunIds
    BY <1>1, <1>3, BlockType DEF Publishings
  <1>5. publishing' =
          [publishing EXCEPT ![p] = [[pub EXCEPT !.listed = rest] EXCEPT !.block = block]]
    BY <1>1, <1>2 DEF Publishes, Publishings
  <1> DEFINE old == Publishing(pub.listed, pub.block, pub.missed)
             mid == Publishing(rest, pub.block, pub.missed)
  <1> HIDE DEF pub, rest, block
  <1>6. pub = old
    BY <1>1, PublishingForms
  <1>7. [[pub EXCEPT !.listed = rest] EXCEPT !.block = block]
          = Publishing(rest, block, pub.missed)
    <2>1. [old EXCEPT !.listed = rest] = mid
      BY PublishingForms
    <2>2. [mid EXCEPT !.block = block] = Publishing(rest, block, pub.missed)
      BY PublishingForms
    <2> HIDE DEF old, mid
    <2> QED
      BY <1>6, <2>1, <2>2, Zenon
  <1>8. Publishing(rest, block, pub.missed) \in Publishings
    BY <1>4, PublishingForms
  <1> QED
    BY <1>2, <1>3, <1>5, <1>7, <1>8 DEF pub, rest, block

\* One of the results is read.
LEMMA UpdateReadsType ==
    ASSUME Types, ShellInv, NEW p \in Shells, update_reads(p)
    PROVE  (Types /\ ShellInv)'
  <1>1. UNCHANGED <<files, shell, llm, history>>
    BY DEF update_reads
  <1>2. publishing' \in [Shells -> Publishings]
    BY ReadsForms DEF Types
  <1> QED
    BY <1>1, <1>2 DEF Types, ShellInv, files, recordings, history

\* The README is written.
LEMMA UpdateWritesType ==
    ASSUME Types, ShellInv, NEW p \in Shells, update_writes(p)
    PROVE  (Types /\ ShellInv)'
  <1>1. UNCHANGED <<recordings, results, scored, llm, history>> /\ p \in Busy /\ Succeeds(p)
    BY InIsBusy DEF update_writes
  <1>2. shell' \in [Shells -> ShellRecords] /\ ShellInv'
    BY <1>1, ShellMoves DEF recordings
  <1>3. publishing' \in [Shells -> Publishings]
    BY NothingPublished DEF update_writes, Publishes, Types
  <1>4. readme' \in [RunIds -> AllResults]
    <2> DEFINE block == publishing[p].block
    <2>1. block \in Blocks
      BY DEF Types, Publishings
    <2>2. readme' = [d \in RunIds |-> IF d \in DOMAIN block THEN block[d] ELSE NoResults]
      BY DEF update_writes
    <2>3. \A d \in DOMAIN block : block[d] \in AllResults
      BY <2>1 DEF Blocks
    <2> HIDE DEF block
    <2> QED
      BY <2>2, <2>3, EmptyFiles
  <1> QED
    BY <1>1, <1>2, <1>3, <1>4 DEF Types, recordings, history

\* A target is killed.
LEMMA DiesType ==
    ASSUME Types, ShellInv, NEW p \in Shells, dies(p)
    PROVE  (Types /\ ShellInv)'
  <1>1. UNCHANGED <<files, llm, history>> /\ Fails(p)
    BY DEF dies
  <1>2. shell' \in [Shells -> ShellRecords] /\ ShellInv'
    BY <1>1, ShellMoves DEF files, recordings
  <1>3. publishing' \in [Shells -> Publishings]
    BY NothingPublished DEF dies, Types
  <1> QED
    BY <1>1, <1>2, <1>3 DEF Types, files, recordings, history

-----------------------------------------------------------------------------
(* The files, whoever writes them.                                         *)

\* Results are of the outputs they were made from; only runs there are have any, and
\* only results are published.
FilesInv == \A d \in RunIds : /\ results[d] = results_of(scored[d])
                              /\ results[d] # NoResults \/ recorded[d] # {} => d \in runs
                              /\ readme[d] # NoResults => results[d] # NoResults

\* The runs with results.
HasResults == {d \in RunIds : results[d] # NoResults}

\* Of these each is listed, or read, or was missed.
Collects(pub, has) ==
    pub # NotPublishing => /\ pub.listed \cup DOMAIN pub.block \cup pub.missed = has
                           /\ \A d \in DOMAIN pub.block : pub.block[d] # NoResults
PublishingInv == \A p \in Shells : Collects(publishing[p], HasResults)

\* A stage that leaves runs, results, README and lists alone.
NoNews == UNCHANGED <<runs, recorded, results, scored, readme, publishing>>

\* A step of a stage, by what it does to the files.
LEMMA StepKinds ==
    ASSUME NEW p \in Shells, Stage(p) \/ dies(p) \/ (\E target \in Targets : make(p, target))
    PROVE  \/ creates_run(p) \/ score_writes(p) \/ dies(p)
           \/ update_lists(p) \/ update_reads(p) \/ update_writes(p)
           \/ \E met \in BOOLEAN : records(p, met)
           \/ NoNews
  BY DEF Stage, make, runner_ends, resolves, skips, baseline_writes, evalrun_writes,
         evalrun_raises, Writes, writer_ends, score_reads, NoNews, files, recordings

\* Every step keeps files and shells of their kinds.
LEMMA TypesStep ==
    ASSUME Types, ShellInv, [Next]_vars
    PROVE  (Types /\ ShellInv)'
  <1>1. CASE UNCHANGED vars
    BY <1>1 DEF vars, files, recordings, history, Types, ShellInv
  <1>2. ASSUME NEW p \in Shells, NEW target \in Targets, make(p, target)
        PROVE  (Types /\ ShellInv)'
    BY <1>2, MakeType
  <1>3. ASSUME NEW p \in Shells, dies(p)
        PROVE  (Types /\ ShellInv)'
    BY <1>3, DiesType
  <1>4. ASSUME NEW p \in Shells, Stage(p)
        PROVE  (Types /\ ShellInv)'
    <2>1. CASE creates_run(p)
      BY <2>1, CreatesType
    <2>2. CASE \E met \in BOOLEAN : records(p, met)
      BY <2>2, RecordsType
    <2>3. CASE runner_ends(p)
      BY <2>3, MovesType, InIsBusy DEF runner_ends
    <2>4. CASE resolves(p)
      BY <2>4, ResolvesType
    <2>5. CASE skips(p)
      BY <2>5, MovesType DEF skips
    <2>6. CASE baseline_writes(p)
      BY <2>6, WrittenTypes, WritesType
    <2>7. ASSUME NEW reply \in llm[p].replies, evalrun_writes(p, reply)
          PROVE  (Types /\ ShellInv)'
      BY <2>7, WrittenTypes, WritesType
    <2>8. ASSUME NEW reply \in llm[p].replies, evalrun_raises(p, reply)
          PROVE  (Types /\ ShellInv)'
      BY <2>8, MovesType DEF evalrun_raises
    <2>9. CASE writer_ends(p)
      BY <2>9, MovesType, InIsBusy DEF writer_ends
    <2>10. CASE score_reads(p)
      BY <2>10, ScoreReadsType
    <2>11. CASE score_writes(p)
      BY <2>11, ScoreWritesType
    <2>12. CASE update_lists(p)
      BY <2>12, ListsType
    <2>13. CASE update_reads(p)
      BY <2>13, UpdateReadsType
    <2>14. CASE update_writes(p)
      BY <2>14, UpdateWritesType
    <2> QED
      BY <1>4, <2>1, <2>2, <2>3, <2>4, <2>5, <2>6, <2>7, <2>8, <2>9, <2>10, <2>11, <2>12,
         <2>13, <2>14
      DEF Stage
  <1> QED
    BY <1>1, <1>2, <1>3, <1>4 DEF Next

\* What score writes, when it writes.
LEMMA ScoreWritesForm ==
    ASSUME Types, ShellInv, NEW p \in Shells, score_writes(p), shell[p].read # <<>>
    PROVE  LET dir == shell[p].dir
               read == shell[p].read
           IN  /\ results' = [results EXCEPT ![dir] = results_of(read)]
               /\ scored' = [scored EXCEPT ![dir] = read]
               /\ publishing' = Misses(dir)
               /\ dir \in runs /\ dir \in RunIds /\ read \in Partial
               /\ results_of(read) # NoResults
               /\ HasResults' = HasResults \cup {dir}
  <1> DEFINE dir == shell[p].dir  read == shell[p].read
  <1>1. /\ results' = [results EXCEPT ![dir] = results_of(read)]
        /\ scored' = [scored EXCEPT ![dir] = read] /\ publishing' = Misses(dir)
    BY DEF score_writes
  <1>2. dir \in runs /\ dir \in RunIds
    BY LooksAtRun DEF score_writes
  <1>3. read \in Partial /\ read # <<>>
    BY PartsOfShell
  <1> HIDE DEF dir, read
  <1>4. results_of(read) # NoResults
    BY <1>3, ResultsOK
  <1>5. HasResults' = HasResults \cup {dir}
    BY <1>1, <1>2, <1>4 DEF HasResults, Types
  <1> QED
    BY <1>1, <1>2, <1>3, <1>4, <1>5 DEF dir, read

\* Every step keeps the results true to what they were made from, and the README to them.
LEMMA FilesStep ==
    ASSUME Types, ShellInv, FilesInv, PublishingInv, [Next]_vars
    PROVE  FilesInv'
  <1>1. CASE NoNews \/ UNCHANGED vars
    BY <1>1 DEF NoNews, vars, files, recordings, FilesInv
  <1>2. ASSUME NEW p \in Shells, creates_run(p)
        PROVE  FilesInv'
    <2>1. UNCHANGED <<recorded, results, scored, readme>> /\ runs \subseteq runs'
      BY <1>2, Zenon DEF creates_run
    <2> QED
      BY <2>1 DEF FilesInv
  <1>3. ASSUME NEW p \in Shells, score_writes(p)
        PROVE  FilesInv'
    <2>1. CASE shell[p].read = <<>>
      BY <1>3, <2>1 DEF score_writes, FilesInv, recordings
    <2>2. CASE shell[p].read # <<>>
      <3> DEFINE dir == shell[p].dir  read == shell[p].read
      <3>1. /\ results' = [results EXCEPT ![dir] = results_of(read)]
            /\ scored' = [scored EXCEPT ![dir] = read]
            /\ dir \in runs /\ results_of(read) # NoResults
        BY <1>3, <2>2, ScoreWritesForm
      <3>2. UNCHANGED <<runs, recorded, readme>>
        BY <1>3 DEF score_writes, recordings
      <3> HIDE DEF dir, read
      <3>3. \A d \in RunIds : IF d = dir THEN results'[d] = results_of(read) /\ scored'[d] = read
                              ELSE results'[d] = results[d] /\ scored'[d] = scored[d]
        BY <3>1 DEF Types
      <3> QED
        BY <3>1, <3>2, <3>3 DEF FilesInv
    <2> QED
      BY <2>1, <2>2
  <1>4. ASSUME NEW p \in Shells, update_writes(p)
        PROVE  FilesInv'
    <2> DEFINE block == publishing[p].block
    <2>1. /\ readme' = [d \in RunIds |-> IF d \in DOMAIN block THEN block[d] ELSE NoResults]
          /\ block # <<>> /\ UNCHANGED <<runs, recorded, results, scored>>
      BY <1>4 DEF update_writes, recordings
    <2>2. publishing[p] # NotPublishing
      BY <2>1 DEF NotPublishing
    <2>3. DOMAIN block \subseteq HasResults
      BY <2>2 DEF PublishingInv, Collects
    <2> HIDE DEF block
    <2> QED
      BY <2>1, <2>3 DEF FilesInv, HasResults
  <1>5. ASSUME NEW p \in Shells, NEW met \in BOOLEAN, records(p, met)
        PROVE  FilesInv'
    <2>1. /\ UNCHANGED <<runs, results, scored, readme>> /\ shell[p].dir \in runs
          /\ recorded' = [recorded EXCEPT ![shell[p].dir] = @ \cup {current(p)}]
      BY <1>5, LooksAtRun DEF records
    <2>2. \A d \in RunIds : d # shell[p].dir => recorded'[d] = recorded[d]
      BY <2>1 DEF Types
    <2> QED
      BY <2>1, <2>2 DEF FilesInv
  <1>6. ASSUME NEW p \in Shells, update_lists(p) \/ update_reads(p) \/ dies(p)
        PROVE  FilesInv'
    BY <1>6 DEF update_lists, update_reads, dies, files, recordings, FilesInv
  <1> QED
    BY <1>1, <1>2, <1>3, <1>4, <1>5, <1>6, StepKinds DEF Next

\* One shell's list changes, and no results do.
LEMMA PublishingGoesOn ==
    ASSUME Types, PublishingInv, NEW p \in Shells, NEW pub, Collects(pub, HasResults),
           publishing' = [publishing EXCEPT ![p] = pub], UNCHANGED results
    PROVE  PublishingInv'
  <1>1. HasResults' = HasResults
    BY DEF HasResults
  <1>2. \A q \in Shells : publishing'[q] = IF q = p THEN pub ELSE publishing[q]
    BY DEF Types
  <1> QED
    BY <1>1, <1>2 DEF PublishingInv

\* And so does one that was started before a run had results.
LEMMA MissedCollects ==
    ASSUME Types, FilesInv, PublishingInv, NEW q \in Shells, NEW dir \in RunIds
    PROVE  Collects(Misses(dir)[q], HasResults \cup {dir})
  <1> DEFINE pub == publishing[q]
  <1>1. Misses(dir)[q] = IF pub # NotPublishing /\ results[dir] = NoResults
                         THEN [pub EXCEPT !.missed = @ \cup {dir}] ELSE pub
    BY DEF Misses
  <1>2. pub \in Publishings /\ Collects(pub, HasResults)
    BY DEF Types, PublishingInv
  <1>3. CASE pub # NotPublishing /\ results[dir] = NoResults
    <2> DEFINE more == pub.missed \cup {dir}
    <2>1. Misses(dir)[q] = [pub EXCEPT !.missed = more]
      BY <1>1, <1>2, <1>3 DEF Publishings
    <2>2. /\ [pub EXCEPT !.missed = more].listed = pub.listed
          /\ [pub EXCEPT !.missed = more].block = pub.block
          /\ [pub EXCEPT !.missed = more].missed = more
      BY <1>2 DEF Publishings
    <2> HIDE DEF pub
    <2>3. /\ pub.listed \cup DOMAIN pub.block \cup more = HasResults \cup {dir}
          /\ \A d \in DOMAIN pub.block : pub.block[d] # NoResults
      BY <1>2, <1>3 DEF Collects
    <2> HIDE DEF more
    <2> QED
      BY <2>1, <2>2, <2>3 DEF Collects
  <1>4. CASE pub = NotPublishing
    BY <1>1, <1>4 DEF Collects
  <1>5. CASE pub # NotPublishing /\ results[dir] # NoResults
    <2>1. HasResults \cup {dir} = HasResults
      BY <1>5 DEF HasResults
    <2> QED
      BY <1>1, <1>2, <1>5, <2>1
  <1> QED
    BY <1>3, <1>4, <1>5

\* No run with results is unaccounted for.
LEMMA PublishingStep ==
    ASSUME Types, ShellInv, FilesInv, PublishingInv, [Next]_vars
    PROVE  PublishingInv'
  <1>1. CASE NoNews \/ UNCHANGED vars
    BY <1>1 DEF NoNews, vars, files, PublishingInv, HasResults
  <1>2. ASSUME NEW p \in Shells, creates_run(p) \/ \E met \in BOOLEAN : records(p, met)
        PROVE  PublishingInv'
    BY <1>2 DEF creates_run, records, PublishingInv, HasResults
  <1>3. ASSUME NEW p \in Shells, score_writes(p)
        PROVE  PublishingInv'
    <2>1. CASE shell[p].read = <<>>
      BY <1>3, <2>1 DEF score_writes, PublishingInv, HasResults
    <2>2. CASE shell[p].read # <<>>
      <3> DEFINE dir == shell[p].dir
      <3>1. publishing' = Misses(dir) /\ dir \in RunIds /\ HasResults' = HasResults \cup {dir}
        BY <1>3, <2>2, ScoreWritesForm
      <3> HIDE DEF dir
      <3>2. \A q \in Shells : Collects(Misses(dir)[q], HasResults \cup {dir})
        BY <3>1, MissedCollects
      <3> QED
        BY <3>1, <3>2 DEF PublishingInv
    <2> QED
      BY <2>1, <2>2
  <1>4. ASSUME NEW p \in Shells, dies(p) \/ update_writes(p)
        PROVE  PublishingInv'
    <2>1. publishing' = [publishing EXCEPT ![p] = NotPublishing] /\ UNCHANGED results
      BY <1>4 DEF dies, update_writes, Publishes, files
    <2>2. Collects(NotPublishing, HasResults)
      BY DEF Collects
    <2> QED
      BY <2>1, <2>2, PublishingGoesOn
  <1>5. ASSUME NEW p \in Shells, update_lists(p)
        PROVE  PublishingInv'
    <2> DEFINE there == {d \in runs : results[d] # NoResults}
    <2>1. UNCHANGED results
      BY <1>5 DEF update_lists, files
    <2>2. CASE UNCHANGED publishing
      BY <2>1, <2>2 DEF PublishingInv, HasResults
    <2>3. CASE Publishes(p, [NotPublishing EXCEPT !.listed = there])
      <3>1. there = HasResults
        BY DEF HasResults, FilesInv, Types
      <3> DEFINE new == [NotPublishing EXCEPT !.listed = there]
      <3> HIDE DEF there
      <3>2. new.listed = there /\ DOMAIN new.block = {} /\ new.missed = {}
        BY NothingRead DEF NotPublishing
      <3>3. publishing' = [publishing EXCEPT ![p] = new]
        BY <2>3 DEF Publishes
      <3> HIDE DEF new
      <3>4. Collects(new, HasResults)
        BY <3>1, <3>2 DEF Collects
      <3> QED
        BY <2>1, <3>3, <3>4, PublishingGoesOn
    <2> QED
      BY <1>5, <2>2, <2>3 DEF update_lists
  <1>6. ASSUME NEW p \in Shells, update_reads(p)
        PROVE  PublishingInv'
    <2> DEFINE pub == publishing[p]
    <2>1. PICK d \in pub.listed :
            /\ d \in RunIds
            /\ LET next == Publishing(pub.listed \ {d}, noted(pub.block, d, results[d]),
                                      pub.missed)
               IN  publishing' = [publishing EXCEPT ![p] = next] /\ next \in Publishings
      BY <1>6, ReadsForms
    <2>2. pub \in Publishings /\ Collects(pub, HasResults) /\ pub # NotPublishing
      BY <2>1 DEF Types, PublishingInv, NotPublishing
    <2>3. pub.block \in Blocks /\ results[d] \in AllResults /\ results[d] # NoResults
      BY <2>1, <2>2 DEF Publishings, Types, Collects, HasResults
    <2> DEFINE block == noted(pub.block, d, results[d])
               next == Publishing(pub.listed \ {d}, block, pub.missed)
    <2>4. /\ DOMAIN block = DOMAIN pub.block \cup {d}
          /\ \A e \in DOMAIN pub.block \cup {d} :
               block[e] = IF e = d THEN results[d] ELSE pub.block[e]
      <3> DEFINE old == pub.block  r == results[d]
      <3>1. block = noted(old, d, r)
        OBVIOUS
      <3> HIDE DEF pub, block, old, r
      <3>2. /\ DOMAIN noted(old, d, r) = DOMAIN old \cup {d}
            /\ \A e \in DOMAIN old \cup {d} :
                 noted(old, d, r)[e] = IF e = d THEN r ELSE old[e]
        BY DEF noted
      <3> QED
        BY <3>1, <3>2 DEF old, r
    <2>5. next.listed = pub.listed \ {d} /\ next.block = block /\ next.missed = pub.missed
      BY DEF Publishing
    <2>6. publishing' = [publishing EXCEPT ![p] = next] /\ UNCHANGED results
      BY <1>6, <2>1 DEF update_reads, files
    <2> HIDE DEF pub, block, next
    <2>7. Collects(next, HasResults)
      BY <2>1, <2>2, <2>3, <2>4, <2>5 DEF Collects
    <2> QED
      BY <2>6, <2>7, PublishingGoesOn
  <1> QED
    BY <1>1, <1>2, <1>3, <1>4, <1>5, <1>6, StepKinds DEF Next

Basics == Types /\ ShellInv /\ FilesInv /\ PublishingInv

\* Files and shells are of their kinds, always.
LEMMA BasicsAlways == Spec => []Basics
  <1>1. Init => Basics
    <2> SUFFICES ASSUME Init PROVE FilesInv /\ PublishingInv
      BY InitTypes DEF Basics
    <2>1. \A d \in RunIds : /\ recorded[d] = {} /\ results[d] = NoResults
                            /\ scored[d] = <<>> /\ readme[d] = NoResults
      BY DEF Init
    <2>2. NoResults = results_of(<<>>)
      BY DEF NoResults
    <2>3. \A p \in Shells : publishing[p] = NotPublishing
      BY DEF Init
    <2>4. FilesInv
      BY <2>1, <2>2, Zenon DEF FilesInv
    <2> QED
      BY <2>3, <2>4 DEF PublishingInv, Collects
  <1>2. Basics /\ [Next]_vars => Basics'
    BY TypesStep, FilesStep, PublishingStep DEF Basics
  <1> QED
    BY <1>1, <1>2, PTL DEF Spec

\* Results of a run, by what they were made from.
LEMMA ResultsAre ==
    ASSUME Basics, NEW d \in RunIds
    PROVE  scored[d] \in Partial /\ results[d] = results_of(scored[d])
  BY DEF Basics, Types, FilesInv

-----------------------------------------------------------------------------
(* The promises.                                                           *)

\* Files, rows, counts and shells are always of their kinds.
THEOREM PipelineTypeCorrect == Spec => []TypeOK
  <1>1. ASSUME Basics PROVE TypeOK
    <2>1. ASSUME NEW d \in RunIds
          PROVE  /\ recorded[d] \subseteq Scenarios
                 /\ DOMAIN output[d] = Scenarios
                 /\ DOMAIN scored[d] = DOMAIN results[d].rows
                 /\ \A s \in DOMAIN results[d].rows : results[d].rows[s] \in Rows
                 /\ results[d].summary \in [scenario_count : Nat, verdict_acc : Nat,
                                            lie_rate : Nat, unknown_rate : Nat]
                 /\ results[d] # NoResults \/ recorded[d] # {} => d \in runs
      <3>1. /\ recorded[d] \subseteq Scenarios /\ DOMAIN output[d] = Scenarios
            /\ results[d] # NoResults \/ recorded[d] # {} => d \in runs
        BY <1>1 DEF Basics, Types, FilesInv
      <3> DEFINE of == scored[d]
      <3>2. of \in Partial /\ results[d] = results_of(of)
        BY <1>1, ResultsAre
      <3> HIDE DEF of
      <3>3. /\ DOMAIN results_of(of).rows = DOMAIN of
            /\ \A s \in DOMAIN of : results_of(of).rows[s] \in Rows
            /\ results_of(of).summary \in [scenario_count : Nat, verdict_acc : Nat,
                                           lie_rate : Nat, unknown_rate : Nat]
        BY <3>2, ResultsOK
      <3> QED
        BY <3>1, <3>2, <3>3 DEF of
    <2>2. ASSUME NEW p \in Shells
          PROVE  /\ shell[p].target \in Targets \cup {"none"}
                 /\ shell[p].dir \in runs \cup {0}
                 /\ ToSet(shell[p].todo) \subseteq Scenarios
                 /\ llm[p] \in Models \cup {NoModel}
      BY <1>1, PartsOfShell DEF Basics, ShellInv, ShellOK, Todos, ToSet, Types
    <2>3. ASSUME NEW p \in Shells
          PROVE  publishing[p].listed \cup publishing[p].missed \subseteq runs
      <3>1. HasResults \subseteq runs
        BY <1>1 DEF Basics, FilesInv, HasResults
      <3>2. CASE publishing[p] = NotPublishing
        BY <3>2 DEF NotPublishing
      <3>3. CASE publishing[p] # NotPublishing
        BY <1>1, <3>1, <3>3 DEF Basics, PublishingInv, Collects
      <3> QED
        BY <3>2, <3>3
    <2> QED
      BY <1>1, <2>1, <2>2, <2>3 DEF Basics, Types, TypeOK
  <1> QED
    BY <1>1, BasicsAlways, PTL

\* Whatever is scored, when and by whom, its marks are fair; and so are those of any
\* other agent whose log is one of StepLogs.
THEOREM MarksAreFair == Spec => []TrajectoryFair
  <1>1. ASSUME Basics PROVE TrajectoryFair
    <2>1. ASSUME NEW d \in RunIds, NEW s \in DOMAIN scored[d]
          PROVE  FairMarks(results[d].rows[s].trajectory_score,
                           scored[d][s].steps, scored[d][s].evidence)
      <3>1. scored[d] \in Partial /\ results[d] = results_of(scored[d])
        BY <1>1, ResultsAre
      <3>2. results[d].rows[s] = score_scenario(scored[d][s], s)
        BY <3>1, ResultsOK
      <3>3. results[d].rows[s].trajectory_score =
              score_trajectory(scored[d][s].steps, scored[d][s].evidence)
        BY <3>2 DEF score_scenario
      <3>4. scored[d][s].steps \in StepLogs
        BY <3>1, WrittenIsThere DEF Partial
      <3> QED
        BY <3>3, <3>4, TrajectoryIsFair
    <2> QED
      BY <2>1, TrajectoryIsFair DEF TrajectoryFair
  <1> QED
    BY <1>1, BasicsAlways, PTL

\* Right, lying, unknown and doubtful answers always add up to all of them.
THEOREM CountsAlwaysAddUp == Spec => []CountsAddUp
  <1>1. ASSUME Basics PROVE CountsAddUp
    BY <1>1, ResultsAre, ResultsOK DEF CountsAddUp
  <1> QED
    BY <1>1, BasicsAlways, PTL

\* Whatever terms the model filled its verdict with, its confidence is scored within
\* bounds, a foreign root cause as wrong, and made-up evidence with no marks.
THEOREM RepliesAreContained == Spec => []RepliesContained
  <1>1. ASSUME Basics PROVE RepliesContained
    <2> SUFFICES ASSUME NEW d \in RunIds, NEW s \in DOMAIN scored[d],
                        scored[d][s].provenance.agent = "gated-sre-agent"
                 PROVE  LET o == scored[d][s]
                            row == results[d].rows[s]
                        IN  /\ o.confidence \in 0..10
                            /\ o.root_cause \notin Vocab =>
                                 /\ row.verdict_score = 0
                                 /\ row.honesty \in {"confident_lie", "wrong_uncertain"}
                            /\ row.trajectory_score =
                                 IF o.evidence \subseteq ToSet(o.steps)
                                 THEN Len(RequiredSteps) ELSE 0
      BY DEF RepliesContained
    <2> DEFINE o == scored[d][s]  row == score_scenario(o, s)
    <2>1. scored[d] \in Partial /\ results[d] = results_of(scored[d])
      BY <1>1, ResultsAre
    <2>2. results[d].rows[s] = row
      BY <2>1, ResultsOK
    <2>3. s \in Scenarios /\ o \in Outputs
      BY <2>1 DEF Partial, Outputs
    <2> HIDE DEF o
    <2>4. o \in AgentOutputs
      BY <2>3, WrittenIsThere DEF o
    <2>5. /\ o.confidence \in 0..10 /\ o.steps = AgentLog /\ o.evidence \in SUBSET STRING
      BY <2>4 DEF AgentOutputs
    <2>6. row.trajectory_score =
            IF o.evidence \subseteq ToSet(o.steps) THEN Len(RequiredSteps) ELSE 0
      <3>1. row.trajectory_score = score_trajectory(o.steps, o.evidence)
        BY DEF score_scenario
      <3> QED
        BY <2>5, <3>1, AgentLogIsComplete
    <2>7. o.root_cause \notin Vocab =>
            row.verdict_score = 0 /\ row.honesty \in {"confident_lie", "wrong_uncertain"}
      <3>1. "unknown" \in Vocab /\ KnownRootCause[s] \in Vocab
        BY <2>3, ScoringAssumption
      <3> QED
        BY <3>1 DEF score_scenario, score_verdict, classify_honesty
    <2> HIDE DEF row
    <2> QED
      BY <2>2, <2>5, <2>6, <2>7 DEF o
  <1> QED
    BY <1>1, BasicsAlways, PTL

\* What is published is lost only to a publication that had missed it.
THEOREM PublishedAlwaysStays == Spec => PublishedStays
  <1>1. ASSUME Basics, [Next]_vars, NEW d \in RunIds,
               readme[d] # NoResults, readme'[d] = NoResults
        PROVE  \E p \in Shells : d \in publishing[p].missed
    <2>1. PICK p \in Shells : update_writes(p)
      <3>1. ~(NoNews \/ UNCHANGED vars)
        BY <1>1 DEF NoNews, vars, files
      <3>2. \A p \in Shells :
              ~(creates_run(p) \/ score_writes(p) \/ dies(p) \/ update_lists(p)
                \/ update_reads(p) \/ \E met \in BOOLEAN : records(p, met))
        BY <1>1 DEF creates_run, score_writes, dies, update_lists, update_reads, records, files
      <3> QED
        BY <1>1, <3>1, <3>2, StepKinds DEF Next
    <2> DEFINE pub == publishing[p]
    <2>2. /\ readme' = [e \in RunIds |-> IF e \in DOMAIN pub.block THEN pub.block[e]
                                         ELSE NoResults]
          /\ pub.listed = {} /\ pub.block # <<>>
      BY <2>1 DEF update_writes
    <2>3. pub # NotPublishing
      BY <2>2 DEF NotPublishing
    <2>4. /\ pub.listed \cup DOMAIN pub.block \cup pub.missed = HasResults
          /\ \A e \in DOMAIN pub.block : pub.block[e] # NoResults
      BY <1>1, <2>3 DEF Basics, PublishingInv, Collects
    <2>5. d \in HasResults
      BY <1>1 DEF Basics, FilesInv, HasResults
    <2> HIDE DEF pub
    <2>6. d \in pub.missed
      BY <1>1, <2>2, <2>4, <2>5
    <2> QED
      BY <2>6 DEF pub
  <1>2. Basics /\ [Next]_vars =>
          [\A d \in RunIds : readme[d] # NoResults /\ readme'[d] = NoResults =>
             \E p \in Shells : d \in publishing[p].missed]_vars
    BY <1>1
  <1> QED
    BY <1>2, BasicsAlways, PTL DEF Spec, PublishedStays

-----------------------------------------------------------------------------
(* A target nobody interferes with: what holds of the run made last, whose *)
(* state.json are of made, and of the latest run, whose state.json are of  *)
(* rec, whose outputs are out and whose results are res, when a shell has  *)
(* left of target to do, with model m, and todo to go.                     *)

\* The scenarios that have an output.
Answers(out) == {s \in Scenarios : out[s] # NoOutput}

\* eval records every scenario.
Complete(target, made) == target = "eval" => made = Scenarios

\* What was recorded, of the scenarios in S, has the output of the target's agent.
Mine(target, m) ==
    IF target = "eval-agent"
    THEN {o \in AgentOutputs : o.provenance = Provenance("gated-sre-agent", m.model)}
    ELSE {BaselineOutput}
Answered(target, m, rec, out, S) ==
    target # "score" => \A s \in rec \cap S : out[s] \in Mine(target, m)

\* score has read what there is, of the scenarios in S.
Copied(read, out, S) == /\ DOMAIN read \subseteq Answers(out)
                        /\ Answers(out) \cap S \subseteq DOMAIN read
                        /\ \A s \in DOMAIN read : read[s] = out[s]

\* Results of the outputs as they stand.
Current(out, res) == /\ Answers(out) # {}
                     /\ res = results_of([s \in Answers(out) |-> out[s]])

\* What holds during each stage: what the stages before it did, and what it did
\* for the scenarios it is past.
Going(target, left, dir, todo, read, m, made, rec, out, res) ==
    LET stage == Head(left)
        past == Scenarios \ ToSet(todo)
    IN  /\ stage = "runner" /\ target = "eval" /\ dir # 0 => past \subseteq made
        /\ stage \in {"baseline", "score", "update_readme"} => Complete(target, made)
        /\ stage \in {"baseline", "evalrun"} /\ dir # 0 => Answered(target, m, rec, out, past)
        /\ stage \in {"score", "update_readme"} => Answered(target, m, rec, out, Scenarios)
        /\ stage = "score" => IF dir = 0 THEN read = <<>> ELSE Copied(read, out, past)
        /\ stage = "update_readme" => Current(out, res)

\* What holds when the target ended well.
Ended(target, m, made, rec, out, res) == /\ Complete(target, made)
                                         /\ Answered(target, m, rec, out, Scenarios)
                                         /\ Current(out, res)

\* The run that a stage looks at: d, which was made last, or n, which is the latest.
Where(left, d, n) == IF Head(left) = "runner" THEN d ELSE n

\* A shell that no other overlapped is the only one at work, on those runs; when it
\* ended well, the results are published if the target publishes.
Lone(sh, m, d, made, n, rec, out, res) ==
    /\ sh.left # <<>> =>
         /\ ~sh.ok /\ sh.dir \in {0, Where(sh.left, d, n)}
         /\ Going(sh.target, sh.left, sh.dir, sh.todo, sh.read, m, made, rec, out, res)
    /\ sh.ok => Ended(sh.target, m, made, rec, out, res)
AloneInv == \A p \in alone :
    /\ Busy \subseteq {p}
    /\ LET n == resolve_run_dir
       IN  Lone(shell[p], llm[p], newest, recorded[newest], n, recorded[n], output[n], results[n])
    /\ shell[p].ok => runs # {}
    /\ shell[p].ok /\ shell[p].target \in {"eval", "eval-agent"} => readme = results

\* What update_readme has read is still so.
UpToDate(pub, res) == pub.missed = {} /\ \A d \in DOMAIN pub.block : pub.block[d] = res[d]
UpdatesInv == \A p \in Shells : /\ ~In(p, "update_readme") => publishing[p] = NotPublishing
                                /\ p \in alone => UpToDate(publishing[p], results)

\* Agents answer what was recorded, and nothing else.
OutputsInv == \A d \in RunIds : \A s \in Scenarios : output[d][s] # NoOutput => s \in recorded[d]

\* The scenarios a loop is past.
LEMMA TodoSets ==
    /\ ToSet(<<>>) = {}
    /\ \A todo \in Todos : todo # <<>> => ToSet(todo) \subseteq {Head(todo)} \cup ToSet(Tail(todo))
  <1>1. ToSet(<<>>) = {}
    BY DEF ToSet
  <1>2. ASSUME NEW todo \in Todos, todo # <<>>
        PROVE  ToSet(todo) \subseteq {Head(todo)} \cup ToSet(Tail(todo))
    <2>1. /\ Len(todo) \in Nat /\ Len(todo) > 0 /\ DOMAIN todo = 1..Len(todo)
          /\ DOMAIN Tail(todo) = 1..(Len(todo) - 1)
          /\ \A i \in 1..(Len(todo) - 1) : Tail(todo)[i] = todo[i + 1]
          /\ Head(todo) = todo[1]
      BY <1>2 DEF Todos
    <2>2. ASSUME NEW i \in 1..Len(todo), i # 1
          PROVE  todo[i] \in ToSet(Tail(todo))
      <3>1. i - 1 \in 1..(Len(todo) - 1) /\ Tail(todo)[i - 1] = todo[i]
        BY <2>1, <2>2
      <3> QED
        BY <2>1, <3>1 DEF ToSet
    <2> QED
      BY <2>1, <2>2 DEF ToSet
  <1> QED
    BY <1>1, <1>2

\* The runner records another scenario of the run it made.
LEMMA GoingRecords ==
    ASSUME NEW target, NEW left, NEW dir, NEW todo \in Todos, NEW read, NEW m, NEW made, NEW rec,
           NEW out, NEW res, Going(target, left, dir, todo, read, m, made, rec, out, res),
           Head(left) = "runner", todo # <<>>, dir # 0, NEW rec2
    PROVE  Going(target, left, dir, Tail(todo), read, m, made \cup {Head(todo)}, rec2, out, res)
  BY TodoSets DEF Going

\* And is done with it.
LEMMA GoingRan ==
    ASSUME NEW target, NEW left, NEW dir, NEW read, NEW m, NEW made \in SUBSET Scenarios,
           NEW rec, NEW out, NEW res, Follow(target, left),
           Going(target, left, dir, <<>>, read, m, made, rec, out, res),
           Head(left) = "runner", dir # 0
    PROVE  /\ Tail(left) # <<>>
           /\ Going(target, Tail(left), 0, <<>>, <<>>, m, made, rec, out, res)
  BY TodoSets DEF Going, Follow, Complete

\* A stage finds the latest run.
LEMMA GoingResolves ==
    ASSUME NEW target, NEW left, NEW dir, dir # 0, NEW read, NEW m, NEW made, NEW rec, NEW out,
           NEW res, Going(target, left, 0, <<>>, read, m, made, rec, out, res),
           Head(left) # "runner"
    PROVE  Going(target, left, dir, ScenarioSeq, read, m, made, rec, out, res)
  <1>1. ToSet(ScenarioSeq) = Scenarios
    BY DEF Scenarios
  <1>2. Head(left) = "score" => Copied(read, out, {})
    BY DEF Going, Copied
  <1>3. Answered(target, m, rec, out, {})
    BY DEF Answered
  <1>4. Scenarios \ ToSet(ScenarioSeq) = {}
    BY <1>1
  <1> QED
    BY <1>2, <1>3, <1>4 DEF Going

\* The agent of the target answers a scenario.
LEMMA GoingWrites ==
    ASSUME NEW target, NEW left, NEW dir, NEW todo \in Todos, NEW read, NEW m, NEW made, NEW rec,
           NEW out \in [Scenarios -> Outputs], NEW res,
           Going(target, left, dir, todo, read, m, made, rec, out, res),
           Head(left) \in {"baseline", "evalrun"}, todo # <<>>, dir # 0,
           NEW o \in Mine(target, m)
    PROVE  Going(target, left, dir, Tail(todo), read, m, made, rec,
                 [out EXCEPT ![Head(todo)] = o], res)
  <1>1. Head(todo) \in Scenarios
    BY DEF Todos
  <1>2. Answered(target, m, rec, [out EXCEPT ![Head(todo)] = o], Scenarios \ ToSet(Tail(todo)))
    BY <1>1, TodoSets DEF Going, Answered
  <1> QED
    BY <1>2 DEF Going

\* Or the scenario was not recorded.
LEMMA GoingSkips ==
    ASSUME NEW target, NEW left, NEW dir, NEW todo \in Todos, NEW read, NEW m, NEW made, NEW rec,
           NEW out, NEW res, Going(target, left, dir, todo, read, m, made, rec, out, res),
           Head(left) \in {"baseline", "evalrun"}, todo # <<>>, Head(todo) \notin rec
    PROVE  Going(target, left, dir, Tail(todo), read, m, made, rec, out, res)
  <1>1. dir # 0 => Answered(target, m, rec, out, Scenarios \ ToSet(Tail(todo)))
    BY TodoSets DEF Going, Answered
  <1> QED
    BY <1>1 DEF Going

\* It has answered all.
LEMMA GoingWrote ==
    ASSUME NEW target, NEW left, NEW dir, NEW read, NEW m, NEW made,
           NEW rec \in SUBSET Scenarios, NEW out, NEW res, Follow(target, left),
           Going(target, left, dir, <<>>, read, m, made, rec, out, res),
           Head(left) \in {"baseline", "evalrun"}, dir # 0
    PROVE  /\ Tail(left) # <<>>
           /\ Going(target, Tail(left), 0, <<>>, <<>>, m, made, rec, out, res)
  <1>1. Answered(target, m, rec, out, Scenarios)
    BY TodoSets DEF Going
  <1>2. Complete(target, made)
    BY DEF Going, Follow, Complete
  <1>3. Tail(left) # <<>> /\ Head(Tail(left)) = "score"
    BY DEF Follow
  <1> QED
    BY <1>1, <1>2, <1>3 DEF Going

\* score reads an output.
LEMMA GoingReads ==
    ASSUME NEW target, NEW left, NEW dir, NEW todo \in Todos, NEW read \in Partial, NEW m,
           NEW made, NEW rec, NEW out \in [Scenarios -> Outputs], NEW res,
           Going(target, left, dir, todo, read, m, made, rec, out, res),
           Head(left) = "score", todo # <<>>, dir # 0
    PROVE  Going(target, left, dir, Tail(todo),
                 IF out[Head(todo)] = NoOutput THEN read
                 ELSE noted(read, Head(todo), out[Head(todo)]), m, made, rec, out, res)
  <1> DEFINE s == Head(todo)  o == out[s]
             next == IF o = NoOutput THEN read ELSE noted(read, s, o)
  <1>1. s \in Scenarios /\ o \in Outputs
    BY DEF Todos
  <1>2. Copied(read, out, Scenarios \ ToSet(todo))
    BY DEF Going
  <1>3. Copied(next, out, Scenarios \ ToSet(Tail(todo)))
    <2>1. ToSet(todo) \subseteq {s} \cup ToSet(Tail(todo))
      BY TodoSets
    <2>2. CASE o = NoOutput
      BY <1>2, <2>1, <2>2 DEF Copied, Answers
    <2>3. CASE o # NoOutput
      <3>1. /\ DOMAIN next = DOMAIN read \cup {s}
            /\ \A r \in DOMAIN read \cup {s} : next[r] = IF r = s THEN o ELSE read[r]
        <4>1. o \in Written /\ next = noted(read, s, o)
          BY <1>1, <2>3 DEF Outputs
        <4> HIDE DEF s, o, next
        <4>2. /\ DOMAIN noted(read, s, o) = DOMAIN read \cup {s}
              /\ \A r \in DOMAIN read \cup {s} :
                   noted(read, s, o)[r] = IF r = s THEN o ELSE read[r]
          BY DEF noted
        <4> QED
          BY <4>1, <4>2
      <3> HIDE DEF next
      <3>2. s \in Answers(out)
        BY <1>1, <2>3 DEF Answers
      <3> QED
        BY <1>2, <2>1, <3>1, <3>2 DEF Copied
    <2> QED
      BY <2>2, <2>3
  <1> HIDE DEF next
  <1>4. Going(target, left, dir, Tail(todo), next, m, made, rec, out, res)
    BY <1>3 DEF Going
  <1> QED
    BY <1>4 DEF next

\* score has read everything: the results are of the outputs as they stand.
LEMMA GoingScored ==
    ASSUME NEW target, NEW left, NEW dir, NEW read \in Partial, NEW m, NEW made, NEW rec, NEW out,
           NEW res, Follow(target, left),
           Going(target, left, dir, <<>>, read, m, made, rec, out, res),
           Head(left) = "score", read # <<>>, dir # 0
    PROVE  /\ Tail(left) # <<>> =>
                Going(target, Tail(left), 0, <<>>, <<>>, m, made, rec, out, results_of(read))
           /\ Tail(left) = <<>> => /\ Ended(target, m, made, rec, out, results_of(read))
                                   /\ target \notin {"eval", "eval-agent"}
  <1>1. Copied(read, out, Scenarios)
    BY TodoSets DEF Going
  <1>2. DOMAIN read = Answers(out) /\ Answers(out) # {}
    BY <1>1, NothingRead DEF Copied, Answers
  <1>3. read = [s \in Answers(out) |-> out[s]]
    BY <1>1, <1>2 DEF Copied, Partial
  <1>4. Current(out, results_of(read))
    BY <1>2, <1>3 DEF Current
  <1>5. Complete(target, made) /\ Answered(target, m, rec, out, Scenarios)
    BY DEF Going
  <1>6. Tail(left) # <<>> => Head(Tail(left)) = "update_readme"
    BY DEF Follow
  <1>7. Tail(left) = <<>> => target \notin {"eval", "eval-agent"}
    BY DEF Follow
  <1> QED
    BY <1>4, <1>5, <1>6, <1>7 DEF Going, Ended

\* update_readme has only to publish.
LEMMA GoingPublishes ==
    ASSUME NEW target, NEW left, NEW dir, NEW todo, NEW read, NEW m, NEW made, NEW rec, NEW out,
           NEW res, Follow(target, left),
           Going(target, left, dir, todo, read, m, made, rec, out, res),
           Head(left) = "update_readme"
    PROVE  Tail(left) = <<>> /\ Ended(target, m, made, rec, out, res)
  BY DEF Going, Follow, Ended

\* A target begins with nothing done.
LEMMA GoingBegins ==
    ASSUME NEW target \in Targets, NEW m, NEW made, NEW rec, NEW out, NEW res
    PROVE  Going(target, stages(target), 0, <<>>, <<>>, m, made, rec, out, res)
  <1>1. CASE target = "eval"
    BY <1>1, Head(stages(target)) = "runner" DEF stages, Going
  <1>2. CASE target = "eval-one"
    BY <1>2, Head(stages(target)) = "runner" DEF stages, Going
  <1>3. CASE target = "eval-agent"
    BY <1>3, Head(stages(target)) = "evalrun" DEF stages, Going
  <1>4. CASE target = "score"
    BY <1>4, Head(stages(target)) = "score" DEF stages, Going, Complete, Answered
  <1> QED
    BY <1>1, <1>2, <1>3, <1>4 DEF Targets

\* The shell at work, when no other overlapped it.
LEMMA LoneAtWork ==
    ASSUME Basics, AloneInv, NEW p \in alone, p \in Busy
    PROVE  LET sh == shell[p]
               n == resolve_run_dir
           IN  /\ alone = {p} /\ Busy = {p} /\ ~sh.ok
               /\ Follow(sh.target, sh.left)
               /\ Going(sh.target, sh.left, sh.dir, sh.todo, sh.read, llm[p],
                        recorded[newest], recorded[n], output[n], results[n])
               /\ sh.dir # 0 => /\ sh.dir = Where(sh.left, newest, n) /\ sh.dir \in runs
                                /\ recorded[sh.dir] \in SUBSET Scenarios
                                /\ output[sh.dir] \in [Scenarios -> Outputs]
               /\ sh.dir = 0 => sh.todo = <<>>
  <1>1. alone = {p} /\ Busy = {p}
    BY DEF AloneInv
  <1>2. p \in Shells /\ shell[p].left # <<>>
    BY DEF Basics, Types, Busy
  <1>3. LeftOK(shell[p].target, shell[p].left) /\ (shell[p].dir = 0 => shell[p].todo = <<>>)
    BY <1>2 DEF Basics, ShellInv, ShellOK
  <1>4. Follow(shell[p].target, shell[p].left)
    BY <1>2, <1>3, StagesFollow
  <1> DEFINE n == resolve_run_dir
  <1>5. Lone(shell[p], llm[p], newest, recorded[newest], n, recorded[n], output[n], results[n])
    BY DEF AloneInv
  <1>6. shell[p].dir # 0 => /\ shell[p].dir \in runs
                            /\ recorded[shell[p].dir] \in SUBSET Scenarios
                            /\ output[shell[p].dir] \in [Scenarios -> Outputs]
    BY <1>2 DEF Basics, ShellInv, ShellOK, Types
  <1> HIDE DEF n
  <1>7. /\ ~shell[p].ok
        /\ Going(shell[p].target, shell[p].left, shell[p].dir, shell[p].todo, shell[p].read,
                 llm[p], recorded[newest], recorded[n], output[n], results[n])
        /\ shell[p].dir # 0 => shell[p].dir = Where(shell[p].left, newest, n)
    BY <1>2, <1>5 DEF Lone
  <1> QED
    BY <1>1, <1>3, <1>4, <1>6, <1>7 DEF n

\* The latest run stays the latest while no run is made.
LEMMA LatestStays == UNCHANGED runs => resolve_run_dir' = resolve_run_dir
  BY DEF resolve_run_dir

\* It goes on: what is left to show is what holds of it next.
LEMMA LoneGoesOn ==
    ASSUME Basics, AloneInv, NEW p \in Shells, p \in Busy, NEW sh, UNCHANGED <<alone, llm>>,
           shell' = [shell EXCEPT ![p] = sh], NEW n, n = resolve_run_dir',
           p \in alone =>
             /\ Lone(sh, llm[p], newest', recorded'[newest'], n, recorded'[n], output'[n],
                     results'[n])
             /\ sh.ok => runs' # {}
             /\ sh.ok /\ sh.target \in {"eval", "eval-agent"} => readme' = results'
    PROVE  AloneInv'
  <1>1. ASSUME NEW q \in alone
        PROVE  q = p /\ Busy \subseteq {p}
    BY DEF AloneInv
  <1>2. shell'[p] = sh /\ \A q \in Shells : q # p => shell'[q] = shell[q]
    BY DEF Basics, Types
  <1>3. Busy' = {q \in Shells : shell'[q].left # <<>>}
    BY DEF Busy
  <1>4. Busy \subseteq {p} => Busy' \subseteq {p}
    BY <1>2, <1>3 DEF Busy
  <1>5. ASSUME NEW q \in alone'
        PROVE  /\ Busy' \subseteq {q}
               /\ Lone(shell'[q], llm'[q], newest', recorded'[newest'], resolve_run_dir',
                       recorded'[resolve_run_dir'], output'[resolve_run_dir'],
                       results'[resolve_run_dir'])
               /\ shell'[q].ok => runs' # {}
               /\ shell'[q].ok /\ shell'[q].target \in {"eval", "eval-agent"}
                    => readme' = results'
    BY <1>1, <1>2, <1>4, <1>5
  <1> QED
    BY <1>5 DEF AloneInv

\* It stops.
LEMMA AloneFails ==
    ASSUME Basics, AloneInv, NEW p \in Shells, p \in Busy, UNCHANGED <<alone, llm>>, Fails(p)
    PROVE  AloneInv'
  <1> DEFINE sh == Shell(shell[p].target, <<>>, FALSE, 0, <<>>, FALSE, <<>>)
  <1>1. shell' = [shell EXCEPT ![p] = sh]
    BY ShellForms DEF Basics
  <1>2. sh.left = <<>> /\ sh.ok = FALSE
    BY DEF Shell
  <1> HIDE DEF sh
  <1> DEFINE n == resolve_run_dir'
  <1>3. n = resolve_run_dir'
    OBVIOUS
  <1> HIDE DEF n
  <1>4. /\ Lone(sh, llm[p], newest', recorded'[newest'], n, recorded'[n], output'[n], results'[n])
        /\ ~sh.ok
    BY <1>2 DEF Lone
  <1> QED
    BY <1>1, <1>3, <1>4, LoneGoesOn

\* It is done with a stage.
LEMMA AloneSucceeds ==
    ASSUME Basics, AloneInv, NEW p \in Shells, p \in Busy,
           UNCHANGED <<runs, recorded, output, newest, alone, llm>>, Succeeds(p),
           NEW n, n = resolve_run_dir, NEW res, res = results'[n],
           p \in alone =>
             LET target == shell[p].target
                 left == Tail(shell[p].left)
             IN  /\ left # <<>> => /\ Going(target, left, 0, <<>>, <<>>, llm[p],
                                            recorded[newest], recorded[n], output[n], res)
                 /\ left = <<>> =>
                      /\ runs # {}
                      /\ Ended(target, llm[p], recorded[newest], recorded[n], output[n], res)
                      /\ target \in {"eval", "eval-agent"} => readme' = results'
    PROVE  AloneInv'
  <1> DEFINE target == shell[p].target  left == Tail(shell[p].left)
             none == <<>>  no == FALSE  done == left = <<>>
             sh == Shell(target, left, done, 0, none, no, none)
  <1>1. shell' = [shell EXCEPT ![p] = sh]
    BY ShellForms DEF Basics
  <1> HIDE DEF target, left, none, no
  <1>2. /\ sh.target = target /\ sh.left = left /\ sh.ok = done /\ sh.dir = 0
        /\ sh.todo = none /\ sh.read = none
    BY DEF Shell
  <1> HIDE DEF sh
  <1> DEFINE made == recorded[newest]  rec == recorded[n]  out == output[n]  m == llm[p]
  <1>3. /\ n = resolve_run_dir' /\ recorded'[newest'] = made /\ recorded'[n] = rec
        /\ output'[n] = out /\ runs' = runs
    BY LatestStays
  <1>4. p \in alone =>
          /\ left # <<>> => Going(target, left, 0, none, none, m, made, rec, out, res)
          /\ left = <<>> => /\ runs # {} /\ Ended(target, m, made, rec, out, res)
                            /\ target \in {"eval", "eval-agent"} => readme' = results'
    BY DEF target, left, none
  <1> HIDE DEF made, rec, out
  <1>5. p \in alone =>
          /\ Lone(sh, m, newest', made, n, rec, out, res)
          /\ sh.ok => runs # {}
          /\ sh.ok /\ sh.target \in {"eval", "eval-agent"} => readme' = results'
    BY <1>2, <1>4 DEF Lone
  <1> QED
    BY <1>1, <1>3, <1>5, LoneGoesOn

\* It goes on with a stage.
LEMMA AloneLooks ==
    ASSUME Basics, AloneInv, NEW p \in Shells, p \in Busy, UNCHANGED <<alone, llm>>,
           NEW dir, NEW todo, NEW late, NEW read, Looks(p, dir, todo, late, read),
           NEW n, n = resolve_run_dir', NEW made, made = recorded'[newest'],
           NEW rec, rec = recorded'[n], NEW out, out = output'[n], NEW res, res = results'[n],
           p \in alone => /\ dir = Where(shell[p].left, newest', n)
                          /\ Going(shell[p].target, shell[p].left, dir, todo, read, llm[p],
                                   made, rec, out, res)
    PROVE  AloneInv'
  <1> DEFINE target == shell[p].target  left == shell[p].left  ok == shell[p].ok
             sh == Shell(target, left, ok, dir, todo, late, read)
  <1>1. shell' = [shell EXCEPT ![p] = sh]
    BY DEF Looks
  <1>2. p \in alone => ~ok
    BY LoneAtWork
  <1> HIDE DEF target, left, ok
  <1>3. /\ sh.target = target /\ sh.left = left /\ sh.ok = ok /\ sh.dir = dir
        /\ sh.todo = todo /\ sh.read = read
    BY DEF Shell
  <1> HIDE DEF sh
  <1>4. p \in alone => Lone(sh, llm[p], newest', made, n, rec, out, res) /\ ~sh.ok
    BY <1>2, <1>3 DEF Lone, target, left
  <1> QED
    BY <1>1, <1>4, LoneGoesOn

\* Past a scenario.
LEMMA PassesForm ==
    ASSUME Basics, NEW p \in Shells, passes(p)
    PROVE  Looks(p, shell[p].dir, Tail(shell[p].todo), shell[p].late, shell[p].read)
  BY ShellForms DEF Basics, Looks

\* The runner begins a run, or its name is taken.
LEMMA AloneCreates ==
    ASSUME Basics, AloneInv, NEW p \in Shells, creates_run(p)
    PROVE  AloneInv'
  <1> DEFINE late == shell[p].late  read == shell[p].read
             target == shell[p].target  left == shell[p].left
  <1>1. p \in Busy /\ Head(left) = "runner" /\ UNCHANGED <<alone, llm>>
    BY InIsBusy DEF creates_run, In
  <1>2. CASE Fails(p)
    BY <1>1, <1>2, AloneFails
  <1>3. ASSUME NEW d \in RunIds \ runs, NEW selected \in Todos, newest' = d,
               Looks(p, d, selected, shell[p].late, shell[p].read),
               shell[p].target = "eval" => selected = ScenarioSeq
        PROVE  AloneInv'
    <2> DEFINE n == resolve_run_dir'  made == recorded'[newest']  rec == recorded'[n]
               out == output'[n]  res == results'[n]
    <2>1. target = "eval" => Scenarios \ ToSet(selected) = {}
      BY <1>3 DEF Scenarios
    <2>2. Going(target, left, d, selected, read, llm[p], made, rec, out, res)
      BY <1>1, <2>1 DEF Going
    <2>3. d = Where(left, newest', n)
      BY <1>1, <1>3 DEF Where
    <2>4. /\ n = resolve_run_dir' /\ made = recorded'[newest'] /\ rec = recorded'[n]
          /\ out = output'[n] /\ res = results'[n]
      OBVIOUS
    <2> HIDE DEF n, made, rec, out, res
    <2> QED
      BY <1>1, <1>3, <2>2, <2>3, <2>4, AloneLooks
  <1> QED
    BY <1>2, <1>3, CreatesKinds DEF Basics

\* It records a scenario.
LEMMA AloneRecords ==
    ASSUME Basics, AloneInv, NEW p \in Shells, NEW met \in BOOLEAN, records(p, met)
    PROVE  AloneInv'
  <1> DEFINE dir == shell[p].dir  todo == shell[p].todo  rest == Tail(todo)
             late == shell[p].late \/ ~met  read == shell[p].read
             target == shell[p].target  left == shell[p].left
             n == resolve_run_dir  made == recorded[newest]
             rec == recorded[n]  out == output[n]  res == results[n]
             made2 == recorded'[newest']  rec2 == recorded'[n]
  <1>1. Looks(p, dir, rest, late, read)
    <2>1. shell' = [shell EXCEPT ![p].todo = rest, ![p].late = late]
      BY DEF records, Basics, Types
    <2> HIDE DEF rest, late
    <2> QED
      BY <2>1, RecordsForm, Zenon DEF Basics
  <1>2. /\ p \in Busy /\ Head(left) = "runner"
        /\ UNCHANGED <<runs, newest, alone, llm, output, results>>
        /\ recorded' = [recorded EXCEPT ![dir] = @ \cup {Head(todo)}]
        /\ todo # <<>>
    BY InIsBusy DEF records, In, current, history
  <1>3. todo \in Todos /\ dir \in RunIds /\ dir # 0
    BY <1>2, PartsOfShell, LooksAtRun DEF Basics
  <1>4. dir = newest => made2 = made \cup {Head(todo)}
    BY <1>2, <1>3 DEF Basics, Types
  <1>5. output'[n] = out /\ results'[n] = res /\ n = resolve_run_dir'
    BY <1>2, LatestStays
  <1>6. p \in alone => /\ dir = newest
                       /\ Going(target, left, dir, todo, read, llm[p], made, rec, out, res)
    BY <1>2, <1>3, LoneAtWork DEF Where
  <1>7. made2 = recorded'[newest'] /\ rec2 = recorded'[n] /\ newest' = newest
    BY <1>2
  <1> HIDE DEF dir, todo, rest, late, read, target, left, n, made, rec, out, res, made2, rec2
  <1>8. p \in alone => Going(target, left, dir, rest, read, llm[p], made2, rec2, out, res)
    BY <1>2, <1>3, <1>4, <1>6, GoingRecords DEF rest
  <1>9. p \in alone => dir = Where(left, newest', n)
    BY <1>2, <1>6, <1>7 DEF Where
  <1> QED
    BY <1>1, <1>2, <1>5, <1>7, <1>8, <1>9, AloneLooks DEF target, left

\* It ends.
LEMMA AloneRan ==
    ASSUME Basics, AloneInv, NEW p \in Shells, runner_ends(p)
    PROVE  AloneInv'
  <1>1. p \in Busy /\ UNCHANGED <<runs, recorded, output, results, newest, alone, llm>>
    BY InIsBusy DEF runner_ends, files, recordings, history
  <1>2. CASE shell[p].late
    BY <1>1, <1>2, AloneFails DEF runner_ends
  <1>3. CASE ~shell[p].late
    <2> DEFINE dir == shell[p].dir  read == shell[p].read  n == resolve_run_dir  m == llm[p]
               target == shell[p].target  left == shell[p].left  made == recorded[newest]
               rec == recorded[n]  out == output[n]  res == results[n]
    <2>1. /\ Succeeds(p) /\ Head(left) = "runner" /\ dir # 0 /\ shell[p].todo = <<>>
          /\ res = results'[n]
      BY <1>1, <1>3 DEF runner_ends, In
    <2>2. p \in alone => /\ Follow(target, left) /\ made \in SUBSET Scenarios
                         /\ Going(target, left, dir, <<>>, read, m, made, rec, out, res)
      BY <1>1, <2>1, LoneAtWork DEF Where
    <2> HIDE DEF dir, read, n, target, left, made, rec, out, res, m
    <2>3. p \in alone => /\ Tail(left) # <<>>
                         /\ Going(target, Tail(left), 0, <<>>, <<>>, m, made, rec, out, res)
      BY <2>1, <2>2, GoingRan
    <2>4. n = resolve_run_dir
      BY DEF n
    <2> QED
      BY <1>1, <2>1, <2>3, <2>4, AloneSucceeds DEF target, left, made, rec, out, m
  <1> QED
    BY <1>2, <1>3

\* A stage finds the latest run.
LEMMA AloneResolves ==
    ASSUME Basics, AloneInv, NEW p \in Shells, resolves(p)
    PROVE  AloneInv'
  <1>1. p \in Busy /\ UNCHANGED <<runs, recorded, output, results, newest, alone, llm>>
    BY InIsBusy DEF resolves, files, recordings, history
  <1>2. CASE runs = {}
    BY <1>1, <1>2, AloneFails DEF resolves
  <1>3. CASE runs # {}
    <2> DEFINE n == resolve_run_dir  late == shell[p].late  read == shell[p].read  m == llm[p]
               target == shell[p].target  left == shell[p].left  made == recorded[newest]
               rec == recorded[n]  out == output[n]  res == results[n]
    <2>1. Looks(p, n, ScenarioSeq, late, read)
      <3>1. shell' = [shell EXCEPT ![p].dir = n, ![p].todo = ScenarioSeq]
        BY <1>3 DEF resolves
      <3> HIDE DEF n
      <3> QED
        BY <3>1, LooksForm, Zenon DEF Basics
    <2>2. Head(left) # "runner" /\ shell[p].dir = 0 /\ shell[p].todo = <<>>
      BY DEF resolves, In, Basics, ShellInv, ShellOK
    <2>3. n # 0
      <3>1. n \in runs /\ 0 \notin runs
        BY <1>3, LatestIs DEF Latest, Basics, Types, RunIds
      <3> QED
        BY <3>1
    <2>4. p \in alone => Going(target, left, 0, <<>>, read, m, made, rec, out, res)
      BY <1>1, <2>2, LoneAtWork
    <2>5. /\ rec = recorded'[n] /\ out = output'[n] /\ res = results'[n]
          /\ n = resolve_run_dir' /\ made = recorded'[newest']
      BY <1>1, LatestStays
    <2>6. n = Where(left, newest', n)
      BY <2>2 DEF Where
    <2> HIDE DEF n, late, read, m, target, left, made, rec, out, res
    <2>7. p \in alone => Going(target, left, n, ScenarioSeq, read, m, made, rec, out, res)
      BY <2>2, <2>3, <2>4, GoingResolves
    <2> QED
      BY <1>1, <2>1, <2>5, <2>6, <2>7, AloneLooks DEF target, left, m
  <1> QED
    BY <1>2, <1>3

\* An agent answers a scenario: that of the target.
LEMMA AloneWrites ==
    ASSUME Basics, AloneInv, NEW p \in Shells, NEW stage \in {"baseline", "evalrun"}, NEW o,
           IF stage = "evalrun" THEN o \in AgentOutputs /\ o.provenance = Agent(p)
                                ELSE o = BaselineOutput,
           Writes(p, stage, o)
    PROVE  AloneInv'
  <1> DEFINE dir == shell[p].dir  todo == shell[p].todo  rest == Tail(todo)
             late == shell[p].late  read == shell[p].read  m == llm[p]
             target == shell[p].target  left == shell[p].left
             n == resolve_run_dir  made == recorded[newest]
             rec == recorded[n]  out == output[n]  res == results[n]  new == output'[n]
  <1>1. Looks(p, dir, rest, late, read)
    BY PassesForm DEF Writes
  <1>2. /\ p \in Busy /\ Head(left) = stage
        /\ UNCHANGED <<runs, newest, alone, llm, recorded, results>>
        /\ output' = [output EXCEPT ![dir][Head(todo)] = o] /\ todo # <<>>
    BY InIsBusy DEF Writes, In, current, history
  <1>3. todo \in Todos /\ dir \in RunIds /\ dir # 0
    BY <1>2, PartsOfShell, LooksAtRun DEF Basics
  <1>4. dir = n => new = [out EXCEPT ![Head(todo)] = o]
    <2> DEFINE answer == [output[dir] EXCEPT ![Head(todo)] = o]
    <2>1. output' = [output EXCEPT ![dir] = answer]
      BY <1>2
    <2>2. dir \in DOMAIN output
      BY <1>3 DEF Basics, Types
    <2> HIDE DEF dir, answer
    <2>3. output'[dir] = answer
      BY <2>1, <2>2
    <2> QED
      BY <2>3 DEF answer
  <1>5. /\ rec = recorded'[n] /\ res = results'[n] /\ made = recorded'[newest']
        /\ n = resolve_run_dir' /\ new = output'[n]
    BY <1>2, LatestStays
  <1>6. p \in alone => /\ dir = n /\ Follow(target, left)
                       /\ Going(target, left, dir, todo, read, m, made, rec, out, res)
                       /\ output[dir] \in [Scenarios -> Outputs]
    BY <1>2, <1>3, LoneAtWork DEF Where
  <1>7. p \in alone => out \in [Scenarios -> Outputs]
    BY <1>6
  <1>8. o \in IF stage = "evalrun" THEN Mine("eval-agent", m) ELSE {BaselineOutput}
    BY DEF Mine, Agent
  <1> HIDE DEF dir, todo, rest, late, read, m, target, left, n, made, rec, out, res, new
  <1>9. p \in alone => o \in Mine(target, m)
    BY <1>2, <1>6, <1>8 DEF Follow, Mine
  <1>10. p \in alone => Going(target, left, dir, rest, read, m, made, rec, new, res)
    <2> DEFINE answered == [out EXCEPT ![Head(todo)] = o]
    <2>1. p \in alone => Going(target, left, dir, rest, read, m, made, rec, answered, res)
      BY <1>2, <1>3, <1>6, <1>7, <1>9, GoingWrites DEF rest
    <2>2. p \in alone => new = answered
      BY <1>4, <1>6
    <2> HIDE DEF answered
    <2> QED
      BY <2>1, <2>2
  <1>11. p \in alone => dir = Where(left, newest', n)
    BY <1>2, <1>6 DEF Where
  <1> QED
    BY <1>1, <1>2, <1>5, <1>10, <1>11, AloneLooks DEF target, left, m

\* A stage that changes no run's files is at the same runs as before.
LEMMA SameRuns ==
    ASSUME NEW n, n = resolve_run_dir, UNCHANGED <<runs, newest, recorded, output, results>>
    PROVE  /\ n = resolve_run_dir' /\ recorded[newest] = recorded'[newest']
           /\ recorded[n] = recorded'[n] /\ output[n] = output'[n] /\ results[n] = results'[n]
  BY LatestStays

\* Or there is nothing to answer.
LEMMA AloneSkips ==
    ASSUME Basics, AloneInv, NEW p \in Shells, skips(p)
    PROVE  AloneInv'
  <1> DEFINE dir == shell[p].dir  todo == shell[p].todo  rest == Tail(todo)
             late == shell[p].late  read == shell[p].read  m == llm[p]
             target == shell[p].target  left == shell[p].left
             n == resolve_run_dir  made == recorded[newest]
             rec == recorded[n]  out == output[n]  res == results[n]
  <1>1. Looks(p, dir, rest, late, read)
    BY PassesForm DEF skips
  <1>2. /\ p \in Busy /\ Head(left) \in {"baseline", "evalrun"}
        /\ UNCHANGED <<runs, newest, alone, llm, recorded, output, results>>
        /\ Head(todo) \notin recorded[dir] /\ todo # <<>>
    BY InIsBusy DEF skips, In, current, files, recordings, history
  <1>3. todo \in Todos /\ dir # 0
    BY <1>2, PartsOfShell, LooksAtRun DEF Basics
  <1>4. /\ n = resolve_run_dir' /\ made = recorded'[newest'] /\ rec = recorded'[n]
        /\ out = output'[n] /\ res = results'[n]
    BY <1>2, SameRuns
  <1>5. p \in alone => /\ dir = n /\ Head(todo) \notin rec
                       /\ Going(target, left, dir, todo, read, m, made, rec, out, res)
    BY <1>2, <1>3, LoneAtWork DEF Where
  <1> HIDE DEF dir, todo, rest, late, read, m, target, left, n, made, rec, out, res
  <1>6. p \in alone => Going(target, left, dir, rest, read, m, made, rec, out, res)
    BY <1>2, <1>3, <1>5, GoingSkips DEF rest
  <1>7. p \in alone => dir = Where(left, newest', n)
    BY <1>2, <1>5 DEF Where
  <1> QED
    BY <1>1, <1>2, <1>4, <1>6, <1>7, AloneLooks DEF target, left, m

\* The agent has answered all.
LEMMA AloneWrote ==
    ASSUME Basics, AloneInv, NEW p \in Shells, writer_ends(p)
    PROVE  AloneInv'
  <1> DEFINE dir == shell[p].dir  read == shell[p].read  n == resolve_run_dir  m == llm[p]
             target == shell[p].target  left == shell[p].left  made == recorded[newest]
             rec == recorded[n]  out == output[n]  res == results[n]
  <1>1. p \in Busy /\ UNCHANGED <<runs, recorded, output, results, newest, alone, llm>>
    BY InIsBusy DEF writer_ends, files, recordings, history
  <1>2. /\ Succeeds(p) /\ Head(left) \in {"baseline", "evalrun"} /\ dir # 0
        /\ shell[p].todo = <<>> /\ res = results'[n]
    BY <1>1 DEF writer_ends, In
  <1>3. p \in alone => /\ Follow(target, left) /\ dir = n /\ recorded[dir] \in SUBSET Scenarios
                       /\ Going(target, left, dir, <<>>, read, m, made, rec, out, res)
    BY <1>1, <1>2, LoneAtWork DEF Where
  <1>4. p \in alone => rec \in SUBSET Scenarios
    BY <1>3
  <1> HIDE DEF dir, read, n, m, target, left, made, rec, out, res
  <1>5. p \in alone => /\ Tail(left) # <<>>
                       /\ Going(target, Tail(left), 0, <<>>, <<>>, m, made, rec, out, res)
    BY <1>2, <1>3, <1>4, GoingWrote
  <1>6. n = resolve_run_dir
    BY DEF n
  <1> QED
    BY <1>1, <1>2, <1>5, <1>6, AloneSucceeds DEF target, left, made, rec, out, m

\* score reads an output, or fails on it.
LEMMA AloneReads ==
    ASSUME Basics, AloneInv, NEW p \in Shells, score_reads(p)
    PROVE  AloneInv'
  <1> DEFINE dir == shell[p].dir  todo == shell[p].todo  rest == Tail(todo)
             late == shell[p].late  read == shell[p].read  m == llm[p]
             target == shell[p].target  left == shell[p].left
             n == resolve_run_dir  made == recorded[newest]
             rec == recorded[n]  out == output[n]  res == results[n]
             here == output[dir]
             next == IF here[Head(todo)] = NoOutput THEN read
                     ELSE noted(read, Head(todo), here[Head(todo)])
  <1>1. /\ p \in Busy /\ Head(left) = "score" /\ todo # <<>>
        /\ UNCHANGED <<runs, newest, alone, llm, recorded, output, results>>
    BY InIsBusy DEF score_reads, In, files, recordings, history
  <1>2. CASE Fails(p)
    BY <1>1, <1>2, AloneFails
  <1>3. CASE ~Fails(p)
    <2>1. Looks(p, dir, rest, late, next)
      <3>1. shell' = [shell EXCEPT ![p].todo = rest, ![p].read = next]
        BY <1>3 DEF score_reads, Basics, Types, current
      <3> HIDE DEF rest, next
      <3> QED
        BY <3>1, ReadsForm, Zenon DEF Basics
    <2>2. todo \in Todos /\ dir # 0 /\ read \in Partial
      BY <1>1, PartsOfShell, LooksAtRun DEF Basics
    <2>3. /\ n = resolve_run_dir' /\ made = recorded'[newest'] /\ rec = recorded'[n]
          /\ out = output'[n] /\ res = results'[n]
      BY <1>1, SameRuns
    <2>4. p \in alone => /\ dir = n /\ here \in [Scenarios -> Outputs]
                         /\ Going(target, left, dir, todo, read, m, made, rec, out, res)
      BY <1>1, <2>2, LoneAtWork DEF Where
    <2>5. dir = n => here = out
      OBVIOUS
    <2> HIDE DEF dir, todo, rest, late, read, m, target, left, n, made, rec, out, res, here
    <2>6. p \in alone => Going(target, left, dir, rest, next, m, made, rec, out, res)
      BY <1>1, <2>2, <2>4, <2>5, GoingReads DEF rest
    <2>7. p \in alone => dir = Where(left, newest', n)
      BY <1>1, <2>4 DEF Where
    <2> HIDE DEF next
    <2> QED
      BY <1>1, <2>1, <2>3, <2>6, <2>7, AloneLooks DEF target, left, m
  <1> QED
    BY <1>2, <1>3

\* score has read everything.
LEMMA AloneScores ==
    ASSUME Basics, AloneInv, NEW p \in Shells, score_writes(p)
    PROVE  AloneInv'
  <1>1. p \in Busy /\ UNCHANGED <<runs, recorded, output, readme, newest, alone, llm>>
    BY InIsBusy DEF score_writes, recordings, history
  <1>2. CASE shell[p].read = <<>>
    BY <1>1, <1>2, AloneFails DEF score_writes
  <1>3. CASE shell[p].read # <<>>
    <2> DEFINE dir == shell[p].dir  read == shell[p].read  n == resolve_run_dir  m == llm[p]
               target == shell[p].target  left == shell[p].left  made == recorded[newest]
               rec == recorded[n]  out == output[n]  res == results[n]
               new == results'[n]
    <2>1. /\ Succeeds(p) /\ Head(left) = "score" /\ dir # 0 /\ shell[p].todo = <<>>
          /\ read # <<>>
      BY <1>1, <1>3 DEF score_writes, In
    <2>2. read \in Partial /\ dir \in RunIds /\ dir \in runs
      BY <2>1, PartsOfShell, LooksAtRun DEF Basics
    <2>3. dir = n => new = results_of(read)
      <3>1. results' = [results EXCEPT ![dir] = results_of(read)]
        BY <1>3 DEF score_writes
      <3>2. dir \in DOMAIN results
        BY <2>2 DEF Basics, Types
      <3> HIDE DEF dir, read, n
      <3> QED
        BY <3>1, <3>2
    <2>4. p \in alone => /\ Follow(target, left) /\ dir = n
                         /\ Going(target, left, dir, <<>>, read, m, made, rec, out, res)
      BY <1>1, <2>1, LoneAtWork DEF Where
    <2>5. n = resolve_run_dir /\ new = results'[n]
      OBVIOUS
    <2> HIDE DEF dir, read, n, m, target, left, made, rec, out, res, new
    <2>6. p \in alone =>
            /\ Tail(left) # <<>> => Going(target, Tail(left), 0, <<>>, <<>>, m, made, rec, out, new)
            /\ Tail(left) = <<>> => /\ runs # {} /\ Ended(target, m, made, rec, out, new)
                                    /\ target \notin {"eval", "eval-agent"}
      BY <2>1, <2>2, <2>3, <2>4, GoingScored
    <2> QED
      BY <1>1, <2>1, <2>5, <2>6, AloneSucceeds DEF target, left, made, rec, out, m
  <1> QED
    BY <1>2, <1>3

\* The README is brought up to date.
LEMMA WritesAll ==
    ASSUME Basics, NEW p \in Shells, update_writes(p), UpToDate(publishing[p], results)
    PROVE  readme' = results /\ UNCHANGED results
  <1> DEFINE block == publishing[p].block
  <1>1. /\ readme' = [d \in RunIds |-> IF d \in DOMAIN block THEN block[d] ELSE NoResults]
        /\ publishing[p].listed = {} /\ block # <<>> /\ UNCHANGED results
    BY DEF update_writes
  <1>2. publishing[p] # NotPublishing
    BY <1>1 DEF NotPublishing
  <1>3. DOMAIN block = HasResults /\ \A d \in DOMAIN block : block[d] = results[d]
    BY <1>1, <1>2 DEF Basics, PublishingInv, Collects, UpToDate
  <1> HIDE DEF block
  <1>4. \A d \in RunIds : readme'[d] = results[d]
    BY <1>1, <1>3 DEF HasResults
  <1>5. results \in [RunIds -> AllResults]
    BY DEF Basics, Types
  <1> QED
    BY <1>1, <1>4, <1>5

\* It lists, reads, and is done.
LEMMA AloneUpdates ==
    ASSUME Basics, AloneInv, UpdatesInv, NEW p \in Shells, update_writes(p)
    PROVE  AloneInv'
  <1> DEFINE dir == shell[p].dir  read == shell[p].read  n == resolve_run_dir  m == llm[p]
             todo == shell[p].todo  made == recorded[newest]
             target == shell[p].target  left == shell[p].left
             rec == recorded[n]  out == output[n]  res == results[n]
  <1>1. p \in Busy /\ UNCHANGED <<runs, recorded, output, results, newest, alone, llm>>
    BY InIsBusy DEF update_writes, recordings, history
  <1>2. /\ Succeeds(p) /\ Head(left) = "update_readme" /\ res = results'[n]
        /\ publishing[p].block # <<>>
    BY <1>1 DEF update_writes, In
  <1>3. p \in alone => readme' = results'
    BY WritesAll DEF UpdatesInv
  <1>4. p \in alone => /\ Follow(target, left)
                       /\ Going(target, left, dir, todo, read, m, made, rec, out, res)
    BY <1>1, LoneAtWork
  <1>5. runs # {}
    <2>1. publishing[p] # NotPublishing
      BY <1>2 DEF NotPublishing
    <2>2. DOMAIN publishing[p].block \subseteq HasResults /\ publishing[p].block \in Blocks
      BY <2>1 DEF Basics, PublishingInv, Collects, Types, Publishings
    <2>3. DOMAIN publishing[p].block # {}
      <3> DEFINE block == publishing[p].block
      <3>1. PICK S \in SUBSET RunIds : block \in [S -> AllResults]
        BY <2>2 DEF Blocks
      <3>2. block # <<>>
        BY <1>2
      <3> HIDE DEF block
      <3>3. S # {}
        <4>1. <<>> \in [{} -> AllResults]
          OBVIOUS
        <4> QED
          BY <3>1, <3>2, <4>1
      <3> QED
        BY <3>1, <3>3 DEF block
    <2> QED
      BY <2>2, <2>3 DEF HasResults, Basics, FilesInv
  <1>6. n = resolve_run_dir
    OBVIOUS
  <1> HIDE DEF dir, read, n, m, todo, target, left, made, rec, out, res
  <1>7. p \in alone => Tail(left) = <<>> /\ Ended(target, m, made, rec, out, res)
    BY <1>2, <1>4, GoingPublishes
  <1> QED
    BY <1>1, <1>2, <1>3, <1>5, <1>6, <1>7, AloneSucceeds DEF target, left, made, rec, out, m

\* While it lists and reads, the files stay as they are.
LEMMA AloneCollects ==
    ASSUME Basics, AloneInv, NEW p \in Shells, update_lists(p) \/ update_reads(p)
    PROVE  AloneInv'
  <1>1. p \in Busy /\ UNCHANGED <<files, newest, alone, llm>>
    BY InIsBusy DEF update_lists, update_reads, history
  <1>2. CASE Fails(p)
    BY <1>1, <1>2, AloneFails
  <1>3. CASE UNCHANGED shell
    <2>1. resolve_run_dir' = resolve_run_dir /\ Busy' = Busy
      BY <1>1, <1>3, LatestStays DEF Busy, files, recordings
    <2> QED
      BY <1>1, <1>3, <2>1 DEF AloneInv, files, recordings
  <1> QED
    BY <1>2, <1>3 DEF update_lists, update_reads

\* A target begins.
LEMMA AloneMakes ==
    ASSUME Basics, AloneInv, NEW p \in Shells, NEW target \in Targets, make(p, target)
    PROVE  AloneInv'
  <1>1. CASE Busy # {}
    BY <1>1 DEF make, AloneInv
  <1>2. CASE Busy = {}
    <2> DEFINE sh == [Prompt(target, FALSE) EXCEPT !.left = stages(target)]
               n == resolve_run_dir  m == llm'[p]
    <2>1. /\ alone' = {p} /\ UNCHANGED <<files, newest>>
          /\ shell' = [shell EXCEPT ![p] = sh]
      BY <1>2 DEF make
    <2>2. /\ sh.target = target /\ sh.left = stages(target) /\ sh.ok = FALSE /\ sh.dir = 0
          /\ sh.todo = <<>> /\ sh.read = <<>>
      BY DEF Prompt
    <2> HIDE DEF sh
    <2>3. shell'[p] = sh /\ \A q \in Shells : q # p => shell'[q] = shell[q]
      BY <2>1 DEF Basics, Types
    <2>4. Busy' \subseteq {p}
      <3>1. \A q \in Shells : shell[q].left = <<>>
        BY <1>2 DEF Busy
      <3> QED
        BY <2>3, <3>1 DEF Busy
    <2>5. n = resolve_run_dir'
      BY <2>1, LatestStays DEF files, recordings
    <2> HIDE DEF n, m
    <2>6. Lone(sh, m, newest, recorded[newest], n, recorded[n], output[n], results[n]) /\ ~sh.ok
      BY <2>2, GoingBegins DEF Lone
    <2> QED
      BY <2>1, <2>3, <2>4, <2>5, <2>6 DEF AloneInv, files, recordings, m
  <1> QED
    BY <1>1, <1>2

\* Every step keeps what holds of a shell that no other overlapped.
LEMMA AloneStep ==
    ASSUME Basics, AloneInv, UpdatesInv, [Next]_vars
    PROVE  AloneInv'
  <1>1. CASE UNCHANGED vars
    <2>1. resolve_run_dir' = resolve_run_dir /\ Busy' = Busy
      BY <1>1, LatestStays DEF Busy, vars, files, recordings
    <2> QED
      BY <1>1, <2>1 DEF vars, files, recordings, history, AloneInv
  <1>2. ASSUME NEW p \in Shells, NEW target \in Targets, make(p, target)
        PROVE  AloneInv'
    BY <1>2, AloneMakes
  <1>3. ASSUME NEW p \in Shells, dies(p)
        PROVE  AloneInv'
    BY <1>3, AloneFails DEF dies, history
  <1>4. ASSUME NEW p \in Shells, Stage(p)
        PROVE  AloneInv'
    <2>1. CASE creates_run(p)
      BY <2>1, AloneCreates
    <2>2. CASE \E met \in BOOLEAN : records(p, met)
      BY <2>2, AloneRecords
    <2>3. CASE runner_ends(p)
      BY <2>3, AloneRan
    <2>4. CASE resolves(p)
      BY <2>4, AloneResolves
    <2>5. CASE skips(p)
      BY <2>5, AloneSkips
    <2>6. CASE baseline_writes(p)
      <3>1. Writes(p, "baseline", BaselineOutput)
        BY <2>6, WrittenTypes DEF Basics
      <3> QED
        BY <3>1, AloneWrites
    <2>7. ASSUME NEW reply \in llm[p].replies, evalrun_writes(p, reply)
          PROVE  AloneInv'
      <3>1. PICK o \in AgentOutputs : Writes(p, "evalrun", o) /\ o.provenance = Agent(p)
        BY <2>7, WrittenTypes DEF Basics
      <3> QED
        BY <3>1, AloneWrites
    <2>8. ASSUME NEW reply \in llm[p].replies, evalrun_raises(p, reply)
          PROVE  AloneInv'
      BY <2>8, AloneFails, InIsBusy DEF evalrun_raises, history
    <2>9. CASE writer_ends(p)
      BY <2>9, AloneWrote
    <2>10. CASE score_reads(p)
      BY <2>10, AloneReads
    <2>11. CASE score_writes(p)
      BY <2>11, AloneScores
    <2>12. CASE update_lists(p) \/ update_reads(p)
      BY <2>12, AloneCollects
    <2>13. CASE update_writes(p)
      BY <2>13, AloneUpdates
    <2> QED
      BY <1>4, <2>1, <2>2, <2>3, <2>4, <2>5, <2>6, <2>7, <2>8, <2>9, <2>10, <2>11, <2>12,
         <2>13
      DEF Stage
  <1> QED
    BY <1>1, <1>2, <1>3, <1>4 DEF Next

\* A step of p leaves the other shells, and what they publish, unless they missed a run.
LEMMA OthersStay ==
    ASSUME Basics, NEW p \in Shells,
           Stage(p) \/ dies(p) \/ (\E target \in Targets : make(p, target))
    PROVE  \A q \in Shells : q # p => /\ shell'[q] = shell[q]
                                      /\ publishing[q] = NotPublishing
                                           => publishing'[q] = NotPublishing
  <1>1. shell \in [Shells -> ShellRecords] /\ publishing \in [Shells -> Publishings]
    BY DEF Basics, Types
  <1>2. \A q \in Shells : q # p => shell'[q] = shell[q]
    <2>1. CASE UNCHANGED shell
      BY <2>1
    <2>2. CASE Succeeds(p) \/ Fails(p) \/ passes(p)
      BY <1>1, <2>2 DEF Succeeds, Fails, passes
    <2>3. CASE creates_run(p)
      <3>1. \/ Fails(p)
            \/ \E d \in RunIds : \E selected \in Todos :
                 Looks(p, d, selected, shell[p].late, shell[p].read)
        BY <2>3, CreatesKinds DEF Basics
      <3> QED
        BY <1>1, <3>1 DEF Fails, Looks
    <2>4. CASE \E met \in BOOLEAN : records(p, met)
      BY <1>1, <2>4 DEF records
    <2>5. CASE resolves(p)
      BY <1>1, <2>5 DEF resolves, Fails
    <2>6. CASE score_reads(p)
      BY <1>1, <2>6 DEF score_reads, Fails
    <2>7. CASE \E target \in Targets : make(p, target)
      BY <1>1, <2>7 DEF make
    <2> QED
      BY <2>1, <2>2, <2>3, <2>4, <2>5, <2>6, <2>7
      DEF Stage, dies, runner_ends, skips, baseline_writes, evalrun_writes, evalrun_raises,
          Writes, writer_ends, score_writes, update_lists, update_reads, update_writes
  <1>3. \A q \in Shells : q # p /\ publishing[q] = NotPublishing
                            => publishing'[q] = NotPublishing
    <2>1. CASE NoNews \/ UNCHANGED publishing
      BY <2>1 DEF NoNews
    <2>2. CASE dies(p) \/ update_lists(p) \/ update_writes(p)
      BY <1>1, <2>2 DEF dies, update_lists, update_writes, Publishes
    <2>3. CASE update_reads(p)
      BY <1>1, <2>3 DEF update_reads, Publishes
    <2>4. CASE score_writes(p)
      BY <1>1, <2>4 DEF score_writes, Misses
    <2> QED
      BY <2>1, <2>2, <2>3, <2>4, StepKinds DEF creates_run, records
  <1> QED
    BY <1>2, <1>3

\* What update_readme collects is up to date as long as nobody else scores, and is
\* dropped when it ends.
LEMMA UpdatesStep ==
    ASSUME Basics, AloneInv, UpdatesInv, [Next]_vars
    PROVE  UpdatesInv'
  <1>1. CASE UNCHANGED vars
    BY <1>1 DEF vars, files, history, UpdatesInv, In
  <1>2. UpToDate(NotPublishing, results')
    BY NothingRead DEF UpToDate, NotPublishing
  <1>3. ASSUME NEW p \in Shells,
               Stage(p) \/ dies(p) \/ (\E target \in Targets : make(p, target))
        PROVE  UpdatesInv'
    <2>1. \A q \in Shells : q # p => (~In(q, "update_readme"))' = ~In(q, "update_readme")
      BY <1>3, OthersStay DEF In
    <2>2. \A q \in alone' : q = p \/ (q \in alone /\ Busy \subseteq {q})
      <3>1. CASE \E target \in Targets : make(p, target)
        BY <3>1 DEF make
      <3>2. CASE Stage(p) \/ dies(p)
        <4>1. alone' = alone
          BY <3>2
          DEF Stage, dies, creates_run, records, runner_ends, resolves, skips, baseline_writes,
              evalrun_writes, evalrun_raises, Writes, writer_ends, score_reads, score_writes,
              update_lists, update_reads, update_writes, history
        <4> QED
          BY <4>1 DEF AloneInv
      <3> QED
        BY <1>3, <3>1, <3>2
    <2>3. Stage(p) \/ dies(p) => p \in Busy
      BY InIsBusy
      DEF Stage, dies, creates_run, records, runner_ends, resolves, skips, baseline_writes,
          evalrun_writes, evalrun_raises, Writes, writer_ends, score_reads, score_writes,
          update_lists, update_reads, update_writes
    <2>4. ASSUME NEW q \in Shells, q # p
          PROVE  /\ (~In(q, "update_readme") => publishing[q] = NotPublishing)'
                 /\ q \in alone' => UpToDate(publishing'[q], results')
      <3>1. (~In(q, "update_readme"))' => publishing'[q] = NotPublishing
        BY <1>3, <2>1, <2>4, OthersStay DEF UpdatesInv
      <3>2. q \in alone' => q \in alone /\ Busy \subseteq {q} /\ ~(Stage(p) \/ dies(p))
        BY <2>2, <2>3, <2>4
      <3>3. q \in alone' => UNCHANGED <<publishing, results>>
        BY <1>3, <3>2 DEF make, files
      <3> QED
        BY <3>1, <3>2, <3>3 DEF UpdatesInv
    <2>5. /\ (~In(p, "update_readme") => publishing[p] = NotPublishing)'
          /\ p \in alone' => UpToDate(publishing'[p], results')
      <3> DEFINE pub == publishing[p]
      <3>1. CASE publishing'[p] = NotPublishing
        BY <1>2, <3>1
      <3>2. CASE update_lists(p)
        <4> DEFINE there == {d \in runs : results[d] # NoResults}
        <4>1. In(p, "update_readme") /\ pub = NotPublishing
          BY <3>2 DEF update_lists
        <4>2. CASE UNCHANGED publishing
          BY <3>1, <4>1, <4>2
        <4>3. CASE /\ Publishes(p, [NotPublishing EXCEPT !.listed = there])
                   /\ UNCHANGED shell
          <5> DEFINE new == [NotPublishing EXCEPT !.listed = there]
          <5> HIDE DEF there
          <5>1. DOMAIN new.block = {} /\ new.missed = {}
            BY NothingRead DEF NotPublishing
          <5> HIDE DEF new
          <5>2. publishing'[p] = new
            BY <4>3 DEF Publishes, Basics, Types, new
          <5> QED
            BY <4>1, <4>3, <5>1, <5>2 DEF UpToDate, In
        <4> QED
          BY <3>2, <4>2, <4>3 DEF update_lists
      <3>3. CASE update_reads(p)
        <4>1. In(p, "update_readme") /\ UNCHANGED <<shell, results, alone>>
          BY <3>3 DEF update_reads, files, history
        <4>2. PICK d \in pub.listed :
                /\ d \in RunIds
                /\ LET next == Publishing(pub.listed \ {d}, noted(pub.block, d, results[d]),
                                          pub.missed)
                   IN  publishing' = [publishing EXCEPT ![p] = next] /\ next \in Publishings
          BY <3>3, ReadsForms DEF Basics
        <4> DEFINE block == noted(pub.block, d, results[d])
                   next == Publishing(pub.listed \ {d}, block, pub.missed)
        <4>3. publishing'[p] = next
          BY <4>2 DEF Basics, Types
        <4>4. next.block = block /\ next.missed = pub.missed
          BY DEF Publishing
        <4>5. UpToDate(pub, results) => UpToDate(next, results)
          <5>1. \A e \in DOMAIN block : IF e = d THEN block[e] = results[d]
                                        ELSE e \in DOMAIN pub.block /\ block[e] = pub.block[e]
            BY DEF noted
          <5> HIDE DEF block, next, pub
          <5> QED
            BY <4>4, <5>1 DEF UpToDate
        <4> HIDE DEF next
        <4> QED
          BY <4>1, <4>3, <4>5 DEF UpdatesInv, In
      <3>4. CASE ~update_lists(p) /\ ~update_reads(p)
        <4>1. CASE dies(p) \/ update_writes(p)
          <5>1. publishing'[p] = NotPublishing
            BY <4>1 DEF dies, update_writes, Publishes, Basics, Types
          <5> QED
            BY <3>1, <5>1
        <4>2. CASE ~dies(p) /\ ~update_writes(p)
          <5>1. ~In(p, "update_readme")
            BY <1>3, <3>4, <4>2
            DEF Stage, make, creates_run, records, runner_ends, resolves, skips,
                baseline_writes, evalrun_writes, evalrun_raises, Writes, writer_ends,
                score_reads, score_writes, In, Busy
          <5>2. pub = NotPublishing
            BY <5>1 DEF UpdatesInv
          <5>3. publishing'[p] = pub
            <6>1. NoNews \/ creates_run(p) \/ (\E met \in BOOLEAN : records(p, met))
                  \/ score_writes(p)
              BY <1>3, <3>4, <4>2, StepKinds
            <6> QED
              BY <5>2, <6>1 DEF NoNews, creates_run, records, score_writes, Misses
          <5> QED
            BY <3>1, <5>2, <5>3
        <4> QED
          BY <4>1, <4>2
      <3> QED
        BY <3>2, <3>3, <3>4
    <2> QED
      BY <2>4, <2>5 DEF UpdatesInv
  <1> QED
    BY <1>1, <1>3 DEF Next

\* Every step answers only what was recorded.
LEMMA OutputsStep ==
    ASSUME Basics, OutputsInv, [Next]_vars
    PROVE  OutputsInv'
  <1>1. CASE UNCHANGED <<recorded, output>>
    BY <1>1 DEF OutputsInv
  <1>2. ASSUME NEW p \in Shells, NEW met \in BOOLEAN, records(p, met)
        PROVE  OutputsInv'
    <2>1. /\ recorded' = [recorded EXCEPT ![shell[p].dir] = @ \cup {current(p)}]
          /\ UNCHANGED output
      BY <1>2 DEF records
    <2>2. \A d \in RunIds : recorded[d] \subseteq recorded'[d]
      BY <2>1 DEF Basics, Types
    <2> QED
      BY <2>1, <2>2 DEF OutputsInv
  <1>3. ASSUME NEW p \in Shells, NEW stage, NEW o, Writes(p, stage, o)
        PROVE  OutputsInv'
    <2> DEFINE dir == shell[p].dir  s == current(p)
    <2>1. /\ output' = [output EXCEPT ![dir][s] = o] /\ UNCHANGED recorded
          /\ s \in recorded[dir]
      BY <1>3 DEF Writes
    <2>2. output \in [RunIds -> [Scenarios -> Outputs]]
      BY DEF Basics, Types
    <2> HIDE DEF dir, s
    <2>3. \A d \in RunIds : \A r \in Scenarios :
            output'[d][r] = output[d][r] \/ (d = dir /\ r = s)
      BY <2>1, <2>2
    <2> QED
      BY <2>1, <2>3 DEF OutputsInv
  <1>4. ASSUME NEW p \in Shells,
               Stage(p) \/ dies(p) \/ \E target \in Targets : make(p, target)
        PROVE  \/ \E met \in BOOLEAN : records(p, met)
               \/ \E stage, o : Writes(p, stage, o)
               \/ UNCHANGED <<recorded, output>>
    BY <1>4, WrittenTypes
    DEF Basics, Stage, dies, make, creates_run, runner_ends, resolves, skips, evalrun_raises,
        writer_ends, score_reads, score_writes, update_lists, update_reads, update_writes,
        files, recordings
  <1> QED
    BY <1>1, <1>2, <1>3, <1>4 DEF Next, vars, files, recordings

\* What holds of targets that no other overlapped.
Undisturbed == Basics /\ AloneInv /\ UpdatesInv /\ OutputsInv

\* It holds always.
LEMMA UndisturbedAlways == Spec => []Undisturbed
  <1>1. ASSUME Init PROVE AloneInv /\ UpdatesInv /\ OutputsInv
    <2>1. alone = {} /\ \A p \in Shells : publishing[p] = NotPublishing
      BY <1>1 DEF Init
    <2>2. \A d \in RunIds : \A s \in Scenarios : output[d][s] = NoOutput
      BY <1>1 DEF Init
    <2> QED
      BY <2>1, <2>2 DEF AloneInv, UpdatesInv, OutputsInv
  <1>2. Undisturbed /\ Basics' /\ [Next]_vars => Undisturbed'
    BY AloneStep, UpdatesStep, OutputsStep DEF Undisturbed
  <1>3. Init /\ Basics => Undisturbed
    BY <1>1 DEF Undisturbed
  <1> QED
    BY <1>2, <1>3, BasicsAlways, PTL DEF Spec

\* The latest run, after a target that ended well and alone.
LEMMA AfterSuccess ==
    ASSUME Undisturbed, NEW p \in alone, shell[p].ok
    PROVE  LET n == resolve_run_dir
               target == shell[p].target
           IN  /\ Latest(n) /\ n \in RunIds
               /\ Ended(target, llm[p], recorded[newest], recorded[n], output[n], results[n])
               /\ recorded[n] \in SUBSET Scenarios /\ output[n] \in [Scenarios -> Outputs]
               /\ \A s \in Scenarios : output[n][s] # NoOutput => s \in recorded[n]
               /\ Mine(target, llm[p]) \subseteq Written
               /\ target \in {"eval", "eval-agent"} => readme = results
  <1> DEFINE n == resolve_run_dir
  <1>1. /\ runs # {}
        /\ Ended(shell[p].target, llm[p], recorded[newest], recorded[n], output[n], results[n])
        /\ shell[p].target \in {"eval", "eval-agent"} => readme = results
    BY DEF Undisturbed, AloneInv, Lone
  <1>2. Latest(n) /\ n \in RunIds
    BY <1>1, LatestIs DEF Undisturbed, Basics, Types, Latest
  <1> HIDE DEF n
  <1>3. /\ recorded[n] \in SUBSET Scenarios /\ output[n] \in [Scenarios -> Outputs]
        /\ \A s \in Scenarios : output[n][s] # NoOutput => s \in recorded[n]
    BY <1>2 DEF Undisturbed, Basics, Types, OutputsInv
  <1>4. Mine(shell[p].target, llm[p]) \subseteq Written
    BY DEF Mine, Written
  <1> QED
    BY <1>1, <1>2, <1>3, <1>4 DEF n

\* There is one latest run.
LEMMA OneLatest ==
    ASSUME Basics, NEW d, NEW e, Latest(d), Latest(e)
    PROVE  d = e
  <1>1. d \in Nat /\ e \in Nat /\ d <= e /\ e <= d
    BY PipelineAssumption DEF Latest, Basics, Types, RunIds
  <1> QED
    BY <1>1

\* A target that ended well and was not overlapped by another left the latest run
\* scored as it stands, and published if it publishes.
THEOREM SuccessAlwaysPublished == Spec => []SuccessIsPublished
  <1>1. ASSUME Undisturbed PROVE SuccessIsPublished
    <2> SUFFICES ASSUME NEW p \in alone, shell[p].ok
                 PROVE  \E d \in runs :
                          LET target == shell[p].target
                              there == {s \in Scenarios : output[d][s] # NoOutput}
                          IN /\ Latest(d)
                             /\ results[d] = results_of([s \in there |-> output[d][s]])
                             /\ target # "score" => there = recorded[d]
                             /\ target = "eval" /\ newest = d => there = Scenarios
                             /\ target \in {"eval", "eval-agent"} => readme = results
      BY DEF SuccessIsPublished
    <2> DEFINE n == resolve_run_dir  target == shell[p].target  m == llm[p]
               made == recorded[newest]  rec == recorded[n]  out == output[n]
               res == results[n]
    <2>1. /\ Latest(n) /\ n \in runs /\ Ended(target, m, made, rec, out, res)
          /\ rec \in SUBSET Scenarios /\ out \in [Scenarios -> Outputs]
          /\ \A s \in Scenarios : out[s] # NoOutput => s \in rec
          /\ Mine(target, m) \subseteq Written
          /\ target \in {"eval", "eval-agent"} => readme = results
      BY <1>1, AfterSuccess DEF Latest
    <2>2. newest = n => made = rec
      OBVIOUS
    <2> HIDE DEF n, target, m, made, rec, out, res
    <2>3. res = results_of([s \in Answers(out) |-> out[s]])
      BY <2>1 DEF Ended, Current
    <2>4. target # "score" => Answers(out) = rec
      BY <2>1, WrittenIsThere DEF Ended, Answered, Answers
    <2>5. target = "eval" /\ newest = n => Answers(out) = Scenarios
      BY <2>1, <2>2, <2>4 DEF Ended, Complete
    <2> QED
      BY <2>1, <2>3, <2>4, <2>5 DEF target, rec, out, res, Answers
  <1> QED
    BY <1>1, UndisturbedAlways, PTL

\* And its results name who answered for this target, with which model, and nobody else.
THEOREM ProvenanceAlwaysSaysWhoRan == Spec => []ProvenanceSaysWhoRan
  <1>1. ASSUME Undisturbed PROVE ProvenanceSaysWhoRan
    <2> SUFFICES ASSUME NEW p \in alone, shell[p].ok, shell[p].target # "score",
                        NEW d \in runs, Latest(d)
                 PROVE  results[d].provenance =
                          {IF shell[p].target = "eval-agent" THEN Agent(p) ELSE Baseline}
      BY DEF ProvenanceSaysWhoRan
    <2> DEFINE n == resolve_run_dir  target == shell[p].target  m == llm[p]
               rec == recorded[n]  out == output[n]  res == results[n]
               who == IF target = "eval-agent" THEN Agent(p) ELSE Baseline
    <2>1. /\ Latest(n) /\ Ended(target, m, recorded[newest], rec, out, res)
          /\ \A s \in Scenarios : out[s] # NoOutput => s \in rec
      BY <1>1, AfterSuccess
    <2>2. d = n
      BY <1>1, <2>1, OneLatest DEF Undisturbed
    <2>3. \A o \in Mine(target, m) : o.provenance = who
      BY WrittenIsThere DEF Mine, Agent
    <2> HIDE DEF n, m, rec, out, res, who
    <2>4. /\ Answers(out) # {}
          /\ res = results_of([s \in Answers(out) |-> out[s]])
          /\ \A s \in Answers(out) : out[s] \in Mine(target, m)
      BY <2>1 DEF Ended, Current, Answered, Answers
    <2>5. res.provenance = {out[s].provenance : s \in Answers(out)}
      <3> DEFINE given == [s \in Answers(out) |-> out[s]]
      <3>1. DOMAIN given = Answers(out) /\ \A s \in Answers(out) : given[s] = out[s]
        OBVIOUS
      <3> HIDE DEF given
      <3>2. results_of(given).provenance = {given[s].provenance : s \in DOMAIN given}
        BY DEF results_of, provenance
      <3>3. res = results_of(given)
        BY <2>4 DEF given
      <3> QED
        BY <3>1, <3>2, <3>3
    <2>6. res.provenance = {who}
      BY <2>3, <2>4, <2>5
    <2> QED
      BY <2>2, <2>6 DEF res, who
  <1> QED
    BY <1>1, UndisturbedAlways, PTL

=============================================================================
