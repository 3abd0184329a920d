--------------------------- MODULE PhasePolicyProofs ---------------------------
(***************************************************************************)
(* Theorems about PhasePolicy, for every pair of angles: the facts of a    *)
(* transition are the boundaries it encounters, each once and in the order *)
(* it meets them; only forward facts change the state, and the last one    *)
(* alone decides it.                                                       *)
(***************************************************************************)
EXTENDS PhasePolicy, FiniteSetTheorems, WellFoundedInduction, TLAPS

-----------------------------------------------------------------------------
\* Ranks in a finite set, by distances that tell its elements apart.

Upto(S, d, x) == {y \in S : d[y] <= d[x]}
Rank(S, d, x) == Cardinality(Upto(S, d, x))

LEMMA UptoFinite ==
  ASSUME NEW S, IsFiniteSet(S), NEW d, NEW x \in S, d[x] \in Int
  PROVE  /\ IsFiniteSet(Upto(S, d, x))
         /\ Rank(S, d, x) \in 1..Cardinality(S)
<1>1. /\ Upto(S, d, x) \in SUBSET S
      /\ x \in Upto(S, d, x)
  BY DEF Upto
<1>2. /\ IsFiniteSet(Upto(S, d, x))
      /\ Cardinality(Upto(S, d, x)) <= Cardinality(S)
  BY <1>1, FS_Subset
<1>3. Cardinality(Upto(S, d, x)) # 0
  BY <1>1, <1>2, FS_EmptySet
<1> QED
  BY <1>2, <1>3, FS_CardinalityType DEF Rank

\* The rank grows with the distance, strictly.
LEMMA RankMonotone ==
  ASSUME NEW S, IsFiniteSet(S), NEW d, \A x \in S : d[x] \in Int,
         NEW x \in S, NEW y \in S
  PROVE  d[x] <= d[y] <=> Rank(S, d, x) <= Rank(S, d, y)
<1>1. /\ IsFiniteSet(Upto(S, d, x)) /\ IsFiniteSet(Upto(S, d, y))
      /\ Rank(S, d, x) \in Nat /\ Rank(S, d, y) \in Nat
  BY UptoFinite
<1>2. CASE d[x] <= d[y]
  <2>1. Upto(S, d, x) \in SUBSET Upto(S, d, y)
    BY <1>2 DEF Upto
  <2> QED
    BY <1>1, <1>2, <2>1, FS_Subset DEF Rank
<1>3. CASE d[y] < d[x]
  <2>1. /\ Upto(S, d, y) \in SUBSET Upto(S, d, x)
        /\ x \in Upto(S, d, x) /\ x \notin Upto(S, d, y)
    BY <1>3 DEF Upto
  <2>2. Rank(S, d, y) <= Rank(S, d, x) /\ Rank(S, d, x) # Rank(S, d, y)
    BY <1>1, <2>1, FS_Subset DEF Rank
  <2> QED
    BY <1>1, <1>3, <2>2
<1> QED
  BY <1>2, <1>3

\* Every rank up to the number of elements is some element's, and one's only.
LEMMA RankTaken ==
  ASSUME NEW S, IsFiniteSet(S), NEW d, \A x \in S : d[x] \in Int,
         \A x, y \in S : d[x] = d[y] => x = y,
         NEW k \in 1..Cardinality(S)
  PROVE  \E x \in S : Rank(S, d, x) = k
<1> DEFINE n == Cardinality(S)
           rank == [x \in S |-> Rank(S, d, x)]
<1>1. n \in Nat
  BY FS_CardinalityType
<1>2. IsFiniteSet(1..n) /\ Cardinality(1..n) = n
  <2> HIDE DEF n
  <2> QED  BY <1>1, FS_Interval
<1>3. rank \in [S -> 1..n]
  BY UptoFinite
<1>4. \A x, y \in S : Rank(S, d, x) = Rank(S, d, y) => x = y
  <2> SUFFICES ASSUME NEW x \in S, NEW y \in S, Rank(S, d, x) = Rank(S, d, y)
               PROVE  x = y
    OBVIOUS
  <2>1. Rank(S, d, x) \in Nat
    BY UptoFinite
  <2>2. d[x] <= d[y] /\ d[y] <= d[x]
    BY <2>1, RankMonotone
  <2> QED
    BY <2>2
<1>5. rank \in Injection(S, 1..n)
  BY <1>3, <1>4 DEF Injection, IsInjective
<1>6. rank \in Surjection(S, 1..n)
  <2> HIDE DEF rank
  <2> QED  BY <1>2, <1>5, FS_Injection
<1>7. \E x \in S : rank[x] = k
  BY <1>6 DEF Surjection
<1> QED
  BY <1>7

-----------------------------------------------------------------------------
\* Encountered boundaries.

Distances(start, delta) == [b \in BoundaryDegrees |-> EncounterDistance(b, start, delta)]

\* Where a transition started: the predecessor's angle, whichever way it went.
StartOf(currentDegrees, delta) == NormalizePhase(NormalizePhase(currentDegrees) - delta)

LEMMA Normalized ==
  ASSUME NEW value \in Int
  PROVE  NormalizePhase(value) \in 0..359
BY DEF NormalizePhase, FullCircle

LEMMA DistanceType ==
  ASSUME NEW start \in Int, NEW delta \in Int, NEW b \in BoundaryDegrees
  PROVE  Distances(start, delta)[b] = EncounterDistance(b, start, delta)
         /\ EncounterDistance(b, start, delta) \in 0..359
BY DEF Distances, EncounterDistance, NormalizePhase, FullCircle, BoundaryDegrees

\* No two boundaries lie at the same distance.
LEMMA DistanceInjective ==
  ASSUME NEW start \in Int, NEW delta \in Int,
         NEW b \in BoundaryDegrees, NEW c \in BoundaryDegrees,
         EncounterDistance(b, start, delta) = EncounterDistance(c, start, delta)
  PROVE  b = c
BY DEF EncounterDistance, NormalizePhase, FullCircle, BoundaryDegrees

LEMMA BoundariesFinite == IsFiniteSet(BoundaryDegrees)
<1>1. IsFiniteSet({0} \cup {90})
  BY FS_Singleton, FS_AddElement
<1>2. IsFiniteSet({0} \cup {90} \cup {180})
  BY <1>1, FS_AddElement
<1>3. IsFiniteSet({0} \cup {90} \cup {180} \cup {270})
  BY <1>2, FS_AddElement
<1>4. BoundaryDegrees = {0} \cup {90} \cup {180} \cup {270}
  BY DEF BoundaryDegrees
<1> QED
  BY <1>3, <1>4

LEMMA EncounteredFinite ==
  ASSUME NEW start, NEW delta
  PROVE  /\ EncounteredBoundaries(start, delta) \in SUBSET BoundaryDegrees
         /\ IsFiniteSet(EncounteredBoundaries(start, delta))
         /\ Cardinality(EncounteredBoundaries(start, delta)) \in Nat
<1>1. EncounteredBoundaries(start, delta) \in SUBSET BoundaryDegrees
  BY DEF EncounteredBoundaries
<1> QED
  BY <1>1, BoundariesFinite, FS_Subset, FS_CardinalityType

BoundaryFacts == [boundary : BoundaryDegrees, direction : {"FORWARD", "REVERSE", "STATIONARY"}]

\* For any two angles, the facts of a transition (deriveBoundaryFacts,
\* dynamic_execution.go:110-154) are the boundaries it encounters, each once, in
\* the order of their distances and in the transition's direction, and nothing else.
THEOREM FactsByRank ==
  ASSUME NEW currentDegrees \in Int, NEW delta \in Int
  PROVE  LET start       == StartOf(currentDegrees, delta)
             encountered == EncounteredBoundaries(start, delta)
             facts       == DeriveBoundaryFacts(currentDegrees, delta)
         IN  /\ facts \in Seq(BoundaryFacts)
             /\ Len(facts) = Cardinality(encountered)
             /\ \A k \in 1..Len(facts) :
                  /\ facts[k].boundary \in encountered
                  /\ Rank(encountered, Distances(start, delta), facts[k].boundary) = k
                  /\ facts[k].direction = PhaseTransitionDirection(delta)
<1> DEFINE start       == StartOf(currentDegrees, delta)
           encountered == EncounteredBoundaries(start, delta)
           facts       == DeriveBoundaryFacts(currentDegrees, delta)
           n           == Cardinality(encountered)
           d           == Distances(start, delta)
           AtRank(k)   == CHOOSE b \in encountered : Rank(encountered, d, b) = k
<1>1. start \in Int
  BY Normalized DEF StartOf
<1>2. encountered \in SUBSET BoundaryDegrees /\ IsFiniteSet(encountered) /\ n \in Nat
  BY EncounteredFinite
<1>3. \A b \in BoundaryDegrees : d[b] = EncounterDistance(b, start, delta) /\ d[b] \in Int
  <2> HIDE DEF start, d
  <2> QED  BY <1>1, DistanceType DEF d
<1>4. \A b, c \in encountered : d[b] = d[c] => b = c
  <2> HIDE DEF start, d, encountered
  <2> QED  BY <1>1, <1>2, <1>3, DistanceInjective
<1>5. \A b \in encountered :
        Rank(encountered, d, b) =
          Cardinality({c \in encountered :
                         EncounterDistance(c, start, delta) <= EncounterDistance(b, start, delta)})
  <2> HIDE DEF start, d, encountered
  <2> QED  BY <1>2, <1>3 DEF Rank, Upto
<1>6. facts = [k \in 1..n |->
                 [boundary |-> AtRank(k), direction |-> PhaseTransitionDirection(delta)]]
  <2>1. \A k : AtRank(k) =
          CHOOSE b \in encountered :
            Cardinality({c \in encountered :
                           EncounterDistance(c, start, delta) <= EncounterDistance(b, start, delta)}) = k
    <3> HIDE DEF start, d, encountered
    <3> QED  BY <1>5
  <2> HIDE DEF AtRank
  <2> QED
    BY <2>1 DEF DeriveBoundaryFacts, StartOf
<1>7. \A k \in 1..n : AtRank(k) \in encountered /\ Rank(encountered, d, AtRank(k)) = k
  <2> HIDE DEF start, d, encountered
  <2>1. \A k \in 1..Cardinality(encountered) : \E b \in encountered : Rank(encountered, d, b) = k
    BY <1>2, <1>3, <1>4, RankTaken
  <2> QED
    BY <2>1
<1>8. PhaseTransitionDirection(delta) \in {"FORWARD", "REVERSE", "STATIONARY"}
  BY DEF PhaseTransitionDirection
<1> HIDE DEF facts, n, AtRank, d, encountered, start
<1>9. facts \in Seq(BoundaryFacts) /\ Len(facts) = n
  BY <1>2, <1>6, <1>7, <1>8 DEF BoundaryFacts
<1>10. \A k \in 1..n : /\ facts[k].boundary = AtRank(k)
                       /\ facts[k].direction = PhaseTransitionDirection(delta)
  BY <1>6
<1> QED
  BY <1>7, <1>9, <1>10 DEF facts, n, d, encountered, start

-----------------------------------------------------------------------------
\* The fold over the facts of one transition, which all have one direction.

\* What the recursive definition in EvaluateDynamicExecution stands for.
IsFold(after, facts, priorState) ==
  after = [k \in 0..Len(facts) |->
             IF k = 0 THEN [outcome |-> "NO_TRANSITION", state |-> priorState]
                      ELSE EvaluateBoundaryPolicy(facts[k], after[k - 1].state)]

LEMMA FoldUsed ==
  ASSUME NEW facts \in Seq(BoundaryFacts), NEW priorState,
         \E table : IsFold(table, facts, priorState)
  PROVE  \E after :
           /\ after[0] = [outcome |-> "NO_TRANSITION", state |-> priorState]
           /\ \A k \in 1..Len(facts) : after[k] = EvaluateBoundaryPolicy(facts[k], after[k - 1].state)
           /\ EvaluateDynamicExecution(facts, priorState) =
                [ outcomes |-> [k \in 1..Len(facts) |-> after[k].outcome],
                  state    |-> after[Len(facts)].state ]
<1> DEFINE after == CHOOSE table : IsFold(table, facts, priorState)
<1>1. IsFold(after, facts, priorState)
  OBVIOUS
<1>2. EvaluateDynamicExecution(facts, priorState) =
        [ outcomes |-> [k \in 1..Len(facts) |-> after[k].outcome],
          state    |-> after[Len(facts)].state ]
  BY DEF EvaluateDynamicExecution, IsFold
<1>3. Len(facts) \in Nat
  OBVIOUS
<1> DEFINE value(k) == IF k = 0 THEN [outcome |-> "NO_TRANSITION", state |-> priorState]
                       ELSE EvaluateBoundaryPolicy(facts[k], after[k - 1].state)
<1> HIDE DEF after
<1>4. after = [k \in 0..Len(facts) |-> value(k)]
  BY <1>1 DEF IsFold
<1>5. \A k \in 0..Len(facts) : after[k] = value(k)
  <2> HIDE DEF value
  <2> QED  BY <1>4
<1>6. after[0] = value(0) /\ \A k \in 1..Len(facts) : after[k] = value(k)
  <2> HIDE DEF value
  <2> QED  BY <1>3, <1>5
<1>7. \A k \in 1..Len(facts) : value(k) = EvaluateBoundaryPolicy(facts[k], after[k - 1].state)
  OBVIOUS
<1>8. value(0) = [outcome |-> "NO_TRANSITION", state |-> priorState]
  OBVIOUS
<1> HIDE DEF value
<1>9. /\ after[0] = [outcome |-> "NO_TRANSITION", state |-> priorState]
      /\ \A k \in 1..Len(facts) : after[k] = EvaluateBoundaryPolicy(facts[k], after[k - 1].state)
  BY <1>6, <1>7, <1>8
<1> QED
  BY <1>2, <1>9

\* What takes the place of induction.
LEMMA LeastNumber ==
  ASSUME NEW n \in Nat, NEW S \in SUBSET (0..n), S # {}
  PROVE  \E k \in S : \A m \in S : k <= m
<1> DEFINE upTo(k) == 0..k
           W == {upTo(k) : k \in S}
<1>1. W \in SUBSET SUBSET (0..n) /\ W # {}
  <2>1. \A k \in S : upTo(k) \in SUBSET (0..n)
    OBVIOUS
  <2> HIDE DEF upTo
  <2> QED  BY <2>1
<1>2. IsWellFoundedOn(StrictSubsetOrdering(0..n), SUBSET (0..n))
  <2>1. IsFiniteSet(0..n)
    BY FS_Interval
  <2>2. PICK all : all = 0..n
    OBVIOUS
  <2>3. FiniteSubsetsOf(all) = SUBSET all
    BY <2>1, <2>2, FS_FiniteSubsetsOfFinite
  <2> QED
    BY <2>2, <2>3, FS_StrictSubsetOrderingWellFounded
<1>3. PICK T \in W : \A U \in W : <<U, T>> \notin StrictSubsetOrdering(0..n)
  <2> HIDE DEF W
  <2> QED  BY <1>1, <1>2, WFMin
<1>4. PICK k \in S : T = upTo(k)
  OBVIOUS
<1>5. \A m \in S : ~(m < k)
  <2> SUFFICES ASSUME NEW m \in S, m < k PROVE FALSE
    OBVIOUS
  <2>1. upTo(m) \in W /\ upTo(m) \subseteq upTo(k) /\ k \in upTo(k) /\ k \notin upTo(m)
    OBVIOUS
  <2> HIDE DEF W, upTo
  <2>2. <<upTo(m), upTo(k)>> \in StrictSubsetOrdering(0..n)
    BY <1>1, <1>4, <2>1 DEF StrictSubsetOrdering
  <2> QED
    BY <1>3, <1>4, <2>1, <2>2
<1> QED
  BY <1>5

\* Forward facts: each yields its own outcome and the last one the state.
LEMMA ForwardExecution ==
  ASSUME NEW facts \in Seq(BoundaryFacts), NEW priorState,
         \A k \in 1..Len(facts) : facts[k].direction = "FORWARD"
  PROVE  /\ EvaluateDynamicExecution(facts, priorState).outcomes =
              [k \in 1..Len(facts) |-> ForwardBoundaryPolicy(facts[k].boundary).outcome]
         /\ EvaluateDynamicExecution(facts, priorState).state =
              IF Len(facts) = 0 THEN priorState
              ELSE ForwardBoundaryPolicy(facts[Len(facts)].boundary).state
<1> DEFINE value(k) == IF k = 0 THEN [outcome |-> "NO_TRANSITION", state |-> priorState]
                       ELSE ForwardBoundaryPolicy(facts[k].boundary)
           table == [k \in 0..Len(facts) |-> value(k)]
<1>1. Len(facts) \in Nat
  OBVIOUS
<1>2. \A k \in 1..Len(facts) : \A state :
        EvaluateBoundaryPolicy(facts[k], state) = ForwardBoundaryPolicy(facts[k].boundary)
  BY DEF EvaluateBoundaryPolicy
<1>3. IsFold(table, facts, priorState)
  BY <1>1, <1>2 DEF IsFold
<1>4. PICK after :
        /\ after[0] = [outcome |-> "NO_TRANSITION", state |-> priorState]
        /\ \A k \in 1..Len(facts) : after[k] = EvaluateBoundaryPolicy(facts[k], after[k - 1].state)
        /\ EvaluateDynamicExecution(facts, priorState) =
             [ outcomes |-> [k \in 1..Len(facts) |-> after[k].outcome],
               state    |-> after[Len(facts)].state ]
  BY <1>3, FoldUsed
<1>5. \A k \in 1..Len(facts) : after[k] = ForwardBoundaryPolicy(facts[k].boundary)
  BY <1>2, <1>4
<1> QED
  BY <1>1, <1>4, <1>5

\* Facts that are not forward leave everything as it was.
LEMMA UnmovedExecution ==
  ASSUME NEW facts \in Seq(BoundaryFacts), NEW priorState,
         \A k \in 1..Len(facts) : facts[k].direction # "FORWARD"
  PROVE  /\ EvaluateDynamicExecution(facts, priorState).outcomes =
              [k \in 1..Len(facts) |-> "NO_TRANSITION"]
         /\ EvaluateDynamicExecution(facts, priorState).state = priorState
<1> DEFINE kept == [outcome |-> "NO_TRANSITION", state |-> priorState]
           table == [k \in 0..Len(facts) |-> kept]
<1>1. Len(facts) \in Nat
  OBVIOUS
<1>2. \A k \in 1..Len(facts) : \A state :
        EvaluateBoundaryPolicy(facts[k], state) = [outcome |-> "NO_TRANSITION", state |-> state]
  BY DEF EvaluateBoundaryPolicy
<1>3. IsFold(table, facts, priorState)
  BY <1>1, <1>2 DEF IsFold
<1>4. PICK after :
        /\ after[0] = kept
        /\ \A k \in 1..Len(facts) : after[k] = EvaluateBoundaryPolicy(facts[k], after[k - 1].state)
        /\ EvaluateDynamicExecution(facts, priorState) =
             [ outcomes |-> [k \in 1..Len(facts) |-> after[k].outcome],
               state    |-> after[Len(facts)].state ]
  BY <1>3, FoldUsed
<1>5. \A k \in 0..Len(facts) : after[k] = kept
  <2> DEFINE Bad == {k \in Nat : k <= Len(facts) /\ after[k] # kept}
  <2>1. SUFFICES ASSUME Bad # {} PROVE FALSE
    BY <1>1
  <2>2. PICK k \in Bad : \A m \in Bad : k <= m
    <3>1. Bad \in SUBSET (0..Len(facts))
      BY <1>1
    <3> HIDE DEF Bad
    <3> QED  BY <1>1, <2>1, <3>1, LeastNumber
  <2>3. k # 0
    BY <1>4, <2>2
  <2>4. after[k - 1] = kept
    BY <2>2, <2>3
  <2> QED
    BY <1>1, <1>2, <1>4, <2>2, <2>3, <2>4
<1> QED
  BY <1>1, <1>2, <1>4, <1>5

-----------------------------------------------------------------------------
\* What a transition between two angles makes of a state.

PolicyOutcomes ==
  {"HOP_ON_ALLOCATE", "ENTER_HOLD_AND_TRAIL", "HOP_OFF_LIQUIDATE", "ENTER_DISREGARD", "NO_TRANSITION"}

LEMMA PolicyType ==
  ASSUME NEW b \in BoundaryDegrees
  PROVE  /\ ForwardBoundaryPolicy(b).outcome \in PolicyOutcomes
         /\ ForwardBoundaryPolicy(b).state \in DynamicExecutionStates
         /\ ForwardBoundaryPolicy(b).state = "LIQUIDATE" =>
              ForwardBoundaryPolicy(b).outcome = "HOP_OFF_LIQUIDATE"
         /\ ForwardBoundaryPolicy(b).state = "HOLD_AND_TRAIL" =>
              ForwardBoundaryPolicy(b).outcome = "ENTER_HOLD_AND_TRAIL"
BY DEF BoundaryDegrees, ForwardBoundaryPolicy, PolicyOutcomes, DynamicExecutionStates

\* Folding the facts of one transition over any state (dynamic_execution.go:76-87)
\* either orders nothing and keeps the state, or ends with the outcome that belongs
\* to the state reached: a bar that leaves a symbol in LIQUIDATE or HOLD_AND_TRAIL
\* orders the account accordingly, last.
THEOREM LastOutcomeDecides ==
  ASSUME NEW currentDegrees \in Int, NEW delta \in Int, NEW priorState \in DynamicExecutionStates
  PROVE  LET result == EvaluateDynamicExecution(DeriveBoundaryFacts(currentDegrees, delta), priorState)
             n      == Len(result.outcomes)
         IN  /\ result.outcomes \in Seq(PolicyOutcomes)
             /\ result.state \in DynamicExecutionStates
             /\ \/ /\ \A k \in 1..n : result.outcomes[k] = "NO_TRANSITION"
                   /\ result.state = priorState
                \/ /\ n # 0
                   /\ result.state = "LIQUIDATE" => result.outcomes[n] = "HOP_OFF_LIQUIDATE"
                   /\ result.state = "HOLD_AND_TRAIL" => result.outcomes[n] = "ENTER_HOLD_AND_TRAIL"
<1> DEFINE facts  == DeriveBoundaryFacts(currentDegrees, delta)
           result == EvaluateDynamicExecution(facts, priorState)
<1>1. /\ facts \in Seq(BoundaryFacts)
      /\ \A k \in 1..Len(facts) : facts[k].direction = PhaseTransitionDirection(delta)
  BY FactsByRank
<1> HIDE DEF facts
<1>2. Len(facts) \in Nat /\ \A k \in 1..Len(facts) : facts[k].boundary \in BoundaryDegrees
  <2>1. Len(facts) \in Nat /\ \A k \in 1..Len(facts) : facts[k] \in BoundaryFacts
    BY <1>1
  <2> QED
    BY <2>1 DEF BoundaryFacts
<1>3. CASE PhaseTransitionDirection(delta) = "FORWARD"
  <2>1. /\ result.outcomes = [k \in 1..Len(facts) |-> ForwardBoundaryPolicy(facts[k].boundary).outcome]
        /\ result.state = IF Len(facts) = 0 THEN priorState
                          ELSE ForwardBoundaryPolicy(facts[Len(facts)].boundary).state
    BY <1>1, <1>3, ForwardExecution
  <2> HIDE DEF result
  <2>2. \A k \in 1..Len(facts) : ForwardBoundaryPolicy(facts[k].boundary).outcome \in PolicyOutcomes
    BY <1>2, PolicyType
  <2>3. result.outcomes \in Seq(PolicyOutcomes) /\ Len(result.outcomes) = Len(facts)
    BY <1>2, <2>1, <2>2
  <2>4. CASE Len(facts) = 0
    BY <2>1, <2>3, <2>4 DEF result, facts
  <2>5. CASE Len(facts) # 0
    <3>1. PICK b \in BoundaryDegrees : b = facts[Len(facts)].boundary
      BY <1>2, <2>5
    <3>2. result.outcomes[Len(facts)] = ForwardBoundaryPolicy(b).outcome
      BY <1>2, <2>1, <2>5, <3>1
    <3>3. result.state = ForwardBoundaryPolicy(b).state
      BY <2>1, <2>5, <3>1
    <3> QED
      BY <2>3, <2>5, <3>2, <3>3, PolicyType DEF result, facts
  <2> QED
    BY <2>4, <2>5
<1>4. CASE PhaseTransitionDirection(delta) # "FORWARD"
  <2>1. /\ result.outcomes = [k \in 1..Len(facts) |-> "NO_TRANSITION"]
        /\ result.state = priorState
    BY <1>1, <1>4, UnmovedExecution
  <2> HIDE DEF result
  <2>2. result.outcomes \in Seq(PolicyOutcomes) /\ Len(result.outcomes) = Len(facts)
    BY <1>2, <2>1 DEF PolicyOutcomes
  <2>3. \A k \in 1..Len(facts) : result.outcomes[k] = "NO_TRANSITION"
    BY <2>1
  <2> QED
    BY <2>1, <2>2, <2>3 DEF result, facts
<1> QED
  BY <1>3, <1>4
=============================================================================
