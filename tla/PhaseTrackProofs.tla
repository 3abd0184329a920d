--------------------------- MODULE PhaseTrackProofs ---------------------------
(***************************************************************************)
(* Theorems about PhaseTrack, for every set of angles and every number of  *)
(* bars: the boundary facts of every step are those a walk along the       *)
(* shorter arc meets, the facts of all steps together count each boundary  *)
(* as often as the continuous signal passed it, and while the phase has    *)
(* only run forward the folded state is the one the angle alone asks for.  *)
(***************************************************************************)
EXTENDS PhaseTrack, PhasePolicyProofs

-----------------------------------------------------------------------------
\* One step along the shorter arc.

Circle == 0..359

LEMMA Displacement ==
  ASSUME NEW from \in Circle, NEW current \in Circle, NEW delta,
         delta = ShortestCircularDisplacement(from, current)
  PROVE  /\ delta \in -179..180
         /\ StartOf(current, delta) = from
         /\ \E turn \in {-1, 0, 1} : current = from + delta + turn * 360
<1>1. delta \in -179..180
  BY DEF ShortestCircularDisplacement, Circle, FullCircle
<1>2. PICK turn \in {-1, 0, 1} : current = from + delta + turn * 360
  BY DEF ShortestCircularDisplacement, Circle, FullCircle
<1>3. NormalizePhase(current) = current
  BY DEF NormalizePhase, Circle, FullCircle
<1>4. NormalizePhase(current - delta) = from
  BY <1>1, <1>2 DEF NormalizePhase, Circle, FullCircle
<1> QED
  BY <1>1, <1>2, <1>3, <1>4 DEF StartOf

\* The distance to a boundary, without the modulus.
LEMMA DistanceOnCircle ==
  ASSUME NEW from \in Circle, NEW b \in BoundaryDegrees, NEW delta \in Int
  PROVE  EncounterDistance(b, from, delta) =
           IF delta < 0 THEN (IF b <= from THEN from - b ELSE from - b + 360)
                        ELSE (IF from <= b THEN b - from ELSE b - from + 360)
BY DEF EncounterDistance, NormalizePhase, FullCircle, Circle, BoundaryDegrees

LEMMA DistanceAhead ==
  ASSUME NEW from \in Circle, NEW delta \in -179..180, NEW b \in BoundaryDegrees
  PROVE  b \in EncounteredBoundaries(from, delta) <=>
           /\ EncounterDistance(b, from, delta) > 0
           /\ EncounterDistance(b, from, delta) <= (IF delta < 0 THEN -delta ELSE delta)
BY DEF EncounteredBoundaries

Step(from, current, delta, facts) ==
  /\ from \in Circle
  /\ current \in Circle
  /\ delta = ShortestCircularDisplacement(from, current)
  /\ facts = DeriveBoundaryFacts(current, delta)

\* The facts of a step, from the angle it starts at.
LEMMA FactsOfStep ==
  ASSUME NEW from, NEW current, NEW delta, NEW facts, Step(from, current, delta, facts)
  PROVE  /\ delta \in -179..180
         /\ facts \in Seq(BoundaryFacts)
         /\ Len(facts) = Cardinality(EncounteredBoundaries(from, delta))
         /\ \A k \in 1..Len(facts) :
              /\ facts[k].boundary \in EncounteredBoundaries(from, delta)
              /\ Rank(EncounteredBoundaries(from, delta), Distances(from, delta),
                      facts[k].boundary) = k
              /\ facts[k].direction = PhaseTransitionDirection(delta)
<1>1. delta \in -179..180 /\ StartOf(current, delta) = from
  BY Displacement DEF Step
<1>2. current \in Int /\ delta \in Int
  BY <1>1 DEF Circle, Step
<1> DEFINE start == StartOf(current, delta)
           seen  == DeriveBoundaryFacts(current, delta)
<1>3. /\ seen \in Seq(BoundaryFacts)
      /\ Len(seen) = Cardinality(EncounteredBoundaries(start, delta))
      /\ \A k \in 1..Len(seen) :
           /\ seen[k].boundary \in EncounteredBoundaries(start, delta)
           /\ Rank(EncounteredBoundaries(start, delta), Distances(start, delta),
                   seen[k].boundary) = k
           /\ seen[k].direction = PhaseTransitionDirection(delta)
  BY <1>2, FactsByRank
<1>4. start = from /\ seen = facts
  BY <1>1 DEF Step
<1> HIDE DEF start, seen
<1> QED
  BY <1>1, <1>3, <1>4

\* Ranks tell the encountered boundaries apart, and each has a fact.
DistancesKnown(from, delta) ==
  /\ IsFiniteSet(EncounteredBoundaries(from, delta))
  /\ \A b \in EncounteredBoundaries(from, delta) :
       /\ b \in BoundaryDegrees
       /\ Distances(from, delta)[b] = EncounterDistance(b, from, delta)
       /\ EncounterDistance(b, from, delta) \in 0..359

LEMMA EncounteredDistances ==
  ASSUME NEW from \in Circle, NEW delta \in -179..180
  PROVE  DistancesKnown(from, delta)
<1>1. from \in Int /\ delta \in Int
  BY DEF Circle
<1>2. /\ EncounteredBoundaries(from, delta) \in SUBSET BoundaryDegrees
      /\ IsFiniteSet(EncounteredBoundaries(from, delta))
  BY EncounteredFinite
<1> QED
  BY <1>1, <1>2, DistanceType DEF DistancesKnown

LEMMA EncounteredRanks ==
  ASSUME NEW from \in Circle, NEW delta \in -179..180,
         NEW b \in EncounteredBoundaries(from, delta), NEW c \in EncounteredBoundaries(from, delta),
         Rank(EncounteredBoundaries(from, delta), Distances(from, delta), b) =
         Rank(EncounteredBoundaries(from, delta), Distances(from, delta), c)
  PROVE  b = c
<1> DEFINE S == EncounteredBoundaries(from, delta)
           d == Distances(from, delta)
<1>1. DistancesKnown(from, delta)
  BY EncounteredDistances
<1>2. /\ IsFiniteSet(S)
      /\ \A x \in S : x \in BoundaryDegrees /\ d[x] = EncounterDistance(x, from, delta) /\ d[x] \in Int
  <2>1. \A x \in S : /\ x \in BoundaryDegrees /\ d[x] = EncounterDistance(x, from, delta)
                     /\ EncounterDistance(x, from, delta) \in 0..359
    BY <1>1 DEF DistancesKnown
  <2>2. IsFiniteSet(S)
    BY <1>1 DEF DistancesKnown
  <2> HIDE DEF S, d
  <2> QED  BY <2>1, <2>2
<1>3. b \in S /\ c \in S /\ Rank(S, d, b) = Rank(S, d, c)
  OBVIOUS
<1>4. from \in Int /\ delta \in Int
  BY DEF Circle
<1> HIDE DEF S, d
<1>5. Rank(S, d, b) \in Nat
  BY <1>2, <1>3, UptoFinite
<1>6. d[b] <= d[c] /\ d[c] <= d[b]
  BY <1>2, <1>3, <1>5, RankMonotone
<1>7. EncounterDistance(b, from, delta) = EncounterDistance(c, from, delta)
  BY <1>2, <1>3, <1>6
<1> QED
  BY <1>2, <1>3, <1>4, <1>7, DistanceInjective

FactsOf(facts, b) == {k \in DOMAIN facts : facts[k].boundary = b}

\* A boundary has a fact if and only if it is encountered, and then only one.
LEMMA FactOfBoundary ==
  ASSUME NEW from, NEW current, NEW delta, NEW facts, Step(from, current, delta, facts),
         NEW b
  PROVE  /\ b \notin EncounteredBoundaries(from, delta) => FactsOf(facts, b) = {}
         /\ b \in EncounteredBoundaries(from, delta) =>
              \E r \in DOMAIN facts :
                /\ r = Rank(EncounteredBoundaries(from, delta), Distances(from, delta), b)
                /\ FactsOf(facts, b) = {r}
<1> DEFINE S == EncounteredBoundaries(from, delta)
           d == Distances(from, delta)
<1>1. /\ delta \in -179..180 /\ facts \in Seq(BoundaryFacts) /\ Len(facts) = Cardinality(S)
      /\ \A k \in 1..Len(facts) : facts[k].boundary \in S /\ Rank(S, d, facts[k].boundary) = k
  BY FactsOfStep
<1>2. /\ IsFiniteSet(S)
      /\ \A c \in S : d[c] \in Int
      /\ \A c \in S : \A e \in S : Rank(S, d, c) = Rank(S, d, e) => c = e
  <2>1. from \in Circle
    BY DEF Step
  <2>2. DistancesKnown(from, delta)
    BY <1>1, <2>1, EncounteredDistances
  <2>3. /\ IsFiniteSet(S)
        /\ \A c \in S : d[c] = EncounterDistance(c, from, delta)
                      /\ EncounterDistance(c, from, delta) \in 0..359
    BY <2>2 DEF DistancesKnown
  <2>4. \A c \in S : \A e \in S : Rank(S, d, c) = Rank(S, d, e) => c = e
    BY <1>1, <2>1, EncounteredRanks
  <2> QED
    BY <2>3, <2>4
<1>3. DOMAIN facts = 1..Len(facts)
  BY <1>1
<1> HIDE DEF S, d
<1>4. ASSUME b \in S
      PROVE  \E r \in DOMAIN facts : r = Rank(S, d, b) /\ FactsOf(facts, b) = {r}
  <2>1. PICK r : r = Rank(S, d, b)
    OBVIOUS
  <2>2. r \in DOMAIN facts
    BY <1>1, <1>2, <1>3, <1>4, <2>1, UptoFinite
  <2>3. facts[r].boundary = b
    BY <1>1, <1>2, <1>3, <1>4, <2>1, <2>2
  <2>4. \A k \in DOMAIN facts : facts[k].boundary = b => k = r
    BY <1>1, <1>3, <2>1
  <2> QED
    BY <2>1, <2>2, <2>3, <2>4 DEF FactsOf
<1>5. ASSUME b \notin S
      PROVE  FactsOf(facts, b) = {}
  BY <1>1, <1>3, <1>5 DEF FactsOf
<1> QED
  BY <1>4, <1>5 DEF S, d

\* A step counts each boundary it encounters once, in its own direction.
LEMMA CrossingsOfStep ==
  ASSUME NEW from, NEW current, NEW delta, NEW facts, Step(from, current, delta, facts),
         NEW b \in BoundaryDegrees
  PROVE  /\ Crossings(facts, b, "FORWARD") =
              IF delta > 0 /\ b \in EncounteredBoundaries(from, delta) THEN 1 ELSE 0
         /\ Crossings(facts, b, "REVERSE") =
              IF delta < 0 /\ b \in EncounteredBoundaries(from, delta) THEN 1 ELSE 0
<1>1. /\ delta \in -179..180 /\ facts \in Seq(BoundaryFacts)
      /\ \A k \in DOMAIN facts : facts[k].direction = PhaseTransitionDirection(delta)
  BY FactsOfStep
<1> DEFINE met == FactsOf(facts, b)
<1>2. \A direction \in {"FORWARD", "REVERSE"} :
        Crossings(facts, b, direction) =
          IF PhaseTransitionDirection(delta) = direction THEN Cardinality(met) ELSE 0
  <2> SUFFICES ASSUME NEW direction \in {"FORWARD", "REVERSE"}
               PROVE  Crossings(facts, b, direction) =
                        IF PhaseTransitionDirection(delta) = direction THEN Cardinality(met) ELSE 0
    OBVIOUS
  <2>1. {k \in DOMAIN facts : facts[k].boundary = b /\ facts[k].direction = direction} =
          IF PhaseTransitionDirection(delta) = direction THEN met ELSE {}
    BY <1>1 DEF FactsOf
  <2> QED
    BY <2>1, FS_EmptySet DEF Crossings
<1>3. Cardinality(met) = IF b \in EncounteredBoundaries(from, delta) THEN 1 ELSE 0
  <2>1. CASE b \in EncounteredBoundaries(from, delta)
    <3>1. PICK r : met = {r}
      BY <2>1, FactOfBoundary
    <3> QED
      BY <2>1, <3>1, FS_Singleton
  <2>2. CASE b \notin EncounteredBoundaries(from, delta)
    BY <2>2, FactOfBoundary, FS_EmptySet
  <2> QED
    BY <2>1, <2>2
<1> HIDE DEF met
<1> QED
  BY <1>1, <1>2, <1>3 DEF PhaseTransitionDirection

-----------------------------------------------------------------------------
\* The odometer.

LEMMA WholeTurns ==
  ASSUME NEW a \in Int, NEW q \in Int, NEW r \in 0..359, a = q * 360 + r
  PROVE  a \div 360 = q
OBVIOUS

LEMMA CopiesOfWrapped ==
  ASSUME NEW a \in Int, NEW q \in Int, NEW r \in Circle, NEW b \in BoundaryDegrees,
         a = q * 360 + r
  PROVE  CopiesBelow(a, b) = IF b <= r THEN q ELSE q - 1
<1>1. b \in 0..359 /\ r \in 0..359
  BY DEF Circle, BoundaryDegrees
<1>2. PICK c \in Int : c = a - b
  BY <1>1
<1>3. CASE b <= r
  <2>1. PICK rest \in 0..359 : c = q * 360 + rest
    <3>1. r - b \in 0..359 /\ c = q * 360 + (r - b)
      BY <1>1, <1>2, <1>3
    <3> QED
      BY <3>1
  <2>2. c \div 360 = q
    BY <2>1, WholeTurns
  <2> QED
    BY <1>2, <1>3, <2>2 DEF CopiesBelow, FullCircle
<1>4. CASE r < b
  <2>1. PICK p \in Int, rest \in 0..359 : p = q - 1 /\ c = p * 360 + rest
    <3>1. /\ r - b + 360 \in 0..359 /\ q - 1 \in Int
          /\ c = (q - 1) * 360 + (r - b + 360)
      BY <1>1, <1>2, <1>4
    <3> QED
      BY <3>1
  <2>2. c \div 360 = q - 1
    BY <2>1, WholeTurns
  <2>3. ~(b <= r)
    BY <1>1, <1>4
  <2> QED
    BY <1>2, <2>2, <2>3 DEF CopiesBelow, FullCircle
<1> QED
  BY <1>1, <1>3, <1>4

\* Between angles off the boundaries, the odometer passes a boundary exactly where
\* the step encounters it.
LEMMA OdometerOfStep ==
  ASSUME NEW from \in Circle, NEW current \in Circle, NEW delta, NEW unwound \in Int,
         delta = ShortestCircularDisplacement(from, current),
         from = NormalizePhase(unwound),
         from \notin BoundaryDegrees, current \notin BoundaryDegrees,
         NEW b \in BoundaryDegrees
  PROVE  /\ CopiesBelow(unwound, b) \in Int
         /\ CopiesBelow(unwound + delta, b) =
              CopiesBelow(unwound, b)
                + (IF delta > 0 /\ b \in EncounteredBoundaries(from, delta) THEN 1 ELSE 0)
                - (IF delta < 0 /\ b \in EncounteredBoundaries(from, delta) THEN 1 ELSE 0)
<1>1. PICK turn \in {-1, 0, 1} : delta \in -179..180 /\ current = from + delta + turn * 360
  BY Displacement
<1>2. PICK q \in Int : unwound = q * 360 + from
  BY DEF NormalizePhase, FullCircle, Circle
<1>3. unwound + delta = (q - turn) * 360 + current
  BY <1>1, <1>2 DEF Circle
<1>4. /\ CopiesBelow(unwound, b) = IF b <= from THEN q ELSE q - 1
      /\ CopiesBelow(unwound + delta, b) = IF b <= current THEN q - turn ELSE q - turn - 1
  <2>1. CopiesBelow(unwound, b) = IF b <= from THEN q ELSE q - 1
    BY <1>2, CopiesOfWrapped
  <2>2. PICK p \in Int, a \in Int : p = q - turn /\ a = unwound + delta /\ a = p * 360 + current
    BY <1>1, <1>3
  <2>3. CopiesBelow(a, b) = IF b <= current THEN p ELSE p - 1
    BY <2>2, CopiesOfWrapped
  <2> QED
    BY <2>1, <2>2, <2>3
<1>5. PICK distance \in Int :
        /\ distance = IF delta < 0 THEN (IF b <= from THEN from - b ELSE from - b + 360)
                                   ELSE (IF from <= b THEN b - from ELSE b - from + 360)
        /\ b \in EncounteredBoundaries(from, delta) <=>
             (distance > 0 /\ distance <= (IF delta < 0 THEN -delta ELSE delta))
  <2>1. PICK distance : distance = EncounterDistance(b, from, delta)
    OBVIOUS
  <2>2. delta \in Int /\ from \in Int
    BY <1>1 DEF Circle
  <2>3. distance \in Int
    BY <2>1, <2>2, DistanceType
  <2>4. distance = IF delta < 0 THEN (IF b <= from THEN from - b ELSE from - b + 360)
                                ELSE (IF from <= b THEN b - from ELSE b - from + 360)
    BY <2>1, <2>2, DistanceOnCircle
  <2>5. b \in EncounteredBoundaries(from, delta) <=>
          (distance > 0 /\ distance <= (IF delta < 0 THEN -delta ELSE delta))
    BY <1>1, <2>1, DistanceAhead
  <2> QED
    BY <2>3, <2>4, <2>5
<1>6. from # b /\ current # b /\ b \in 0..359
  BY DEF BoundaryDegrees
<1> DEFINE met == b \in EncounteredBoundaries(from, delta)
           below == CopiesBelow(unwound, b)
           after == CopiesBelow(unwound + delta, b)
<1>7. from \in 0..359 /\ current \in 0..359
  BY DEF Circle
<1>8. met <=> (distance > 0 /\ distance <= (IF delta < 0 THEN -delta ELSE delta))
  BY <1>5
<1> HIDE DEF met, below, after
<1>9. below \in Int /\ after \in Int
  BY <1>1, <1>4 DEF below, after
<1>10. CASE delta >= 0
  <2>1. ~(delta < 0)
    BY <1>1, <1>10
  <2>2. distance = IF from <= b THEN b - from ELSE b - from + 360
    BY <1>5, <2>1
  <2>3. met <=> (distance > 0 /\ distance <= delta)
    BY <1>8, <2>1
  <2>4. after = below + (IF met THEN 1 ELSE 0)
    BY <1>1, <1>4, <1>6, <1>7, <1>10, <2>2, <2>3, SMTT(30) DEF below, after
  <2>5. delta = 0 => ~met
    BY <2>3
  <2> QED
    BY <1>1, <1>9, <1>10, <2>4, <2>5 DEF met, below, after
<1>11. CASE delta < 0
  <2>1. distance = IF b <= from THEN from - b ELSE from - b + 360
    BY <1>5, <1>11
  <2>2. met <=> (distance > 0 /\ distance <= -delta)
    BY <1>8, <1>11
  <2>3. after = below - (IF met THEN 1 ELSE 0)
    BY <1>1, <1>4, <1>6, <1>7, <1>11, <2>1, <2>2, SMTT(30) DEF below, after
  <2> QED
    BY <1>1, <1>9, <1>11, <2>3 DEF met, below, after
<1> QED
  BY <1>1, <1>10, <1>11
-----------------------------------------------------------------------------
\* The state a forward step leads to.

Lands(from, delta, current) == \E turn \in {-1, 0, 1} : current = from + delta + turn * 360

\* How far ahead of an angle a boundary lies.
Ahead(from, b) == IF from <= b THEN b - from ELSE b - from + 360
Meets(from, delta, b) == Ahead(from, b) > 0 /\ Ahead(from, b) <= delta
MeetsNone(from, delta) == \A b \in BoundaryDegrees : ~Meets(from, delta, b)
MeetsLast(from, delta, b) ==
  /\ Meets(from, delta, b)
  /\ \A c \in BoundaryDegrees : Meets(from, delta, c) => Ahead(from, c) <= Ahead(from, b)

LEMMA ForwardEncounters ==
  ASSUME NEW from \in Circle, NEW delta \in 0..180, NEW b \in BoundaryDegrees
  PROVE  /\ EncounterDistance(b, from, delta) = Ahead(from, b)
         /\ b \in EncounteredBoundaries(from, delta) <=> Meets(from, delta, b)
<1>1. delta \in -179..180 /\ delta \in Int /\ ~(delta < 0)
  OBVIOUS
<1>2. EncounterDistance(b, from, delta) = Ahead(from, b)
  BY <1>1, DistanceOnCircle DEF Ahead
<1> QED
  BY <1>1, <1>2, DistanceAhead DEF Meets

\* A step that meets no boundary stays in its quadrant.
LEMMA QuietStep ==
  ASSUME NEW from \in Circle, NEW current \in Circle, NEW delta \in 0..180,
         Lands(from, delta, current),
         MeetsNone(from, delta)
  PROVE  StateForPhase(current) = StateForPhase(from)
<1>1. from \in 0..359 /\ current \in 0..359
  BY DEF Circle
<1>2. /\ ~(Ahead(from, 0) > 0 /\ Ahead(from, 0) <= delta)
      /\ ~(Ahead(from, 90) > 0 /\ Ahead(from, 90) <= delta)
      /\ ~(Ahead(from, 180) > 0 /\ Ahead(from, 180) <= delta)
      /\ ~(Ahead(from, 270) > 0 /\ Ahead(from, 270) <= delta)
  BY DEF BoundaryDegrees, MeetsNone, Meets
<1>3. PICK turn \in {-1, 0, 1} : current = from + delta + turn * 360
  BY DEF Lands
<1>4. turn = 0
  BY <1>1, <1>2, <1>3 DEF Ahead
<1>5. current = from + delta
  BY <1>1, <1>3, <1>4
<1> QED
  BY <1>1, <1>2, <1>5 DEF Ahead, StateForPhase

\* Past the farthest boundary a step meets, it ends in that boundary's quadrant.
LEMMA QuadrantReached ==
  ASSUME NEW from \in Circle, NEW current \in Circle, NEW delta \in 0..180,
         Lands(from, delta, current),
         NEW b \in BoundaryDegrees, MeetsLast(from, delta, b)
  PROVE  StateForPhase(current) = ForwardBoundaryPolicy(b).state
<1>1. from \in 0..359 /\ current \in 0..359
  BY DEF Circle
<1>2. PICK past \in 0..180 : past = delta - Ahead(from, b)
  BY <1>1 DEF Ahead, BoundaryDegrees, MeetsLast, Meets
<1>3. \A c \in BoundaryDegrees : Ahead(from, c) > 0 /\ Ahead(from, c) <= delta =>
                                 Ahead(from, c) <= delta - past
  <2>1. Ahead(from, b) = delta - past
    BY <1>1, <1>2 DEF Ahead, BoundaryDegrees
  <2> QED
    BY <2>1 DEF MeetsLast, Meets
<1>4. \E again \in {-1, 0, 1} : current = b + past + again * 360
  <2>1. PICK turn \in {-1, 0, 1} : current = from + delta + turn * 360
    BY DEF Lands
  <2> QED
    BY <1>1, <1>2, <2>1 DEF Ahead, BoundaryDegrees
<1>5. past < 90
  <2>1. SUFFICES ASSUME past >= 90 PROVE FALSE
    BY <1>2
  <2>2. PICK c \in BoundaryDegrees : c = IF b = 270 THEN 0 ELSE b + 90
    BY DEF BoundaryDegrees
  <2>3. Ahead(from, c) = Ahead(from, b) + 90
    BY <1>1, <1>2, <2>1, <2>2 DEF Ahead, BoundaryDegrees
  <2> QED
    BY <1>1, <1>2, <1>3, <2>1, <2>3 DEF Ahead, BoundaryDegrees
<1>6. current \in b..(b + 89)
  <2>1. PICK again \in {-1, 0, 1} : current = b + past + again * 360
    BY <1>4
  <2> QED
    BY <1>1, <1>2, <1>5, <2>1 DEF BoundaryDegrees
<1>7. StateForPhase(current) = IF b = 0 THEN "HOLD_AND_TRAIL" ELSE IF b = 90 THEN "LIQUIDATE"
                               ELSE IF b = 180 THEN "DISREGARD" ELSE "ALLOCATE"
  BY <1>1, <1>6 DEF StateForPhase, BoundaryDegrees
<1>8. ForwardBoundaryPolicy(b).state =
        IF b = 0 THEN "HOLD_AND_TRAIL" ELSE IF b = 90 THEN "LIQUIDATE"
        ELSE IF b = 180 THEN "DISREGARD" ELSE "ALLOCATE"
  BY DEF ForwardBoundaryPolicy, BoundaryDegrees
<1> QED
  BY <1>7, <1>8

\* A forward step leads from the state its first angle asks for to the state its
\* last angle asks for.
LEMMA ForwardStep ==
  ASSUME NEW from, NEW current, NEW delta, NEW facts, Step(from, current, delta, facts),
         ~(delta < 0)
  PROVE  EvaluateDynamicExecution(facts, StateForPhase(from)).state = StateForPhase(current)
<1> DEFINE S == EncounteredBoundaries(from, delta)
           d == Distances(from, delta)
           n == Len(facts)
           prior == StateForPhase(from)
<1>1. /\ from \in Circle /\ current \in Circle
      /\ delta = ShortestCircularDisplacement(from, current)
  BY DEF Step
<1>2. delta \in 0..180 /\ Lands(from, delta, current)
  BY <1>1, Displacement DEF Lands
<1>3. /\ delta \in -179..180 /\ facts \in Seq(BoundaryFacts) /\ n = Cardinality(S)
      /\ \A k \in 1..n : /\ facts[k].boundary \in S
                         /\ Rank(S, d, facts[k].boundary) = k
                         /\ facts[k].direction = PhaseTransitionDirection(delta)
  BY FactsOfStep
<1>4. n \in Nat
  BY <1>3
<1>5. /\ IsFiniteSet(S) /\ S \in SUBSET BoundaryDegrees
      /\ \A c \in S : d[c] = Ahead(from, c)
  <2>1. IsFiniteSet(S) /\ \A c \in S : c \in BoundaryDegrees /\ d[c] = EncounterDistance(c, from, delta)
    <3>1. DistancesKnown(from, delta)
      BY <1>1, <1>3, EncounteredDistances
    <3> QED
      BY <3>1 DEF DistancesKnown
  <2> HIDE DEF S, d
  <2> QED  BY <1>1, <1>2, <2>1, ForwardEncounters
<1>6. \A c \in BoundaryDegrees : c \in S <=> Meets(from, delta, c)
  BY <1>1, <1>2, ForwardEncounters
<1> HIDE DEF S, d, n, prior
<1>7. CASE n = 0
  <2>1. EvaluateDynamicExecution(facts, prior).state = prior
    <3>1. \A k \in 1..Len(facts) : facts[k].direction # "FORWARD"
      BY <1>7 DEF n
    <3> QED
      BY <1>3, <3>1, UnmovedExecution
  <2>2. S = {}
    BY <1>3, <1>5, <1>7, FS_EmptySet
  <2>3. MeetsNone(from, delta)
    BY <1>6, <2>2 DEF MeetsNone
  <2>4. StateForPhase(current) = StateForPhase(from)
    BY <1>1, <1>2, <2>3, QuietStep
  <2> QED
    BY <2>1, <2>4 DEF prior
<1>8. CASE n # 0
  <2>1. PICK b : b = facts[n].boundary
    OBVIOUS
  <2>2. b \in S /\ Rank(S, d, b) = n /\ b \in BoundaryDegrees
    BY <1>3, <1>4, <1>5, <1>8, <2>1
  <2>3. Meets(from, delta, b)
    BY <1>6, <2>2
  <2>4. \A c \in S : d[c] \in Int
    BY <1>1, <1>5 DEF Ahead, Circle, BoundaryDegrees
  <2>5. \A c \in S : d[c] <= d[b]
    <3> SUFFICES ASSUME NEW c \in S PROVE d[c] <= d[b]
      OBVIOUS
    <3>1. Rank(S, d, c) \in 1..Cardinality(S)
      BY <1>5, <2>4, UptoFinite
    <3>2. Rank(S, d, c) <= Rank(S, d, b)
      BY <1>3, <2>2, <3>1
    <3> QED
      BY <1>5, <2>2, <2>4, <3>2, RankMonotone
  <2>6. MeetsLast(from, delta, b)
    BY <1>5, <1>6, <2>2, <2>3, <2>5 DEF MeetsLast
  <2>7. StateForPhase(current) = ForwardBoundaryPolicy(b).state
    BY <1>1, <1>2, <2>2, <2>6, QuadrantReached
  <2>8. delta > 0
    BY <1>1, <1>2, <2>2, <2>3 DEF Meets, Ahead, Circle, BoundaryDegrees
  <2>9. \A k \in 1..Len(facts) : facts[k].direction = "FORWARD"
    BY <1>3, <2>8 DEF PhaseTransitionDirection, n
  <2>10. EvaluateDynamicExecution(facts, prior).state = ForwardBoundaryPolicy(facts[Len(facts)].boundary).state
    BY <1>3, <1>8, <2>9, ForwardExecution DEF n
  <2> QED
    BY <2>1, <2>7, <2>10 DEF prior, n
<1> QED
  BY <1>7, <1>8
-----------------------------------------------------------------------------
\* The walk one degree at a time.

Steps(delta) == (IF delta < 0 THEN -1 ELSE 1) * delta
WalkAngle(from, delta, i) == NormalizePhase(from + (IF delta < 0 THEN -1 ELSE 1) * i)
Hits(from, delta) == {i \in 1..Steps(delta) : WalkAngle(from, delta, i) \in BoundaryDegrees}
HitRank(from, delta, i) == Cardinality({j \in Hits(from, delta) : j <= i})

LEMMA WalkByRank ==
  ASSUME NEW from, NEW delta
  PROVE  DegreeWalk(from, delta) =
           [k \in 1..Cardinality(Hits(from, delta)) |->
              WalkAngle(from, delta, CHOOSE i \in Hits(from, delta) : HitRank(from, delta, i) = k)]
BY DEF DegreeWalk, Hits, HitRank, Steps, WalkAngle

HalfCircle == 1..180

LEMMA AngleOfWalk ==
  ASSUME NEW from \in Circle, NEW delta, NEW i \in HalfCircle
  PROVE  WalkAngle(from, delta, i) =
           IF delta < 0 THEN (IF i <= from THEN from - i ELSE from - i + 360)
                        ELSE (IF from + i < 360 THEN from + i ELSE from + i - 360)
<1>1. CASE delta < 0
  <2>1. WalkAngle(from, delta, i) = NormalizePhase(from - i)
    <3>1. from + (-1) * i = from - i
      BY DEF Circle, HalfCircle
    <3> QED
      BY <1>1, <3>1 DEF WalkAngle
  <2> QED
    BY <1>1, <2>1 DEF NormalizePhase, FullCircle, Circle, HalfCircle
<1>2. CASE ~(delta < 0)
  <2>1. WalkAngle(from, delta, i) = NormalizePhase(from + i)
    <3>1. from + 1 * i = from + i
      BY DEF Circle, HalfCircle
    <3> QED
      BY <1>2, <3>1 DEF WalkAngle
  <2> QED
    BY <1>2, <2>1 DEF NormalizePhase, FullCircle, Circle, HalfCircle
<1> QED
  BY <1>1, <1>2

\* The walk meets a boundary after as many degrees as its distance.
LEMMA WalkMeets ==
  ASSUME NEW from \in Circle, NEW delta \in -179..180
  PROVE  /\ Hits(from, delta) \in SUBSET HalfCircle
         /\ \A i \in Hits(from, delta) :
              /\ WalkAngle(from, delta, i) \in EncounteredBoundaries(from, delta)
              /\ EncounterDistance(WalkAngle(from, delta, i), from, delta) = i
         /\ \A b \in EncounteredBoundaries(from, delta) :
              /\ EncounterDistance(b, from, delta) \in Hits(from, delta)
              /\ WalkAngle(from, delta, EncounterDistance(b, from, delta)) = b
<1>1. /\ Steps(delta) = IF delta < 0 THEN -delta ELSE delta
      /\ Steps(delta) \in 0..180
  BY DEF Steps
<1>2. Hits(from, delta) \in SUBSET HalfCircle
  BY <1>1 DEF Hits, HalfCircle
<1>3. ASSUME NEW i \in 1..Steps(delta), WalkAngle(from, delta, i) \in BoundaryDegrees
      PROVE  /\ WalkAngle(from, delta, i) \in EncounteredBoundaries(from, delta)
             /\ EncounterDistance(WalkAngle(from, delta, i), from, delta) = i
  <2>1. PICK b \in BoundaryDegrees : b = WalkAngle(from, delta, i)
    BY <1>3
  <2>2. /\ i \in HalfCircle /\ delta \in Int /\ from \in 0..359 /\ b \in 0..359
        /\ i > 0 /\ i <= (IF delta < 0 THEN -delta ELSE delta)
    BY <1>1 DEF Circle, BoundaryDegrees, HalfCircle
  <2>3. b = IF delta < 0 THEN (IF i <= from THEN from - i ELSE from - i + 360)
                         ELSE (IF from + i < 360 THEN from + i ELSE from + i - 360)
    BY <2>1, <2>2, AngleOfWalk
  <2>4. EncounterDistance(b, from, delta) =
          IF delta < 0 THEN (IF b <= from THEN from - b ELSE from - b + 360)
                       ELSE (IF from <= b THEN b - from ELSE b - from + 360)
    BY <2>2, DistanceOnCircle
  <2>5. EncounterDistance(b, from, delta) = i
    BY <2>2, <2>3, <2>4 DEF HalfCircle
  <2>6. b \in EncounteredBoundaries(from, delta)
    <3>1. b \in EncounteredBoundaries(from, delta) <=>
            /\ EncounterDistance(b, from, delta) > 0
            /\ EncounterDistance(b, from, delta) <= (IF delta < 0 THEN -delta ELSE delta)
      BY DistanceAhead
    <3> QED
      BY <2>2, <2>5, <3>1
  <2> QED
    BY <2>1, <2>5, <2>6
<1>4. ASSUME NEW b \in EncounteredBoundaries(from, delta)
      PROVE  /\ EncounterDistance(b, from, delta) \in Hits(from, delta)
             /\ WalkAngle(from, delta, EncounterDistance(b, from, delta)) = b
  <2>1. PICK i : i = EncounterDistance(b, from, delta)
    OBVIOUS
  <2>2. b \in BoundaryDegrees /\ delta \in Int /\ from \in 0..359 /\ b \in 0..359
    BY DEF Circle, BoundaryDegrees, EncounteredBoundaries
  <2>3. i = IF delta < 0 THEN (IF b <= from THEN from - b ELSE from - b + 360)
                         ELSE (IF from <= b THEN b - from ELSE b - from + 360)
    BY <2>1, <2>2, DistanceOnCircle
  <2>4. i > 0 /\ i <= (IF delta < 0 THEN -delta ELSE delta)
    BY <2>1, <2>2, DistanceAhead
  <2>5. i \in 1..Steps(delta) /\ i \in HalfCircle
    BY <1>1, <2>2, <2>3, <2>4 DEF HalfCircle
  <2>6. WalkAngle(from, delta, i) =
          IF delta < 0 THEN (IF i <= from THEN from - i ELSE from - i + 360)
                       ELSE (IF from + i < 360 THEN from + i ELSE from + i - 360)
    BY <2>5, AngleOfWalk
  <2>7. WalkAngle(from, delta, i) = b
    BY <2>2, <2>3, <2>5, <2>6 DEF HalfCircle
  <2> QED
    BY <2>1, <2>2, <2>5, <2>7 DEF Hits
<1> QED
  BY <1>2, <1>3, <1>4 DEF Hits

LEMMA SameCount ==
  ASSUME NEW S, NEW T, IsFiniteSet(S), NEW f \in [S -> T],
         \A x \in S : \A y \in S : f[x] = f[y] => x = y,
         \A z \in T : \E x \in S : f[x] = z
  PROVE  IsFiniteSet(T) /\ Cardinality(T) = Cardinality(S)
<1>1. f \in Injection(S, T) /\ f \in Surjection(S, T)
  BY DEF Injection, IsInjective, Surjection
<1>2. ExistsBijection(S, T)
  BY <1>1 DEF ExistsBijection, Bijection
<1> QED
  BY <1>2, FS_Bijection

\* Its hits are the encountered boundaries, rank for rank.
LEMMA WalkRanks ==
  ASSUME NEW from \in Circle, NEW delta \in -179..180
  PROVE  /\ Cardinality(Hits(from, delta)) = Cardinality(EncounteredBoundaries(from, delta))
         /\ \A i \in Hits(from, delta) :
              HitRank(from, delta, i) =
              Rank(EncounteredBoundaries(from, delta), Distances(from, delta),
                   WalkAngle(from, delta, i))
<1> DEFINE S == EncounteredBoundaries(from, delta)
           d == Distances(from, delta)
           H == Hits(from, delta)
           angle(i) == WalkAngle(from, delta, i)
<1>1. /\ H \in SUBSET HalfCircle
      /\ \A i \in H : angle(i) \in S /\ EncounterDistance(angle(i), from, delta) = i
      /\ \A b \in S : /\ EncounterDistance(b, from, delta) \in H
                      /\ angle(EncounterDistance(b, from, delta)) = b
  BY WalkMeets
<1>2. IsFiniteSet(S) /\ \A b \in S : d[b] = EncounterDistance(b, from, delta)
  <2>1. DistancesKnown(from, delta)
    BY EncounteredDistances
  <2> QED
    BY <2>1 DEF DistancesKnown
<1>3. IsFiniteSet(H)
  <2>1. PICK n \in Int, m \in Int : m = 1 /\ n = 180
    OBVIOUS
  <2>2. IsFiniteSet(m..n)
    BY FS_Interval
  <2>3. IsFiniteSet(HalfCircle)
    BY <2>1, <2>2 DEF HalfCircle
  <2> HIDE DEF H
  <2> QED  BY <1>1, <2>3, FS_Subset
<1> HIDE DEF S, d, H, angle
<1>4. /\ \A i \in H : angle(i) \in S /\ d[angle(i)] = i /\ i \in Int
      /\ \A b \in S : d[b] \in H /\ angle(d[b]) = b
  BY <1>1, <1>2 DEF HalfCircle
<1>5. ASSUME NEW limit \in HalfCircle
      PROVE  Cardinality({b \in S : d[b] <= limit}) = Cardinality({j \in H : j <= limit})
  <2> DEFINE P == {j \in H : j <= limit}
             Q == {b \in S : d[b] <= limit}
             f == [j \in P |-> angle(j)]
  <2>1. f \in [P -> Q]
    BY <1>4
  <2>2. \A x \in P : \A y \in P : f[x] = f[y] => x = y
    BY <1>4
  <2>3. \A z \in Q : \E x \in P : f[x] = z
    BY <1>4
  <2>4. IsFiniteSet(P)
    BY <1>3, FS_Subset
  <2> HIDE DEF P, Q, f
  <2>5. Cardinality(Q) = Cardinality(P)
    BY <2>1, <2>2, <2>3, <2>4, SameCount
  <2> QED
    BY <2>5 DEF P, Q
<1>6. Cardinality(H) = Cardinality(S)
  <2>1. PICK limit \in HalfCircle : limit = 180
    BY DEF HalfCircle
  <2>2. \A j \in H : j <= limit
    BY <1>1, <2>1 DEF HalfCircle
  <2>3. {b \in S : d[b] <= limit} = S /\ {j \in H : j <= limit} = H
    BY <1>4, <2>2
  <2> QED
    BY <1>5, <2>3
<1>7. \A i \in H : HitRank(from, delta, i) = Rank(S, d, angle(i))
  <2> SUFFICES ASSUME NEW i \in H PROVE HitRank(from, delta, i) = Rank(S, d, angle(i))
    OBVIOUS
  <2>1. i \in HalfCircle /\ d[angle(i)] = i
    BY <1>1, <1>4
  <2>2. Rank(S, d, angle(i)) = Cardinality({b \in S : d[b] <= i})
    BY <2>1 DEF Rank, Upto
  <2>3. HitRank(from, delta, i) = Cardinality({j \in H : j <= i})
    BY DEF HitRank, H
  <2> QED
    BY <1>5, <2>1, <2>2, <2>3
<1> QED
  BY <1>6, <1>7 DEF S, d, H, angle

\* The facts of a step are the boundaries of the walk, in the walk's order.
LEMMA FactsAreTheWalk ==
  ASSUME NEW from, NEW current, NEW delta, NEW facts, Step(from, current, delta, facts)
  PROVE  [k \in DOMAIN facts |-> facts[k].boundary] = DegreeWalk(from, delta)
<1> DEFINE S == EncounteredBoundaries(from, delta)
           d == Distances(from, delta)
           H == Hits(from, delta)
           angle(i) == WalkAngle(from, delta, i)
           nth(k) == CHOOSE i \in H : HitRank(from, delta, i) = k
<1>1. /\ from \in Circle /\ delta \in -179..180
      /\ facts \in Seq(BoundaryFacts) /\ Len(facts) = Cardinality(S)
      /\ \A k \in 1..Len(facts) : facts[k].boundary \in S /\ Rank(S, d, facts[k].boundary) = k
  BY FactsOfStep, SMTT(30) DEF Step
<1>2. /\ \A i \in H : angle(i) \in S /\ EncounterDistance(angle(i), from, delta) = i
      /\ \A b \in S : /\ EncounterDistance(b, from, delta) \in H
                      /\ angle(EncounterDistance(b, from, delta)) = b
  BY <1>1, WalkMeets
<1>3. /\ Cardinality(H) = Cardinality(S)
      /\ \A i \in H : HitRank(from, delta, i) = Rank(S, d, angle(i))
  BY <1>1, WalkRanks
<1>4. \A b \in S : \A c \in S : Rank(S, d, b) = Rank(S, d, c) => b = c
  BY <1>1, EncounteredRanks
<1>5. DegreeWalk(from, delta) = [k \in 1..Cardinality(H) |-> angle(nth(k))]
  BY WalkByRank
<1>6. DOMAIN facts = 1..Cardinality(H) /\ DOMAIN facts = 1..Len(facts)
  BY <1>1, <1>3
<1> HIDE DEF S, d, H, angle
<1>7. ASSUME NEW k \in DOMAIN facts
      PROVE  angle(nth(k)) = facts[k].boundary
  <2>1. PICK b : b = facts[k].boundary /\ b \in S /\ Rank(S, d, b) = k
    BY <1>1, <1>6
  <2>2. PICK i \in H : angle(i) = b
    BY <1>2, <2>1
  <2>3. HitRank(from, delta, i) = k
    BY <1>3, <2>1, <2>2
  <2>4. nth(k) \in H /\ HitRank(from, delta, nth(k)) = k
    BY <2>3
  <2> HIDE DEF nth
  <2>5. angle(nth(k)) \in S /\ Rank(S, d, angle(nth(k))) = k
    BY <1>2, <1>3, <2>4
  <2> QED
    BY <1>4, <2>1, <2>5
<1> HIDE DEF nth
<1> QED
  BY <1>5, <1>6, <1>7
-----------------------------------------------------------------------------
\* The invariant.  The phase is the odometer's angle on the circle, and the
\* odometer only counts between angles off the boundaries.

Wrapped ==
  /\ phase \in Circle
  /\ unwrapped \in Int
  /\ origin \in Int
  /\ phase = NormalizePhase(unwrapped)
  /\ ~landed => phase \notin BoundaryDegrees
  /\ net \in [BoundaryDegrees -> Int]

TrackInv ==
  /\ Wrapped
  /\ ForwardStateMatchesQuadrant
  /\ NetCrossingsMatchOdometer
  /\ FactsMatchDegreeWalk

LEMMA PhasesOnCircle == Phases \subseteq Circle
BY PhasesAssumption DEF Circle, FullCircle

LEMMA InitTrack == Init => TrackInv
<1> SUFFICES ASSUME Init PROVE TrackInv
  OBVIOUS
<1>1. phase \in Circle /\ unwrapped = phase /\ origin = phase
  BY PhasesOnCircle DEF Init
<1>2. Wrapped
  <2>1. phase = NormalizePhase(phase) /\ phase \in Int
    BY <1>1 DEF Circle, NormalizePhase, FullCircle
  <2>2. net \in [BoundaryDegrees -> Int]
    BY DEF Init
  <2>3. ~landed => phase \notin BoundaryDegrees
    <3>1. landed = (phase \in BoundaryDegrees)
      BY DEF Init
    <3> QED
      BY <3>1, Zenon
  <2> QED
    BY <1>1, <2>1, <2>2, <2>3 DEF Wrapped
<1>3. ForwardStateMatchesQuadrant
  BY DEF Init, ForwardStateMatchesQuadrant
<1>4. NetCrossingsMatchOdometer
  <2> SUFFICES ASSUME NEW b \in BoundaryDegrees
               PROVE  net[b] = CopiesBelow(unwrapped, b) - CopiesBelow(origin, b)
    BY DEF NetCrossingsMatchOdometer
  <2>1. PICK passed \in Int : passed = CopiesBelow(unwrapped, b)
    BY <1>1 DEF CopiesBelow, FullCircle, BoundaryDegrees, Circle
  <2>2. passed = CopiesBelow(origin, b) /\ net[b] = 0
    BY <1>1, <2>1 DEF Init
  <2> QED
    BY <2>1, <2>2
<1>5. FactsMatchDegreeWalk
  <2>1. Hits(0, 0) = {}
    BY DEF Hits, Steps
  <2>2. Cardinality(Hits(0, 0)) = 0
    BY <2>1, FS_EmptySet
  <2>3. DegreeWalk(0, 0) =
          [k \in {} |-> WalkAngle(0, 0, CHOOSE i \in Hits(0, 0) : HitRank(0, 0, i) = k)]
    BY <2>2, WalkByRank
  <2>4. last.facts = <<>> /\ last.from = 0 /\ last.delta = 0
    BY DEF Init, NoTransition
  <2> QED
    BY <2>3, <2>4 DEF FactsMatchDegreeWalk
<1> QED
  BY <1>2, <1>3, <1>4, <1>5 DEF TrackInv

LEMMA TransitionTrack ==
  ASSUME TrackInv, NEW current \in Phases, Transition(current)
  PROVE  TrackInv'
<1>1. PICK delta, facts : Step(phase, current, delta, facts)
  BY PhasesOnCircle DEF TrackInv, Wrapped, Step
<1>2. /\ delta = ShortestCircularDisplacement(phase, current)
      /\ facts = DeriveBoundaryFacts(current, delta)
      /\ phase \in Circle /\ current \in Circle
  BY <1>1 DEF Step
<1>3. /\ phase' = current
      /\ state' = EvaluateDynamicExecution(facts, state).state
      /\ unwrapped' = unwrapped + delta
      /\ origin' = origin
      /\ landed' = (landed \/ current \in BoundaryDegrees)
      /\ net' = IF landed' THEN net
                ELSE [b \in BoundaryDegrees |->
                        net[b] + Crossings(facts, b, "FORWARD") - Crossings(facts, b, "REVERSE")]
      /\ reversed' = (reversed \/ delta < 0)
      /\ last' = [from |-> phase, delta |-> delta, facts |-> facts]
  BY <1>2 DEF Transition
<1>4. delta \in -179..180
  BY <1>2, Displacement
<1>5. \A b \in BoundaryDegrees :
        /\ Crossings(facts, b, "FORWARD") =
             IF delta > 0 /\ b \in EncounteredBoundaries(phase, delta) THEN 1 ELSE 0
        /\ Crossings(facts, b, "REVERSE") =
             IF delta < 0 /\ b \in EncounteredBoundaries(phase, delta) THEN 1 ELSE 0
  BY <1>1, CrossingsOfStep
<1>6. Wrapped'
  <2>1. unwrapped' \in Int /\ origin' \in Int /\ phase' \in Circle
    BY <1>2, <1>3, <1>4 DEF TrackInv, Wrapped
  <2>2. phase' = NormalizePhase(unwrapped')
    <3>1. PICK turn \in {-1, 0, 1} : current = phase + delta + turn * 360
      BY <1>2, Displacement
    <3>2. unwrapped \in Int /\ phase = unwrapped % 360
      BY DEF TrackInv, Wrapped, NormalizePhase, FullCircle
    <3>3. current = (unwrapped + delta) % 360
      BY <1>2, <1>4, <3>1, <3>2 DEF Circle
    <3> QED
      BY <1>3, <3>3 DEF NormalizePhase, FullCircle
  <2>3. ~landed' => phase' \notin BoundaryDegrees
    BY <1>3
  <2>4. net' \in [BoundaryDegrees -> Int]
    BY <1>3, <1>5 DEF TrackInv, Wrapped
  <2> QED
    BY <2>1, <2>2, <2>3, <2>4 DEF Wrapped
<1>7. ForwardStateMatchesQuadrant'
  <2> SUFFICES ASSUME ~reversed' PROVE state' = StateForPhase(phase')
    BY DEF ForwardStateMatchesQuadrant
  <2>1. ~(delta < 0) /\ state = StateForPhase(phase)
    BY <1>3 DEF TrackInv, ForwardStateMatchesQuadrant
  <2>2. EvaluateDynamicExecution(facts, StateForPhase(phase)).state = StateForPhase(current)
    BY <1>1, <2>1, ForwardStep
  <2> QED
    BY <1>3, <2>1, <2>2
<1>8. NetCrossingsMatchOdometer'
  <2> SUFFICES ASSUME ~landed', NEW b \in BoundaryDegrees
               PROVE  net'[b] = CopiesBelow(unwrapped', b) - CopiesBelow(origin', b)
    BY DEF NetCrossingsMatchOdometer
  <2>1. /\ phase \notin BoundaryDegrees /\ current \notin BoundaryDegrees
        /\ net[b] = CopiesBelow(unwrapped, b) - CopiesBelow(origin, b)
        /\ unwrapped \in Int /\ phase = NormalizePhase(unwrapped) /\ net[b] \in Int
    BY <1>3 DEF TrackInv, Wrapped, NetCrossingsMatchOdometer
  <2>2. /\ CopiesBelow(unwrapped, b) \in Int
        /\ CopiesBelow(unwrapped + delta, b) =
             CopiesBelow(unwrapped, b)
               + (IF delta > 0 /\ b \in EncounteredBoundaries(phase, delta) THEN 1 ELSE 0)
               - (IF delta < 0 /\ b \in EncounteredBoundaries(phase, delta) THEN 1 ELSE 0)
    BY <1>2, <2>1, OdometerOfStep
  <2>3. net'[b] = net[b]
               + (IF delta > 0 /\ b \in EncounteredBoundaries(phase, delta) THEN 1 ELSE 0)
               - (IF delta < 0 /\ b \in EncounteredBoundaries(phase, delta) THEN 1 ELSE 0)
    BY <1>3, <1>5
  <2>4. PICK up \in {0, 1} :
          up = IF delta > 0 /\ b \in EncounteredBoundaries(phase, delta) THEN 1 ELSE 0
    OBVIOUS
  <2>5. PICK down \in {0, 1} :
          down = IF delta < 0 /\ b \in EncounteredBoundaries(phase, delta) THEN 1 ELSE 0
    OBVIOUS
  <2>6. PICK o \in Int : o = CopiesBelow(origin, b)
    <3>1. origin \in Int
      BY DEF TrackInv, Wrapped
    <3> QED
      BY <3>1 DEF CopiesBelow, FullCircle, BoundaryDegrees
  <2>7. /\ CopiesBelow(unwrapped', b) = CopiesBelow(unwrapped, b) + up - down
        /\ net'[b] = net[b] + up - down
        /\ CopiesBelow(origin', b) = o
    BY <1>3, <2>2, <2>3, <2>4, <2>5, <2>6
  <2> QED
    BY <2>1, <2>2, <2>6, <2>7
<1>9. FactsMatchDegreeWalk'
  <2>1. [k \in DOMAIN facts |-> facts[k].boundary] = DegreeWalk(phase, delta)
    BY <1>1, FactsAreTheWalk
  <2>2. last'.facts = facts /\ last'.from = phase /\ last'.delta = delta
    BY <1>3
  <2> QED
    BY <2>1, <2>2 DEF FactsMatchDegreeWalk
<1> QED
  BY <1>6, <1>7, <1>8, <1>9 DEF TrackInv

LEMMA StutterTrack ==
  ASSUME TrackInv, UNCHANGED vars
  PROVE  TrackInv'
BY DEF vars, TrackInv, Wrapped, ForwardStateMatchesQuadrant, NetCrossingsMatchOdometer,
       FactsMatchDegreeWalk

LEMMA TrackAlways == Spec => []TrackInv
<1>1. TrackInv /\ [Next]_vars => TrackInv'
  BY TransitionTrack, StutterTrack DEF Next
<1> QED
  BY InitTrack, <1>1, PTL DEF Spec

\* While the phase has only run forward, folding the facts of each bar over the
\* retained state (dynamic_execution.go:76-87) gives the state that the angle
\* alone stands for (pipeline.go:402-413), for any angles and any number of bars.
THEOREM ForwardStateAlwaysMatches == Spec => []ForwardStateMatchesQuadrant
<1>1. TrackInv => ForwardStateMatchesQuadrant
  BY DEF TrackInv
<1> QED
  BY TrackAlways, <1>1, PTL

\* As long as no bar lands on a boundary, forward facts minus reverse facts are
\* what the continuous signal passed: deriveBoundaryFacts
\* (dynamic_execution.go:129-145) neither drops nor repeats a boundary where one
\* bar's arc ends and the next one's begins.
THEOREM CrossingsAlwaysMatchOdometer == Spec => []NetCrossingsMatchOdometer
<1>1. TrackInv => NetCrossingsMatchOdometer
  BY DEF TrackInv
<1> QED
  BY TrackAlways, <1>1, PTL

\* The modular distances and the sort by distance (dynamic_execution.go:129-153)
\* yield what a walk along the shorter arc meets, in the walk's order.
THEOREM FactsAlwaysMatchDegreeWalk == Spec => []FactsMatchDegreeWalk
<1>1. TrackInv => FactsMatchDegreeWalk
  BY DEF TrackInv
<1> QED
  BY TrackAlways, <1>1, PTL
=============================================================================
