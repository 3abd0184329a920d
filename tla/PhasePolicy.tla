----------------------------- MODULE PhasePolicy -----------------------------
(***************************************************************************)
(* The pure part of DSE_JEH's Dynamic Execution: from two consecutive      *)
(* phase angles and the current state to the boundaries encountered, the   *)
(* policy outcome of each and the resulting state.                         *)
(*                                                                         *)
(* Angles are whole degrees in Int (the code uses float64); everything the *)
(* code does with them is exact on whole degrees.                          *)
(***************************************************************************)
EXTENDS Integers, Sequences, FiniteSets

FullCircle == 360

\* dsejehv1.DynamicExecutionState: the four persistent states
DynamicExecutionStates == {"DISREGARD", "ALLOCATE", "HOLD_AND_TRAIL", "LIQUIDATE"}

BoundaryDegrees == {0, 90, 180, 270}

\* Go's math.Mod keeps the sign and the code adds 360 to a negative result;
\* TLA+'s % already yields a value in 0..359.
NormalizePhase(value) == value % FullCircle

ShortestCircularDisplacement(priorDegrees, currentDegrees) ==
  LET delta == currentDegrees - priorDegrees
  IN  IF delta <= -180 THEN delta + FullCircle
      ELSE IF delta > 180 THEN delta - FullCircle
      ELSE delta

PhaseTransitionDirection(delta) ==
  IF delta > 0 THEN "FORWARD" ELSE IF delta < 0 THEN "REVERSE" ELSE "STATIONARY"

\* Faulty variant: the distance is always measured forwards.
EncounterDistanceForwards(boundary, start, delta) == NormalizePhase(boundary - start)

\* How far the transition travels before it meets the boundary.
EncounterDistance(boundary, start, delta) ==
  IF delta < 0 THEN NormalizePhase(start - boundary)
               ELSE NormalizePhase(boundary - start)

\* Faulty variant: a bar that ends exactly on a boundary does not encounter it.
EncounteredEndExcluded(start, delta) ==
  { b \in BoundaryDegrees :
      LET distance == EncounterDistance(b, start, delta)
      IN  distance > 0 /\ distance < (IF delta < 0 THEN -delta ELSE delta) }

\* The traversed arc excludes its start and includes its end.
EncounteredBoundaries(start, delta) ==
  { b \in BoundaryDegrees :
      LET distance == EncounterDistance(b, start, delta)
      IN  distance > 0 /\ distance <= (IF delta < 0 THEN -delta ELSE delta) }

\* Faulty variant: the encountered boundaries are left in ascending degrees.
DeriveUnsortedFacts(currentDegrees, delta) ==
  LET start       == NormalizePhase(NormalizePhase(currentDegrees) - delta)
      encountered == EncounteredBoundaries(start, delta)
      AtRank(k)   == CHOOSE b \in encountered :
                       Cardinality({ c \in encountered : c <= b }) = k
  IN  [ k \in 1..Cardinality(encountered) |->
          [boundary |-> AtRank(k), direction |-> PhaseTransitionDirection(delta)] ]

\* The encountered boundaries in the order the transition meets them.
DeriveBoundaryFacts(currentDegrees, delta) ==
  LET start       == NormalizePhase(NormalizePhase(currentDegrees) - delta)
      encountered == EncounteredBoundaries(start, delta)
      Nearer(b)   == { c \in encountered :
                         EncounterDistance(c, start, delta) <= EncounterDistance(b, start, delta) }
      AtRank(k)   == CHOOSE b \in encountered : Cardinality(Nearer(b)) = k
  IN  [ k \in 1..Cardinality(encountered) |->
          [boundary |-> AtRank(k), direction |-> PhaseTransitionDirection(delta)] ]

ForwardBoundaryPolicy(boundary) ==
  CASE boundary = 270 -> [outcome |-> "HOP_ON_ALLOCATE",      state |-> "ALLOCATE"]
    [] boundary = 0   -> [outcome |-> "ENTER_HOLD_AND_TRAIL", state |-> "HOLD_AND_TRAIL"]
    [] boundary = 90  -> [outcome |-> "HOP_OFF_LIQUIDATE",    state |-> "LIQUIDATE"]
    [] boundary = 180 -> [outcome |-> "ENTER_DISREGARD",      state |-> "DISREGARD"]

\* The governed rule "crossed && forward": a reverse fact changes nothing.
EvaluateBoundaryPolicy(fact, currentState) ==
  IF fact.direction = "FORWARD"
  THEN ForwardBoundaryPolicy(fact.boundary)
  ELSE [outcome |-> "NO_TRANSITION", state |-> currentState]

\* All facts of one transition, folded in encounter order over the state.
EvaluateDynamicExecution(facts, priorState) ==
  LET after[k \in 0..Len(facts)] ==
        IF k = 0 THEN [outcome |-> "NO_TRANSITION", state |-> priorState]
                 ELSE EvaluateBoundaryPolicy(facts[k], after[k - 1].state)
  IN  [ outcomes |-> [k \in 1..Len(facts) |-> after[k].outcome],
        state    |-> after[Len(facts)].state ]

\* The state a symbol starts in on its first eligible bar.
StateForPhase(phase) ==
  IF phase < 90 THEN "HOLD_AND_TRAIL"
  ELSE IF phase < 180 THEN "LIQUIDATE"
  ELSE IF phase < 270 THEN "DISREGARD"
  ELSE "ALLOCATE"

=============================================================================
