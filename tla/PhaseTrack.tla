------------------------------ MODULE PhaseTrack ------------------------------
(***************************************************************************)
(* One symbol's sequence of phase angles driven through PhasePolicy, with  *)
(* an odometer kept beside it: the unwrapped angle and the boundary        *)
(* crossings counted so far.  The odometer is what one would measure on    *)
(* the continuous signal; the policy only ever sees two angles modulo 360. *)
(***************************************************************************)
EXTENDS PhasePolicy

CONSTANTS Phases,     \* the angles a bar may carry, a subset of 0..359
          MaxAngle    \* bound: the odometer stays within -MaxAngle..MaxAngle

ASSUME PhasesAssumption == Phases \subseteq 0..(FullCircle - 1) /\ MaxAngle \in Nat

VARIABLES phase,      \* pipelineEntity.priorPhase
          state,      \* pipelineEntity.state
          unwrapped,  \* history: start angle plus the sum of displacements
          origin,     \* history: the angle the symbol was initialised at
          landed,     \* history: some bar so far lay exactly on a boundary
          net,        \* history: per boundary, forward minus reverse facts,
                      \*   counted until a bar lands on a boundary
          reversed,   \* history: some displacement so far was negative
          last        \* history: the latest transition

vars == <<phase, state, unwrapped, origin, landed, net, reversed, last>>

NoTransition == [from |-> 0, delta |-> 0, facts |-> <<>>]

Init ==
  /\ phase \in Phases
  /\ state = StateForPhase(phase)
  /\ unwrapped = phase
  /\ origin = phase
  /\ landed = (phase \in BoundaryDegrees)
  /\ net = [b \in BoundaryDegrees |-> 0]
  /\ reversed = FALSE
  /\ last = NoTransition

Crossings(facts, b, direction) ==
  Cardinality({k \in DOMAIN facts : facts[k].boundary = b /\ facts[k].direction = direction})

\* One eligible bar of an initialised entity: CalculatePhaseTransition,
\* EvaluateDynamicExecution, and the retained predecessor moved on.
Transition(current) ==
  LET delta  == ShortestCircularDisplacement(phase, current)
      facts  == DeriveBoundaryFacts(current, delta)
  IN  /\ unwrapped + delta \in -MaxAngle..MaxAngle
      /\ phase' = current
      /\ state' = EvaluateDynamicExecution(facts, state).state
      /\ unwrapped' = unwrapped + delta
      /\ origin' = origin
      /\ landed' = (landed \/ current \in BoundaryDegrees)
      /\ net' = IF landed' THEN net
                ELSE [b \in BoundaryDegrees |->
                        net[b] + Crossings(facts, b, "FORWARD") - Crossings(facts, b, "REVERSE")]
      /\ reversed' = (reversed \/ delta < 0)
      /\ last' = [from |-> phase, delta |-> delta, facts |-> facts]

Next == \E current \in Phases : Transition(current)

Spec == Init /\ [][Next]_vars

-----------------------------------------------------------------------------
\* As long as the phase has never run backwards, the state reached by folding
\* boundary facts bar by bar (dynamic_execution.go:76-87) is the state the
\* pipeline would assign by looking at the angle alone (stateForPhase,
\* pipeline.go:402-413): no boundary is lost or taken in the wrong order,
\* whatever the step sizes and wherever a step starts or ends.
ForwardStateMatchesQuadrant == ~reversed => state = StateForPhase(phase)

\* How many copies of boundary b lie at or below the unwrapped angle a.
CopiesBelow(a, b) == (a - b) \div FullCircle

\* Until a bar lands exactly on a boundary, the facts of all bars together count
\* each boundary exactly as often as the continuous signal passed it: nothing
\* is dropped or counted twice where one bar's arc ends and the next one's
\* begins, even when the signal reverses (deriveBoundaryFacts,
\* dynamic_execution.go:129-145, start excluded and end included).
NetCrossingsMatchOdometer ==
  ~landed => \A b \in BoundaryDegrees :
               net[b] = CopiesBelow(unwrapped, b) - CopiesBelow(origin, b)

\* The boundaries met by a walk along the shorter arc one degree at a time: the
\* reference definition of deriveBoundaryFacts.
DegreeWalk(from, delta) ==
  LET sign      == IF delta < 0 THEN -1 ELSE 1
      Angle(i)  == NormalizePhase(from + sign * i)
      hits      == {i \in 1..(sign * delta) : Angle(i) \in BoundaryDegrees}
      Nth(k)    == CHOOSE i \in hits : Cardinality({j \in hits : j <= i}) = k
  IN  [k \in 1..Cardinality(hits) |-> Angle(Nth(k))]

\* Modular distances and the sort by distance (dynamic_execution.go:129-153)
\* yield the boundaries of that walk, in its order, for every pair of angles,
\* the half circle of exactly 180 degrees included.
FactsMatchDegreeWalk ==
  [k \in DOMAIN last.facts |-> last.facts[k].boundary] = DegreeWalk(last.from, last.delta)
=============================================================================
