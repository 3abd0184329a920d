SPECIFICATION Spec
CONSTANTS
  Phases <- MCPhases
  MaxAngle <- MCMaxAngle
INVARIANTS
  ForwardStateMatchesQuadrant
  NetCrossingsMatchOdometer
  FactsMatchDegreeWalk
