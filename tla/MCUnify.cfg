SPECIFICATION Spec
CONSTANTS
  Inputs <- MCInputs
  SearchBound = 60
INVARIANTS
  BetaLaws
  EnvAcyclic
  GroundAnswersAreRight
  FirstOrderUnifyComplete
PROPERTY Terminates
CHECK_DEADLOCK FALSE
