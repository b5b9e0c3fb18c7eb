SPECIFICATION Spec
CONSTANTS
  MaxWorkers = 500
INVARIANTS TypeOK PredictionAgrees
PROPERTIES EveryTurnAdvances
CHECK_DEADLOCK FALSE
