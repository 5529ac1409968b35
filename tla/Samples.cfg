SPECIFICATION Spec
CONSTANTS
  MaxEvents = 3
  NumPkts = 2
INVARIANTS
  TruthfulAnswers
  NoLostWakeup
PROPERTY MainEnds
CHECK_DEADLOCK FALSE
