SPECIFICATION Spec
CONSTANTS
  Xs <- XS
  Ys <- YS
  Ops <- OPS
  TornAnswers = FALSE
INVARIANTS
  TypeOK
PROPERTIES
  RightAnswer
  Answered
