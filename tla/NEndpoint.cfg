SPECIFICATION Spec
CONSTANTS
  Requests = {r1, r2}
  None = None
  MaxSockets = 2
  maxRetries = 1
  MaxSequence = 3
  MaxResets = 1
CHECK_DEADLOCK FALSE
INVARIANTS AnswersMatch DeliveredOnce
PROPERTY RequestsSettle
