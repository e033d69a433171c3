CONSTANT Message <- MCMessages
SPECIFICATION Spec
INVARIANTS
  RoundsAgree
  ScheduleAgrees
  ChainAgrees
  KnownAnswers
CHECK_DEADLOCK FALSE
