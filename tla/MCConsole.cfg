SPECIFICATION FairSpec
CONSTANTS
  Plans <- MCPlans
  MaxSessions = 2
  MaxFailures = 1
  MaxDialogs = 4
INVARIANTS TypeOK NothingSkipped ShownOutcomeHolds OneDialogPerCriticalStep
PROPERTIES PageNeverGoesBack StayingUserFinishes
CHECK_DEADLOCK FALSE
