SPECIFICATION Spec
CONSTANTS
  Nil = Nil
  BadTime = BadTime
  Schedules <- MCSchedules
  DefaultSetRequeue = 2
  MaxTime = 5
  MaxFaults = 2
INVARIANT SetTypeOK
PROPERTIES
  ActivatedAfterStart
  FollowsSchedule
