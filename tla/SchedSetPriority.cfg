SPECIFICATION ApiSpec
CONSTANTS
  TASK_MAX = 4
  TASK_PRIORITY_MAX = 2
  MAX_SLEEP = 2
  TICK_MOD = 2
INVARIANT InOwnQueueOnly
