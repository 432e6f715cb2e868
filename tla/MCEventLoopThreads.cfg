CONSTANTS
  Main = main
  Gatherer = gatherer
  Others = {other1}
  NoThread = nothread
  Timers = {t1}
  NoTimer = notimer
  Idles = {i1}
  MaxPurges = 1
SPECIFICATION FairSpec
INVARIANT WorkerPostsToLiveExecutor
PROPERTY PurgedIdleNeverRuns
PROPERTY IdleSettles
PROPERTY TimerSettles
PROPERTY TerminationCompletes
CHECK_DEADLOCK FALSE
