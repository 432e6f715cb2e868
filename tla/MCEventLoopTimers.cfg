CONSTANTS
  Main = main
  Gatherer = gatherer
  Others = {other1}
  NoThread = nothread
  Timers = {t1, t2}
  NoTimer = notimer
  Idles = {}
  MaxPurges = 1
SPECIFICATION Spec
PROPERTY CancelledTimerStaysSilent
PROPERTY KeepsTimerPromise
CHECK_DEADLOCK FALSE
