SPECIFICATION Spec
CONSTANTS
  MutexTasks = {m1, m2, m3}
  NoTask = NoTask
  MaxNesting = 2
  CriticalTasks = {c1, c2}
  MaxSections = 2
  Producers = {p1, p2, isr}
  MaxItems = 2
  MaxCount = 2
  QueueSize = 3
  Tasks = {t1, t2}
  Joiners = {j1, j2}
  Periods = {2, 3}
  Ids = {2, 3, 4}
INVARIANTS
  HeldAnswerSound
  OneKeySuffices
  EndedTaskOwnsNothing
  TimerFiresWhenDue
  FlagLostOnlyByOvertaking
  BusyNotStuck
PROPERTY ItemsAreHandled
CHECK_DEADLOCK FALSE
