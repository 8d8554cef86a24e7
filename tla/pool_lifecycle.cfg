SPECIFICATION FairSpec
CONSTANTS
  MaxThreads = 2
  InitThreads = 2
  ThreadCounts = {0, 2}
  Tasks = {t1, t2, t3}
  Submitters = {main, s1}
  Owner = main
  OwnerOps <- AllOps
  MaxSpurious = 1
  Free = Free
  NoTask = NoTask
  t1 = t1
  t2 = t2
  t3 = t3
  main = main
  s1 = s1
  s2 = s2
INVARIANTS
  TypeOK
  NoSleepWithWork
  TaskHasOneHome
  SwapIsQuiet
  TakeFindsWork
  JoinIsAllOrNone
PROPERTIES
  HungUntilSpurious
  ImplementsWorkQueue
  JoinEndsOrHangs
  QueuedTaskStarts
CHECK_DEADLOCK FALSE
