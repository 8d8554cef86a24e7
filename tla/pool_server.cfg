SPECIFICATION Spec
CONSTANTS
  MaxThreads = 3
  InitThreads = 3
  ThreadCounts = {2}
  Tasks = {t1, t2, t3, t4}
  Submitters = {main}
  Owner = main
  OwnerOps <- ServerOps
  MaxSpurious = 1
  Free = Free
  NoTask = NoTask
  t1 = t1
  t2 = t2
  t3 = t3
  t4 = t4
  main = main
  s1 = s1
  s2 = s2
INVARIANTS
  NeverCrashes
CHECK_DEADLOCK FALSE
