SPECIFICATION Spec
CONSTANTS
  s1 = s1
  s2 = s2
  s3 = s3
  Sessions = {s1, s2, s3}
  MaxFd = 3
  MaxStarts = 2
INVARIANTS
  SocketsOwned
CHECK_DEADLOCK FALSE
