SPECIFICATION ProcessSpec
CONSTANTS
  Tracee = {t1, t2}
  Id = {0, 1, 2}
  Guests <- MCGuests
  p1 = p1
  p2 = p2
  p3 = p3
  h1 = h1
  h2 = h2
  h3 = h3
  PTask = {p1, p2, p3}
  PFirst = p1
  PFd = {3, 4, 5}
  BadFd = 99
  PFile = {1, 2}
  ProcPaths <- MCProcPaths
  PidOrder <- MCPidOrder
  ChunkLen = 2
  SynthText = 2
  MAX_PROC_SYNTH_FDS = 2
  MaxKills = 1
  ProcGuests <- MCProcGuests
  RTask = {x1, x2, x3, x4}
  RFirst = x1
  HostCpus = {0, 1}
  LimitOptions <- MCLimitOptions
  LimitGuests <- MCLimitGuests
  HTask = {b1, b2}
  HFirst = b1
  HeapPages = 2
  HeapGuests <- MCHeapGuests
CHECK_DEADLOCK FALSE
INVARIANTS LikeLinux ModesRestored ReadsLikeOpened KillReaches ListingComplete ProcLimitExact HeapMapped
PROPERTIES DroppedForGood
