SPECIFICATION Spec
CONSTANTS
  i1 = i1
  i2 = i2
  a1 = a1
  a2 = a2
  b1 = b1
  Instance = {i1, i2}
  InstOf <- MCInstOf
  Roots = {a1, b1}
  VFd = {3, 4}
  VPort = {80, 81}
  AutoPort <- MCAutoPort
  Published <- MCPublished
  NetGuests <- MCNetGuests
  VNP_MAX_FDS = 2
  VNP_REG_MAX = 2
  MaxVSockets = 2
  MaxVBinds = 2
  MaxVConnects = 1
  MaxCleanups = 1
  PubOptions <- MCPubOptions
  TakenPorts = {22}
  Clients = {c1, c2}
  PubTasks = {t1, t2}
  FirstTask = t1
  VNP_EXPOSE_MAX = 2
  UnixBacklog = 2
  MaxReplies = 1
  NTask = {n1, n2}
  HighPort = 6
  PORT_THRESHOLD = 3
  PORT_ADDITION = 2
  MAX_PORT_SEARCH = 3
  MaxMappings = 2
  MaxHostPorts = 1
  PortOptions <- MCPortOptions
  PortGuests <- MCPortGuests
CHECK_DEADLOCK FALSE
INVARIANTS PublishedWhileAlive
