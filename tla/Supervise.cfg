SPECIFICATION FairSpec
CONSTANTS
  NULL = NULL
  Root = root
  Children = {d1}
  NbClients = 2
  TableSizes = {1, 2}
  Guest = {"daemonizes"}
CHECK_DEADLOCK FALSE
PROPERTIES ClientServed 
