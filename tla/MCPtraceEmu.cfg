SPECIFICATION Spec
CONSTANTS
  NULL = NULL
  ANY = ANY
  p0 = p0
  p1 = p1
  p2 = p2
  Proc <- MCProc
  Root = p0
  Guests <- MCGuests
CHECK_DEADLOCK FALSE
SYMMETRY Symmetry
INVARIANTS NoLostWakeup
 
