--------------------------- MODULE MCTraceeTable ---------------------------
(***************************************************************************)
(* TraceeTable with three pids in two buckets, PRoot's own pid sharing a   *)
(* bucket with one of them, and four allocations.                          *)
(***************************************************************************)
EXTENDS TraceeTable, TLC

CONSTANTS t1, t2, t3, t4

MCTracee == {t1, t2, t3, t4}
MCPid == 1 .. 3
Symmetry == Permutations(MCTracee)
=============================================================================
