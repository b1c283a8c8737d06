---------------------------- MODULE MCPtraceEmu -----------------------------
(***************************************************************************)
(* Instances of PtraceEmu for TLC: a parent and two children.              *)
(***************************************************************************)
EXTENDS PtraceEmu, TLC

CONSTANTS p0, p1, p2

\* What ptracers that see syscall stops do, and what processes that also wait
\* for children they do not trace do.
MCGuests == {{"syscall_stops"}, {"kernel_waits"}}
MCProc == {p0, p1, p2}
\* p0 is the parent; its children are interchangeable.
Symmetry == Permutations({p1, p2})
=============================================================================
