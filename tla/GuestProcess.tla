------------------------------ MODULE GuestProcess ------------------------------
(***************************************************************************)
(* What PRoot keeps for each guest process besides its table of tracees:    *)
(* fake ids and modes (FakeId0), the view of /proc and of the other         *)
(* processes (ProcIsolation), the limits (ResourceLimit) and the emulated   *)
(* heap (Heap).  They share the tracees and no other state, so a behaviour  *)
(* is one of them.                                                          *)
(***************************************************************************)
EXTENDS FakeId0, ProcIsolation, ResourceLimit, Heap

VARIABLE part

Some(S) == CHOOSE x \in S : TRUE

ProcessInit ==
    /\ part \in {"fake_id0", "proc_isolation", "resource_limit", "heap"}
    /\ Init /\ ProcInit /\ LimitInit /\ HeapInit
    /\ part # "fake_id0" => guest = Some({g \in Guests : "files" \notin g}) /\ creds[First].u.r = Some(Id)
    /\ part # "proc_isolation" => proc_guest = Some(ProcGuests)
    /\ part # "resource_limit" =>
          limit_guest = Some(LimitGuests) /\ roptions = Some(LimitOptions)
    /\ part # "heap" => heap_guest = Some(HeapGuests)

FakeMoves == part = "fake_id0" /\ Next /\ UNCHANGED <<part, procVars, limitVars, heapVars>>
ProcMoves == part = "proc_isolation" /\ ProcNext /\ UNCHANGED <<part, vars, limitVars, heapVars>>
LimitMoves == part = "resource_limit" /\ LimitNext /\ UNCHANGED <<part, vars, procVars, heapVars>>
HeapMoves == part = "heap" /\ HeapNext /\ UNCHANGED <<part, vars, procVars, limitVars>>

ProcessNext == FakeMoves \/ ProcMoves \/ LimitMoves \/ HeapMoves

processVars == <<part, vars, procVars, limitVars, heapVars>>

ProcessSpec == ProcessInit /\ [][ProcessNext]_processVars

================================================================================
