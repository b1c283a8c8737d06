--------------------------- MODULE MCSyscallStops ---------------------------
(***************************************************************************)
(* Instances of SyscallStops for TLC.                                      *)
(***************************************************************************)
EXTENDS SyscallStops

CONSTANTS s1, s2

OldKernels == { k \in Kernels : k.order = "old" }
NewKernels == { k \in Kernels : k.order = "new" }

OneSignal == {s1}
TwoSignals == {s1, s2}

\* Every kind of call but "ficlone", and on kernels of the old order "fork".
KindsNew == AllKinds \ {"ficlone"}
KindsOld == AllKinds \ {"ficlone", "fork"}
NoKinds == {}
KindsFork == {"enter", "fork"}
KindsFiclone == {"enter", "ficlone"}
KindsChain == {"chain"}
=============================================================================
