----------------------------- MODULE MCSysVIpc ------------------------------
(***************************************************************************)
(* Instances of SysVIpc for TLC: three tracees, of which the third is      *)
(* created later where shared memory is concerned.                         *)
(***************************************************************************)
EXTENDS SysVIpc

MCTracee == 1..3
MCKeys == {0, 1}
MCInitial == {1, 2}

\* What guests do, and whether their calls reach PRoot as SIGSYS.
MCGuests ==
    {{"msg", "signals"}, {"msg", "removes"}, {"msg", "kills", "short_buffers"},
     {"msg", "removes", "sigsys"},
     {"sem", "signals", "kills", "removes"}, {"sem", "setval", "mixed_ops", "sigsys"},
     {"shm", "forks", "removes", "sigsys"}, {"shm", "signals", "kills", "removes"},
     {"shm", "libandroid", "removes", "threads"}}

RmidGuests == {{"msg", "removes"}}

\* One message any msgrcv takes, and one only some take and not all have room for.
MCMessages == {[mtype |-> 1, length |-> 1], [mtype |-> 2, length |-> 2]}
MCReceives == {[typ |-> 0, size |-> 2, flags |-> {}],
               [typ |-> 2, size |-> 1, flags |-> {}],
               [typ |-> 2, size |-> 1, flags |-> {"NOERROR"}],
               [typ |-> -1, size |-> 2, flags |-> {"EXCEPT", "NOWAIT"}],
               [typ |-> 0, size |-> 2, flags |-> {"COPY", "NOWAIT"}]}

Op(n, op) == [num |-> n, op |-> op, nowait |-> FALSE]
MCSemops == {<<Op(1, -1)>>, <<Op(1, 1)>>, <<Op(1, -1), Op(2, -1)>>, <<Op(2, 1)>>,
             <<Op(1, 0), Op(2, 1)>>, <<Op(1, -1), Op(2, 1)>>,
             <<[num |-> 1, op |-> -1, nowait |-> TRUE]>>}
MCSetVals == {0, 1}
=============================================================================
