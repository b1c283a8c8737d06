------------------------------ MODULE SysVIpc -------------------------------
(***************************************************************************)
(* The sysvipc extension: message queues, semaphores and shared memory,    *)
(* which share the wait mechanism of IpcWait and nothing else.  A guest    *)
(* uses one of the three.                                                  *)
(***************************************************************************)
EXTENDS IpcMsg, IpcSem, IpcShm

CONSTANT Initial   \* the tracees there are when the guest begins to use shmat

vars == <<waitVars, msgVars, semVars, shmVars>>

Init ==
    /\ WaitInit /\ MsgInit /\ SemInit /\ ShmInit
    /\ live = IF "shm" \in guest THEN Initial ELSE Tracee

Next ==
    \/ "msg" \in guest /\ MsgNext /\ SemUnchanged /\ ShmUnchanged
    \/ "sem" \in guest /\ SemNext /\ MsgUnchanged /\ ShmUnchanged
    \/ "shm" \in guest /\ ShmNext /\ MsgUnchanged /\ SemUnchanged

Spec == Init /\ [][Next]_vars

(***************************************************************************)
(* Properties                                                              *)
(***************************************************************************)

\* Types of the wait mechanism, of the queues, of the semaphores, whose values
\* stay within SYSVIPC_MAX_SEMVAL, and of the segments.
TypeOK ==
    /\ WaitTypeOK
    /\ Len(queues) <= Slots /\ Len(semaphores) <= Slots /\ Len(shms) <= Slots
    /\ \A i \in DOMAIN queues : queues[i].valid \in BOOLEAN /\ queues[i].gen \in -GenHalf..GenHalf-1
    /\ \A i \in DOMAIN semaphores : semaphores[i].sems \in [1..NSems -> 0..MaxSemval]
    /\ \A i \in DOMAIN shms : shms[i].fd \in 1..MaxShms
    /\ maps \in [Tracee -> [1..Slots -> [pending : 0..MaxMaps, done : 0..MaxMaps]]]

\* No assert() of the extension fails, for guests that do not remove what others
\* use (sysvipc_msgrcv_retry) and have no threads (sysvipc_shmat_chain).
NoAbort == guest \cap {"removes", "threads"} = {} => ~aborted

\* No assert() of the extension fails, whatever the guest does: this is what the
\* assertions say, among them that of sysvipc_msgrcv_retry() on the queue.
AssertionsHold == ~aborted

\* msgget, semget and shmget never make two objects with one key.
KeysAreUnique ==
    \A objects \in {queues, semaphores, shms} : ~use_libandroid =>
        \A i, j \in DOMAIN objects :
            objects[i].valid /\ objects[j].valid /\ objects[i].key = objects[j].key
                /\ objects[i].key # IPC_PRIVATE => i = j

\* Whoever waits for an object waits for one that is there: IPC_RMID has woken
\* all of the others, and a slot is not used again under a waiter.
WaitsForValid ==
    \A t \in live :
        /\ config[t].reason = "QUEUE_RECV" =>
              /\ queues[config[t].obj].valid
              /\ config[t].arg.from = <<config[t].obj, queues[config[t].obj].gen>>
        /\ config[t].reason = "SEMOP" =>
              /\ semaphores[config[t].obj].valid
              /\ config[t].arg.gen = semaphores[config[t].obj].gen

Copies(m) == Cardinality({ p \in (1..Slots) \X (1..MaxSends) :
                              /\ p[1] \in DOMAIN queues /\ p[2] \in DOMAIN queues[p[1]].items
                              /\ queues[p[1]].items[p[2]].id = m })

\* No message is delivered twice, or delivered and kept, whoever is woken, tries
\* again, fails or dies in between; and none is lost while its queue exists.
EachMessageOnce ==
    /\ \A m \in 1..sends : Copies(m) + delivered[m] <= 1
    /\ "removes" \notin guest => \A m \in 1..sends : Copies(m) + delivered[m] = 1

\* A tracee does not wait in msgrcv for a message that is in the queue, unless
\* another one has been woken for it and is about to take it.  Not so when that
\* one may die first, or may find the message too long.
NoReceiverForgotten ==
    guest \cap {"kills", "short_buffers"} = {} =>
        \A t \in live : config[t].reason = "QUEUE_RECV" =>
            \/ FoundItem(queues[config[t].obj].items, config[t].arg) = 0
            \/ \E u \in live : config[u].chain = "MSGRCV_RETRY" /\ config[u].obj = config[t].obj

\* A semop that can be done does not wait: the semop that made it possible has
\* done it.  SETVAL does not look, and one pass over the others is not enough
\* when the operations of one waiter can let another one through.
NoSemopForgotten ==
    guest \cap {"setval", "mixed_ops"} = {} =>
        \A t \in live : config[t].reason = "SEMOP" =>
            sysvipc_sem_check(semaphores[config[t].obj].sems, config[t].arg.sops).status = "wait"

\* A semop is done as a whole if its caller is told so, and not at all if the
\* caller is told that it was interrupted, or that the set is gone.
SemopAllOrNothing ==
    \A i \in DOMAIN semaphores : semaphores[i].valid =>
        \A n \in 1..NSems :
            semaphores[i].sems[n] = told[i][n] +
                MapThenSumSet(LAMBDA t : Change(config[t].arg.sops, n),
                              { t \in live : Owes(t) /\ config[t].obj = i })

\* A mapped segment is not freed; one whose removal was asked for is freed when
\* the last mapping goes; with libandroid the mapped ones are those known.
MappedSegments ==
    \A i \in DOMAIN shms :
        /\ Mapped(maps, i) => shms[i].valid
        /\ shms[i].rmid_pending \/ (use_libandroid /\ shms[i].valid) => Mapped(maps, i)

\* A tracee waiting for its turn in shmat has somebody before it who will wake
\* it: true as long as nobody dies in the middle of a shmat.
ShmatTurnComes ==
    "kills" \notin guest =>
        (Pending(config) # {} => \E u \in live : config[u].chain \in Chained)

\* "Check if any tracee is running concurrent shmat and wait if so": at most one
\* tracee is between its connect and the end of its shmat, so that each maps the
\* segment it asked for, even after one of them has died half-way.  The check does
\* not see those still in socket(), and a thread can detach the mapping of another
\* one's shmat, whose slot is then used again.
ShmatMapsWhatWasAsked == guest \cap {"parallel_shmat", "threads"} = {} => ~wrong

\* A mapping without size belongs to a shmat that will give it one or remove it.
\* An interrupted wait forgets it; a thread may fork, or exec, meanwhile.
PendingMappingsEnd ==
    guest \cap {"signals", "threads"} = {} =>
        \A t \in live : \A i \in 1..Slots :
            maps[t][i].pending =
                Cardinality({ u \in live : /\ process[u] = t /\ config[u].obj = i
                                           /\ \/ config[u].chain \in Chained
                                              \/ config[u].reason = "SHMAT_HELPER_BUSY" })
=============================================================================
