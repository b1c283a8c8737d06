------------------------------- MODULE IpcShm -------------------------------
(***************************************************************************)
(* Shared memory of the sysvipc extension.  The memory is a file the       *)
(* shm-helper process holds.  shmat makes the tracee itself fetch it: a    *)
(* chain of socket, connect, recvmsg and mmap in the place of the call,    *)
(* while PRoot asks the helper to send the file to the next client.        *)
(* Which memory a mapping has is what matters here, addresses do not.      *)
(***************************************************************************)
EXTENDS IpcWait

CONSTANTS
    MaxShms, \* bound on the segments created or first attached
    MaxMaps, \* bound on the mappings of a process per slot
    Backlog  \* how many clients can wait to be accepted: listen(fd, 1) allows two

VARIABLES
    process,        \* config->process, named after a tracee
    shms,           \* ipc_namespace->shms
    maps,           \* maps[p][i]: SysVIpcSharedMemMap of process p on slot i
    segments,       \* segments so far, which numbers their files
    requests,       \* SHMHELPER_DISTRIBUTE: files to send, not handled yet
    backlog,        \* clients of the helper not accepted yet, 0 for one that has closed
    inbox,          \* the file sent to each, 0 if none
    asked,          \* the file a tracee's shmat is to map
    wrong           \* somebody has mapped another file

shmVars == <<process, shms, maps, segments, requests, backlog, inbox, asked, wrong>>
helperVars == <<requests, backlog, inbox>>

\* ipc_namespace->shm_use_libandroid
use_libandroid == "libandroid" \in guest

Chained == {"SHMAT_SOCKET", "SHMAT_CONNECT", "SHMAT_RECVMSG", "SHMAT_MMAP"}

\* Mappings with size 0, whose mmap is still to come, and the others.
NoMaps == [i \in 1..Slots |-> [pending |-> 0, done |-> 0]]

ShmInit ==
    /\ process = [t \in Tracee |-> t]
    /\ shms = <<>>
    /\ maps = [p \in Tracee |-> NoMaps]
    /\ segments = 0
    /\ requests = <<>> /\ backlog = <<>>
    /\ inbox = [t \in Tracee |-> 0]
    /\ asked = [t \in Tracee |-> 0]
    /\ wrong = FALSE

ShmUnchanged == UNCHANGED shmVars

\* The list shms[i].mappings is not empty.
Mapped(m, i) == \E p \in Tracee : m[p][i].pending + m[p][i].done > 0

(***************************************************************************)
(* The end of mappings                                                     *)
(***************************************************************************)

\* sysvipc_do_rmid(); with libandroid the slot is only marked unused.
Freed(shm) ==
    [shm EXCEPT !.valid = FALSE, !.rmid_pending = FALSE,
                !.gen = IF use_libandroid THEN @ ELSE NextGeneration(@)]

\* sysvipc_shm_memmap_destructor() for the mappings in m no longer in n: what
\* becomes of the segments that have none left.
Unmapped(m, n) ==
    [i \in DOMAIN shms |->
        IF /\ Mapped(m, i) /\ ~Mapped(n, i)
           /\ shms[i].rmid_pending \/ use_libandroid
        THEN Freed(shms[i]) ELSE shms[i]]

SetMaps(n) == maps' = n /\ shms' = Unmapped(maps, n)

(***************************************************************************)
(* shmget, shmdt and shmctl                                                *)
(***************************************************************************)

\* shmget(); libandroid-shmem does it all in the helper.
Shmget(t, key) ==
    /\ Calls(t)
    /\ IF use_libandroid \/ WithKey(shms, key) # {}
       THEN UNCHANGED <<shms, segments>>
       ELSE LET i == NewSlot(shms) IN
            /\ segments < MaxShms /\ i <= Slots
            /\ shms' = Put(shms, i, [valid |-> TRUE, rmid_pending |-> FALSE,
                                     gen |-> Generation(shms, i), key |-> key, fd |-> segments + 1])
            /\ segments' = segments + 1
    /\ syscall_common(t, config, "OK")
    /\ UNCHANGED <<guest, live, aborted, process, maps, helperVars, asked, wrong>>

\* shmdt(): the mapping with that address goes, munmap replaces the call.  The
\* address of a pending one is still 0.
Shmdt(t, i) ==
    /\ Calls(t)
    /\ \/ /\ maps[process[t]][i].done > 0
          /\ SetMaps([maps EXCEPT ![process[t]][i].done = @ - 1])
       \/ /\ maps[process[t]][i].pending > 0 /\ "threads" \in guest
          /\ SetMaps([maps EXCEPT ![process[t]][i].pending = @ - 1])
    /\ at' = [at EXCEPT ![t] = "call"]
    /\ UNCHANGED <<guest, live, config, aborted, process, segments, helperVars,
                   asked, wrong>>

\* The munmap, like the two closes at the end of a shmat, changes nothing here.
LastCallReturns(t) ==
    /\ t \in live /\ at[t] = "call" /\ ~aborted /\ config[t].chain = "NOT_CHAINED"
    /\ at' = [at EXCEPT ![t] = "run"]
    /\ UNCHANGED <<guest, live, config, aborted, shmVars>>

\* shmctl(IPC_RMID): put off until the last mapping goes.  With libandroid a
\* segment no process has mapped is unknown here, and left to the helper.
ShmctlRmid(t, i) ==
    /\ Calls(t) /\ "removes" \in guest
    /\ i \in DOMAIN shms /\ shms[i].valid
    /\ use_libandroid \/ Lookup(shms, i)
    /\ IF ~Mapped(maps, i)
       THEN /\ shms' = [shms EXCEPT ![i] = Freed(@)]
            /\ aborted' = use_libandroid
       ELSE /\ shms' = [shms EXCEPT ![i].rmid_pending = TRUE]
            /\ UNCHANGED aborted
    /\ syscall_common(t, config, "OK")
    /\ UNCHANGED <<guest, live, process, maps, segments, helperVars, asked, wrong>>

(***************************************************************************)
(* shmat                                                                   *)
(***************************************************************************)

\* Wrong variant of HelperBusy.
helper_never_busy == FALSE

\* Somebody is past its socket(): the helper is busy.
HelperBusy == \E u \in live : config[u].chain \in Chained \ {"SHMAT_SOCKET"}

\* The slot of the segment: with libandroid a new one for one not mapped yet.
ShmatSlot(i) ==
    \/ /\ i \in DOMAIN shms /\ shms[i].valid
       /\ use_libandroid \/ Lookup(shms, i)
       /\ UNCHANGED <<shms, segments>>
    \/ /\ use_libandroid /\ i = NewSlot(shms) /\ i <= Slots /\ segments < MaxShms
       /\ shms' = Put(shms, i, [valid |-> TRUE, rmid_pending |-> FALSE, gen |-> 0,
                                key |-> segments + 1, fd |-> segments + 1])
       /\ segments' = segments + 1

\* The mapping is registered first, so that the segment is not removed; then
\* the tracee waits, or its call becomes socket().
Shmat(t, i) ==
    /\ Calls(t) /\ maps[process[t]][i].pending + maps[process[t]][i].done < MaxMaps
    /\ "parallel_shmat" \in guest \/ \A u \in live : config[u].chain # "SHMAT_SOCKET"
    /\ ShmatSlot(i)
    /\ maps' = [maps EXCEPT ![process[t]][i].pending = @ + 1]
    /\ asked' = [asked EXCEPT ![t] = shms'[i].fd]
    /\ IF HelperBusy
       THEN syscall_common(t, [config EXCEPT ![t].obj = i, ![t].reason = "SHMAT_HELPER_BUSY"], "OK")
       ELSE /\ config' = [config EXCEPT ![t].obj = i, ![t].chain = "SHMAT_SOCKET"]
            /\ at' = [at EXCEPT ![t] = "exit"]
    /\ UNCHANGED <<guest, live, aborted, process, helperVars, wrong>>

\* sysvipc_shm_wake_pending_shmat() on the configurations c.
Pending(c) == { u \in live : c[u].reason = "SHMAT_HELPER_BUSY" }

PendingWoken(c) ==
    IF Pending(c) = {} THEN c
    ELSE [c EXCEPT ![Min(Pending(c))] = [Woken(@, "OK") EXCEPT !.chain = "SHMAT_SOCKET"]]

\* The chained socket() of a woken tracee follows its ppoll: at that one's exit,
\* or at its entrance, SYSCALL_CHAINED_ENTER, if it was cancelled before.
ChainedPpollExit(t) ==
    /\ GetsResult(t) /\ config[t].chain = "SHMAT_SOCKET"
    /\ config[t].wstate # "ENTERED_GETPID"
    /\ config' = [config EXCEPT ![t].wstate = "NOT_WAITING"]
    /\ at' = [at EXCEPT ![t] = "exit"]
    /\ UNCHANGED <<guest, live, aborted, shmVars>>

\* The stop of a step of the chain: SYSCALL_EXIT_START, or SYSCALL_CHAINED_EXIT.
ChainStop(t, chain) ==
    /\ t \in live /\ at[t] = "exit" /\ ~aborted
    /\ config[t].wstate = "NOT_WAITING" /\ config[t].chain = chain

\* sysvipc_shmat_chain() asserts this first; at the end, that there is a mapping
\* whose size is still 0.
SlotValid(t) == shms[config[t].obj].valid
HasPending(t) == maps[process[t]][config[t].obj].pending > 0

ChainAborts(t) ==
    /\ \E chain \in Chained : ChainStop(t, chain)
    /\ ~SlotValid(t) \/ ~HasPending(t)
    /\ aborted' = TRUE
    /\ UNCHANGED <<guest, live, at, config, shmVars>>

\* A step succeeds and registers the next call of the chain.
Advance(t, next) ==
    /\ SlotValid(t)
    /\ config' = [config EXCEPT ![t].chain = next]
    /\ at' = [at EXCEPT ![t] = "call"]
    /\ UNCHANGED <<guest, live, aborted, process, shms, maps, segments, asked>>

ChainSocket(t) ==
    /\ ChainStop(t, "SHMAT_SOCKET") /\ Advance(t, "SHMAT_CONNECT")
    /\ UNCHANGED <<helperVars, wrong>>

\* Once the tracee is connected PRoot has its file sent to the next client.
ChainConnect(t) ==
    /\ ChainStop(t, "SHMAT_CONNECT") /\ Advance(t, "SHMAT_RECVMSG")
    /\ requests' = Append(requests, shms[config[t].obj].fd)
    /\ UNCHANGED <<backlog, inbox, wrong>>

ChainRecvmsg(t) ==
    /\ ChainStop(t, "SHMAT_RECVMSG") /\ inbox[t] # 0 /\ Advance(t, "SHMAT_MMAP")
    /\ wrong' = (wrong \/ inbox[t] # asked[t])
    /\ inbox' = [inbox EXCEPT ![t] = 0]
    /\ UNCHANGED <<requests, backlog>>

Hangup(t) == [k \in DOMAIN backlog |-> IF backlog[k] = t THEN 0 ELSE backlog[k]]

\* The last step, and the failure of any step: the next shmat may begin.
ChainEnds(t, n) ==
    /\ SlotValid(t) /\ HasPending(t)
    /\ SetMaps(n)
    /\ config' = PendingWoken([config EXCEPT ![t] = Resumed(@)])
    /\ at' = [at EXCEPT ![t] = "call"]
    /\ inbox' = [inbox EXCEPT ![t] = 0]
    /\ backlog' = Hangup(t)
    /\ asked' = [asked EXCEPT ![t] = 0]
    /\ aborted' = \E u \in Pending(config) : u = Min(Pending(config)) /\ ~WakeAsserts(config[u])
    /\ UNCHANGED <<guest, live, process, segments, requests, wrong>>

\* The mapping is kept even if the mmap has failed.
ChainMmap(t) ==
    /\ ChainStop(t, "SHMAT_MMAP")
    /\ ChainEnds(t, [maps EXCEPT ![process[t]][config[t].obj].pending = @ - 1,
                                 ![process[t]][config[t].obj].done = @ + 1])

\* Wrong variant of ChainFails: the mapping is kept.
chain_fails_keeps(t) ==
    /\ ChainStop(t, "SHMAT_SOCKET") \/ (ChainStop(t, "SHMAT_RECVMSG") /\ "signals" \in guest)
    /\ ChainEnds(t, maps)

\* socket() fails, or recvmsg() is interrupted.  The helper is there as long as
\* PRoot is, so that connect() does not fail.
ChainFails(t) ==
    /\ ChainStop(t, "SHMAT_SOCKET") \/ (ChainStop(t, "SHMAT_RECVMSG") /\ "signals" \in guest)
    /\ ChainEnds(t, [maps EXCEPT ![process[t]][config[t].obj].pending = @ - 1])

(***************************************************************************)
(* The kernel and the helper                                               *)
(***************************************************************************)

\* connect() puts the tracee among the helper's clients, and recvmsg() waits
\* for what the helper sends; the calls between them return at once.
ChainedCallReturns(t) ==
    /\ t \in live /\ at[t] = "call" /\ ~aborted /\ config[t].chain \in Chained
    /\ config[t].chain = "SHMAT_RECVMSG" => inbox[t] # 0 \/ "signals" \in guest
    /\ config[t].chain = "SHMAT_CONNECT" => Len(backlog) < Backlog
    /\ backlog' = IF config[t].chain = "SHMAT_CONNECT" THEN Append(backlog, t) ELSE backlog
    /\ at' = [at EXCEPT ![t] = "exit"]
    /\ UNCHANGED <<guest, live, config, aborted, process, shms, maps, segments,
                   requests, inbox, asked, wrong>>

\* SHMHELPER_DISTRIBUTE in the helper: accept(), then the file is sent.
HelperDistributes ==
    /\ requests # <<>> /\ backlog # <<>>
    /\ inbox' = [t \in Tracee |-> IF t = Head(backlog) THEN Head(requests) ELSE inbox[t]]
    /\ requests' = Tail(requests) /\ backlog' = Tail(backlog)
    /\ UNCHANGED <<guest, live, at, config, aborted, process, shms, maps, segments,
                   asked, wrong>>

(***************************************************************************)
(* Processes                                                               *)
(***************************************************************************)

\* fork(): INHERIT_CHILD, sysvipc_shm_inherit_process() copies the mappings.
ShmFork(t, u) ==
    /\ Calls(t) /\ "forks" \in guest /\ u \notin live /\ \A v \in live : process[v] # u
    /\ live' = live \cup {u}
    /\ process' = [process EXCEPT ![u] = u]
    /\ maps' = [maps EXCEPT ![u] = maps[process[t]]]
    /\ UNCHANGED <<guest, at, config, aborted, shms, segments, helperVars, asked, wrong>>

\* clone(CLONE_THREAD): the mappings are shared.
ShmThread(t, u) ==
    /\ Calls(t) /\ u \notin live /\ \A v \in live : process[v] # u
    /\ "threads" \in guest
    /\ live' = live \cup {u}
    /\ process' = [process EXCEPT ![u] = process[t]]
    /\ UNCHANGED <<guest, at, config, aborted, shms, maps, segments, helperVars, asked,
                   wrong>>

\* SYSCALL_ENTER_END of execve: the mappings go before the kernel takes over.
ShmExecve(t) ==
    /\ Calls(t)
    /\ SetMaps([maps EXCEPT ![process[t]] = NoMaps])
    /\ UNCHANGED <<guest, live, at, config, aborted, process, segments, helperVars,
                   asked, wrong>>

\* The mappings of a process are freed with the last of its threads.
ShmDies(t) ==
    /\ Dies(t)
    /\ IF \E u \in live \ {t} : process[u] = process[t]
       THEN UNCHANGED <<maps, shms>>
       ELSE SetMaps([maps EXCEPT ![process[t]] = NoMaps])
    /\ inbox' = [inbox EXCEPT ![t] = 0] /\ asked' = [asked EXCEPT ![t] = 0]
    /\ backlog' = Hangup(t)
    /\ UNCHANGED <<process, segments, requests, wrong>>

\* A wait that is given up leaves the mapping registered.
ShmInterrupted(t) ==
    /\ ExitInterrupted(t)
    /\ asked' = [asked EXCEPT ![t] = 0]
    /\ UNCHANGED <<process, shms, maps, segments, helperVars, wrong>>

ShmNext ==
    \/ \E t \in Tracee :
          \/ \E key \in Keys : Shmget(t, key)
          \/ \E i \in 1..Slots : Shmdt(t, i) \/ ShmctlRmid(t, i) \/ Shmat(t, i)
          \/ ChainedPpollExit(t) \/ ChainAborts(t) \/ ChainSocket(t) \/ ChainConnect(t)
          \/ ChainRecvmsg(t) \/ ChainMmap(t) \/ ChainFails(t)
          \/ LastCallReturns(t) \/ ChainedCallReturns(t)
          \/ \E u \in Tracee : ShmFork(t, u) \/ ShmThread(t, u)
          \/ ShmExecve(t) \/ ShmDies(t) \/ ShmInterrupted(t)
    \/ HelperDistributes
    \/ /\ \E t \in Tracee : FailedCall(t) \/ PpollEnds(t) \/ EnterPpoll(t) \/ ExitDone(t)
       /\ ShmUnchanged
=============================================================================
