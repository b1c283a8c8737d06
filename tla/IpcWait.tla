------------------------------ MODULE IpcWait -------------------------------
(***************************************************************************)
(* How the sysvipc extension makes a guest wait.  A System V IPC call that *)
(* cannot complete is turned into a ppoll(2) that never ends; whoever      *)
(* completes it stores the result and interrupts the ppoll with a SIGSTOP  *)
(* PRoot then swallows.  A call that completes at once becomes getpid(2),  *)
(* whose result is replaced.  When the Android sandbox refuses the call    *)
(* with SIGSYS, PRoot has to restart the tracee into the ppoll, and the    *)
(* wait may be over before it begins.                                      *)
(*                                                                         *)
(* PRoot handles one stop at a time, so a handler is one step; the kernel  *)
(* and the other tracees go on between two of them.                        *)
(***************************************************************************)
EXTENDS Integers, Sequences, FiniteSets, SequencesExt

CONSTANTS
    Tracee,   \* in the order of PRoot's list of tracees: a set of integers
    Guests,   \* the guests: each is what one does; see Habits
    Slots,    \* how long the array of objects can get
    Keys,     \* the keys objects are got by; IPC_PRIVATE is one
    IPC_PRIVATE,
    GenHalf   \* generation is an int16_t: 2^15

(***************************************************************************)
(* A guest uses one of the three families of calls.  It may send signals   *)
(* to, or kill, tracees in the middle of a call; remove objects; receive   *)
(* into buffers smaller than the messages; set semaphores, or use semops   *)
(* other than plain P and V; fork, have threads, and have shmats begin     *)
(* while another one is in socket().  "libandroid" is how PRoot is built:   *)
(* memory is shared with what runs outside PRoot.  "sigsys" is where it    *)
(* runs: the sandbox of Android refuses all of these calls.                *)
(***************************************************************************)
Habits == {"msg", "sem", "shm",
           "signals", "kills", "removes", "short_buffers", "setval", "mixed_ops", "forks",
           "threads", "parallel_shmat", "libandroid", "sigsys"}

ASSUME TraceeAssumption == Tracee \subseteq Int /\ IsFiniteSet(Tracee)
ASSUME GuestsAssumption == Guests \subseteq SUBSET Habits
ASSUME SlotsAssumption == Slots \in Nat \ {0} /\ GenHalf \in Nat \ {0}
ASSUME KeysAssumption == IPC_PRIVATE \in Keys

VARIABLES
    guest,   \* what the guest does; never changes
    live,    \* the tracees that exist
    at,      \* where each is: "run", "restart", "ppoll", "call" or "exit"
    config,  \* struct SysVIpcConfig of each
    aborted  \* an assert() has failed

waitVars == <<guest, live, at, config, aborted>>

WaitReason == {"NOT_WAITING", "QUEUE_RECV", "SEMOP", "SHMAT_HELPER_BUSY"}
WaitState == {"NOT_WAITING", "RESTARTED_INTO_PPOLL_CANCELED", "RESTARTED_INTO_PPOLL",
              "ENTERED_PPOLL", "SIGNALED_PPOLL", "ENTERED_GETPID"}
ChainState == {"NOT_CHAINED", "SHMAT_SOCKET", "SHMAT_CONNECT", "SHMAT_RECVMSG", "SHMAT_MMAP",
               "MSGRCV_RETRY"}
Status == {"OK", "EAGAIN", "EINTR", "EIDRM", "error"}

\* arg is what the call in progress was given: msgrcv_*, or semop_sops.
ZeroConfig == [reason |-> "NOT_WAITING", wstate |-> "NOT_WAITING", chain |-> "NOT_CHAINED",
               status |-> "OK", obj |-> 1, arg |-> <<>>]

WaitInit ==
    /\ guest \in Guests
    /\ at = [t \in Tracee |-> "run"]
    /\ config = [t \in Tracee |-> ZeroConfig]
    /\ aborted = FALSE

WaitTypeOK ==
    /\ guest \in Guests
    /\ live \subseteq Tracee
    /\ at \in [Tracee -> {"run", "restart", "ppoll", "call", "exit"}]
    /\ \A t \in Tracee :
          /\ config[t].reason \in WaitReason
          /\ config[t].wstate \in WaitState
          /\ config[t].chain \in ChainState
          /\ config[t].status \in Status
          /\ config[t].obj \in 1..Slots
    /\ aborted \in BOOLEAN

(***************************************************************************)
(* The arrays of objects.  msgget, semget and shmget look a key up alike.  *)
(***************************************************************************)

WithKey(objects, key) ==
    { i \in DOMAIN objects : objects[i].valid /\ key # IPC_PRIVATE /\ objects[i].key = key }

Unused(objects) == { i \in DOMAIN objects : ~objects[i].valid }

\* Where a new object goes: the first unused slot, or one more.
NewSlot(objects) ==
    IF Unused(objects) = {} THEN Len(objects) + 1
    ELSE Min(Unused(objects))

NextGeneration(g) == IF g = GenHalf - 1 THEN -GenHalf ELSE g + 1

\* The generation a slot's new object has: memset() for one more slot.
Generation(objects, i) == IF i \in DOMAIN objects THEN objects[i].gen ELSE 0

Put(objects, i, object) ==
    IF i \in DOMAIN objects THEN [objects EXCEPT ![i] = object] ELSE Append(objects, object)

\* LOOKUP_IPC_OBJECT finds object i from the id IPC_OBJECT_ID makes of it: the
\* bits of the id are compared with a signed generation.
Lookup(objects, i) ==
    /\ i \in DOMAIN objects /\ objects[i].valid
    /\ objects[i].gen = objects[i].gen % (2 * GenHalf)

(***************************************************************************)
(* The wait mechanism                                                      *)
(***************************************************************************)

\* A tracee about to make a call.
Calls(t) == t \in live /\ at[t] = "run" /\ ~aborted

\* sysvipc_wake_tracee() on a configuration.
Woken(c, status) ==
    [c EXCEPT !.reason = "NOT_WAITING",
              !.status = status,
              !.wstate = IF c.wstate = "ENTERED_PPOLL" THEN "SIGNALED_PPOLL"
                         ELSE "RESTARTED_INTO_PPOLL_CANCELED"]

\* ... which asserts that the tracee waits.
WakeAsserts(c) ==
    /\ c.reason # "NOT_WAITING"
    /\ c.wstate \in {"ENTERED_PPOLL", "RESTARTED_INTO_PPOLL"}

\* The call is over; what is left in the other fields is not read again.
Resumed(c) ==
    [c EXCEPT !.wstate = "NOT_WAITING", !.reason = "NOT_WAITING", !.chain = "NOT_CHAINED",
              !.status = "OK", !.obj = 1, !.arg = <<>>]

\* The end of sysvipc_syscall_common(): c is the configuration of every tracee
\* after the handler, which returned status.
syscall_common(t, c, status) ==
    LET sigsys == "sigsys" \in guest IN
        IF c[t].reason # "NOT_WAITING"
        THEN /\ config' = [c EXCEPT ![t].wstate = IF sigsys THEN "RESTARTED_INTO_PPOLL"
                                                  ELSE "ENTERED_PPOLL"]
             /\ at' = [at EXCEPT ![t] = IF sigsys THEN "restart" ELSE "ppoll"]
        ELSE IF sigsys
        THEN config' = [c EXCEPT ![t] = Resumed(@)] /\ at' = at
        ELSE /\ config' = [c EXCEPT ![t].status = status, ![t].wstate = "ENTERED_GETPID"]
             /\ at' = [at EXCEPT ![t] = "exit"]

\* A call whose handler returns an error before it does anything.
FailedCall(t) ==
    /\ Calls(t)
    /\ syscall_common(t, config, "OK")
    /\ UNCHANGED <<guest, live, aborted>>

(***************************************************************************)
(* The kernel                                                              *)
(***************************************************************************)

\* The ppoll ends because of the SIGSTOP of sysvipc_wake_tracee(), or because
\* of a signal of the guest's own, or of the timeout of semtimedop(2).
PpollEnds(t) ==
    /\ t \in live /\ at[t] = "ppoll" /\ ~aborted
    /\ config[t].wstate = "SIGNALED_PPOLL" \/ "signals" \in guest
    /\ at' = [at EXCEPT ![t] = "exit"]
    /\ UNCHANGED <<guest, live, config, aborted>>

(***************************************************************************)
(* The stops of a waiting tracee, but for the calls chained by shmat       *)
(***************************************************************************)

\* SYSCALL_ENTER_START of the ppoll a tracee was restarted into.
EnterPpoll(t) ==
    /\ t \in live /\ at[t] = "restart" /\ ~aborted
    /\ config[t].wstate = "RESTARTED_INTO_PPOLL"
    /\ config' = [config EXCEPT ![t].wstate = "ENTERED_PPOLL"]
    /\ at' = [at EXCEPT ![t] = "ppoll"]
    /\ UNCHANGED <<guest, live, aborted>>

\* SYSCALL_EXIT_START of a ppoll nobody has signalled: the call is given up.
\* sysvipc_semop_timedout() forgets the operations.
ExitInterrupted(t) ==
    /\ t \in live /\ at[t] = "exit" /\ ~aborted
    /\ config[t].wstate = "ENTERED_PPOLL"
    /\ aborted' = (config[t].reason = "NOT_WAITING")
    /\ config' = [config EXCEPT ![t] = Resumed(@)]
    /\ at' = [at EXCEPT ![t] = "run"]
    /\ UNCHANGED <<guest, live>>

\* The stop at which a tracee gets status_after_wait: SYSCALL_EXIT_START, or
\* SYSCALL_ENTER_START of a ppoll that has been cancelled.
GetsResult(t) ==
    /\ t \in live /\ ~aborted
    /\ \/ at[t] = "exit" /\ config[t].wstate \in {"SIGNALED_PPOLL", "ENTERED_GETPID"}
       \/ at[t] = "restart" /\ config[t].wstate = "RESTARTED_INTO_PPOLL_CANCELED"

\* When nothing is to be done but to poke the result.
ExitDone(t) ==
    /\ GetsResult(t) /\ config[t].chain = "NOT_CHAINED"
    /\ config' = [config EXCEPT ![t] = Resumed(@)]
    /\ at' = [at EXCEPT ![t] = "run"]
    /\ aborted' = (config[t].reason # "NOT_WAITING")
    /\ UNCHANGED <<guest, live>>

\* The tracee dies: its configuration is freed with it.
Dies(t) ==
    /\ t \in live /\ ~aborted
    /\ "kills" \in guest
    /\ live' = live \ {t}
    /\ at' = [at EXCEPT ![t] = "run"]
    /\ config' = [config EXCEPT ![t] = ZeroConfig]
    /\ UNCHANGED <<guest, aborted>>
=============================================================================
