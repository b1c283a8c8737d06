------------------------------- MODULE IpcSem -------------------------------
(***************************************************************************)
(* Semaphores of the sysvipc extension.  A semop that has to wait keeps    *)
(* its operations; every semop on the same set tries those of the others   *)
(* once, in the order of the list of tracees, and applies the ones it can. *)
(***************************************************************************)
EXTENDS IpcWait

CONSTANTS
    Semops,    \* what semop is called with: sequences of records num, op, nowait
    NSems,     \* semaphores in a set
    MaxSemval, \* SYSVIPC_MAX_SEMVAL
    SetVals,   \* the values SETVAL sets
    MaxSets,   \* bound on the sets that exist
    MaxSemgets \* bound on the sets created

VARIABLES
    semaphores, \* ipc_namespace->semaphores
    sets,       \* sets created so far
    told        \* told[i][n]: by how much semaphore n of set i has changed, as far
                \* as those who changed it know

semVars == <<semaphores, sets, told>>

ASSUME MaxSetsAssumption == MaxSets \in 1..Slots

Zeros == [n \in 1..NSems |-> 0]

SemInit ==
    /\ semaphores = <<>> /\ sets = 0
    /\ told = [i \in 1..Slots |-> Zeros]

SemUnchanged == UNCHANGED semVars

\* semget() creates a set of zeros, or finds the one with that key.
Semget(t, key) ==
    /\ Calls(t)
    /\ IF WithKey(semaphores, key) # {}
       THEN UNCHANGED semVars
       ELSE LET i == NewSlot(semaphores) IN
            /\ sets < MaxSemgets /\ i <= MaxSets
            /\ semaphores' = Put(semaphores, i, [valid |-> TRUE, gen |-> Generation(semaphores, i),
                                                 key |-> key, sems |-> Zeros])
            /\ sets' = sets + 1
            /\ told' = [told EXCEPT ![i] = Zeros]
    /\ syscall_common(t, config, "OK")
    /\ UNCHANGED <<guest, live, aborted>>

\* One operation of sysvipc_sem_check() on new_sems.
CheckOp(acc, sop) ==
    LET value == acc.sems[sop.num] + sop.op IN
    IF acc.status # "OK" THEN acc
    ELSE IF (sop.op = 0 /\ value # 0) \/ value < 0
    THEN [acc EXCEPT !.status = IF sop.nowait THEN "EAGAIN" ELSE "wait"]
    ELSE IF value > MaxSemval THEN [acc EXCEPT !.status = "error"]
    ELSE [acc EXCEPT !.sems[sop.num] = value]

\* sysvipc_sem_check(): the result, and the values if the operations are done.
sysvipc_sem_check(sems, sops) ==
    LET acc == FoldLeft(CheckOp, [status |-> "OK", sems |-> sems], sops)
    IN  IF acc.status = "OK" THEN acc ELSE [acc EXCEPT !.sems = sems]

SemWaiters(c, i) == { u \in live : c[u].reason = "SEMOP" /\ c[u].obj = i }

\* One turn of the loop of sysvipc_semop() over the other tracees.
CheckOther(acc, u) ==
    LET check == sysvipc_sem_check(acc.sems, acc.config[u].arg.sops) IN
    IF check.status = "wait" THEN acc
    ELSE [sems |-> check.sems,
          config |-> [acc.config EXCEPT ![u] = Woken(@, check.status)],
          aborted |-> acc.aborted \/ ~WakeAsserts(acc.config[u])]

\* Wrong variant of what follows.
check_no_other(t, i, acc) == acc

CheckOthers(t, i, acc) ==
    FoldLeft(CheckOther, acc, SetToSortSeq(SemWaiters(acc.config, i) \ {t}, <))

\* How much operations change semaphore n.
Change(sops, n) ==
    FoldLeft(LAMBDA sum, sop : IF sop.num = n THEN sum + sop.op ELSE sum, 0, sops)

Tell(i, sops) == [told EXCEPT ![i] = [n \in 1..NSems |-> @[n] + Change(sops, n)]]

\* P or V, on several semaphores at once or on one.
Plain(sops) == (\A k \in DOMAIN sops : sops[k].op < 0) \/ (\A k \in DOMAIN sops : sops[k].op > 0)

\* semop(2) and semtimedop(2).
Semop(t, i, sops) ==
    /\ Calls(t) /\ Lookup(semaphores, i)
    /\ "mixed_ops" \in guest \/ Plain(sops)
    /\ LET check == sysvipc_sem_check(semaphores[i].sems, sops)
           c == [config EXCEPT ![t].obj = i, ![t].arg = [sops |-> sops, gen |-> semaphores[i].gen],
                               ![t].reason = IF check.status = "wait" THEN "SEMOP" ELSE @]
           all == CheckOthers(t, i, [sems |-> check.sems, config |-> c, aborted |-> FALSE])
       IN  /\ semaphores' = [semaphores EXCEPT ![i].sems = all.sems]
           /\ aborted' = all.aborted
           /\ syscall_common(t, all.config, IF check.status = "wait" THEN "OK" ELSE check.status)
           /\ told' = IF at'[t] = "run" /\ check.status = "OK" THEN Tell(i, sops) ELSE told
    /\ UNCHANGED <<guest, live, sets>>

\* semctl(SETVAL): nobody who waits is looked at.
SemctlSetval(t, i, n, val) ==
    /\ Calls(t) /\ Lookup(semaphores, i) /\ "setval" \in guest
    /\ val <= MaxSemval
    /\ semaphores' = [semaphores EXCEPT ![i].sems[n] = val]
    /\ told' = [told EXCEPT ![i][n] = @ + val - semaphores[i].sems[n]]
    /\ syscall_common(t, config, "OK")
    /\ UNCHANGED <<guest, live, aborted, sets>>

\* semctl(IPC_RMID)
SemctlRmid(t, i) ==
    /\ Calls(t) /\ Lookup(semaphores, i) /\ "removes" \in guest
    /\ semaphores' = [semaphores EXCEPT ![i].valid = FALSE, ![i].sems = Zeros,
                                        ![i].gen = NextGeneration(@)]
    /\ syscall_common(t, [u \in Tracee |-> IF u \in SemWaiters(config, i)
                                           THEN Woken(config[u], "EIDRM") ELSE config[u]], "OK")
    /\ aborted' = \E u \in SemWaiters(config, i) : ~WakeAsserts(config[u])
    /\ UNCHANGED <<guest, live, sets, told>>

\* What a tracee has been granted and does not know of yet.
Owes(t) ==
    /\ t \in live /\ config[t].arg # <<>>
    /\ config[t].reason = "NOT_WAITING" /\ config[t].status = "OK"
    /\ config[t].arg.gen = semaphores[config[t].obj].gen

\* The result of a semop reaches the tracee, or the tracee dies.
SemSettles(t) ==
    /\ ExitDone(t) \/ Dies(t)
    /\ told' = IF Owes(t) THEN Tell(config[t].obj, config[t].arg.sops) ELSE told
    /\ UNCHANGED <<semaphores, sets>>

SemNext ==
    \/ \E t \in Tracee :
          \/ \E key \in Keys : Semget(t, key)
          \/ \E i \in 1..Slots :
                \/ \E sops \in Semops : Semop(t, i, sops)
                \/ \E n \in 1..NSems, val \in SetVals : SemctlSetval(t, i, n, val)
                \/ SemctlRmid(t, i)
          \/ SemSettles(t)
    \/ /\ \E t \in Tracee : \/ FailedCall(t) \/ PpollEnds(t) \/ EnterPpoll(t)
                            \/ ExitInterrupted(t)
       /\ SemUnchanged
=============================================================================
