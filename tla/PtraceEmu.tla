----------------------------- MODULE PtraceEmu ------------------------------
(***************************************************************************)
(* ptrace(2) and wait(2) among the guest's own processes.  A guest process *)
(* cannot really trace another one, PRoot traces both: the requests are    *)
(* emulated from the fields as_ptracer and as_ptracee of struct tracee.    *)
(* A ptracee stopped for its ptracer is simply not restarted, and so is a  *)
(* ptracer waiting for an event.                                           *)
(*                                                                         *)
(* Processes exist from the start and end one after the other; how they    *)
(* are created is in NewChild.  All of them are waited for with __WALL.    *)
(***************************************************************************)
EXTENDS Integers, FiniteSets

CONSTANTS
    Proc,   \* the guest's processes
    Root,   \* the first one, parent of the others
    Guests, \* the guests: each is what one does beyond tracing its children; see Habits
    NULL, ANY

(***************************************************************************)
(* "syscall_stops": ptracers use PTRACE_SYSCALL too, and see exit stops;   *)
(* "kernel_waits": processes also wait for children they do not trace;     *)
(* "restart_unwaited": a ptracer restarts a ptracee whose stop it has not  *)
(* waited for; "orphan_traceme": a process without parent asks for it.     *)
(***************************************************************************)
Habits == {"syscall_stops", "kernel_waits", "restart_unwaited", "orphan_traceme"}

ASSUME ProcAssumption ==
    /\ IsFiniteSet(Proc)
    /\ Root \in Proc
    /\ NULL \notin Proc /\ ANY \notin Proc /\ NULL # ANY
ASSUME GuestAssumption == Guests \subseteq SUBSET Habits

VARIABLES
    guest,         \* the guest of this run; never changes
    parent,        \* tracee->parent
    dead,          \* killed or exited, as the kernel sees it
    gone,          \* freed by PRoot
    stopped,       \* tracees PRoot has not restarted (not tracee->running)
    ptracer,       \* as_ptracee.ptracer
    proot_pending, \* as_ptracee.event4.proot.pending
    event,         \* as_ptracee.event4.ptracer: "none" when not pending
    started,       \* as_ptracee.tracing_started
    ignore,        \* as_ptracee.ignore_syscalls
    nb_ptracees,   \* as_ptracer.nb_ptracees
    zombies,       \* as_ptracer.zombies
    wait_pid,      \* as_ptracer.wait_pid: NULL, ANY or a process
    waits_in,      \* as_ptracer.waits_in
    kwait,         \* the kernel's own wait: not in it, in it, or back from it
    notified,      \* notified[p]: the processes whose death p has been told of
    aborted        \* an assert() has failed, or NULL has been dereferenced

vars == <<guest, parent, dead, gone, stopped, ptracer, proot_pending, event, started, ignore,
          nb_ptracees, zombies, wait_pid, waits_in, kwait, notified, aborted>>

Ptracees(p) == { q \in Proc : ptracer[q] = p }

NoKwait == [at |-> "no", target |-> ANY, result |-> NULL]

Init ==
    /\ guest \in Guests
    /\ parent = [q \in Proc |-> IF q = Root THEN NULL ELSE Root]
    /\ dead = {} /\ gone = {} /\ stopped = {}
    /\ ptracer = [q \in Proc |-> NULL]
    /\ proot_pending = {}
    /\ event = [q \in Proc |-> "none"]
    /\ started = {} /\ ignore = {}
    /\ nb_ptracees = [p \in Proc |-> 0]
    /\ zombies = [p \in Proc |-> {}]
    /\ wait_pid = [p \in Proc |-> NULL]
    /\ waits_in = [p \in Proc |-> "DOESNT_WAIT"]
    /\ kwait = [p \in Proc |-> NoKwait]
    /\ notified = [p \in Proc |-> {}]
    /\ aborted = FALSE

\* A guest process that can make a system call or receive a signal.
Runs(p) == p \notin dead \cup stopped /\ kwait[p].at = "no" /\ ~aborted

(***************************************************************************)
(* Requests                                                                *)
(***************************************************************************)

\* attach_to_ptracer(): as_ptracee is cleared first.
attach_to_ptracer(q, p) ==
    /\ ptracer' = [ptracer EXCEPT ![q] = p]
    /\ proot_pending' = proot_pending \ {q}
    /\ event' = [event EXCEPT ![q] = "none"]
    /\ started' = started \ {q} /\ ignore' = ignore \ {q}
    /\ nb_ptracees' = [nb_ptracees EXCEPT ![p] = @ + 1]

\* PTRACE_TRACEME: the parent becomes the ptracer.  If it is thought to wait
\* in the kernel, a SIGSTOP makes it come back to wait in PRoot.
Traceme(q) ==
    /\ Runs(q) /\ ptracer[q] = NULL
    /\ IF parent[q] = NULL
       THEN /\ "orphan_traceme" \in guest
            /\ aborted' = TRUE
            /\ UNCHANGED <<ptracer, proot_pending, event, started, ignore, nb_ptracees, waits_in>>
       ELSE /\ attach_to_ptracer(q, parent[q])
            /\ waits_in' = [waits_in EXCEPT ![parent[q]] =
                                IF @ = "WAITS_IN_KERNEL" THEN "WAITS_IN_PROOT" ELSE @]
            /\ UNCHANGED aborted
    /\ UNCHANGED <<parent, dead, gone, stopped, zombies, wait_pid, kwait, notified>>

\* PTRACE_ATTACH.  The SIGSTOP it sends comes as any other signal.
Attach(p, q) ==
    /\ Runs(p) /\ q \notin gone /\ p # q /\ ptracer[q] = NULL
    /\ attach_to_ptracer(q, p)
    /\ UNCHANGED <<parent, dead, gone, stopped, zombies, wait_pid, waits_in, kwait,
                   notified, aborted>>

\* get_stopped_ptracee() without regard to pending events.
StoppedPtracee(p, q) ==
    /\ Runs(p) /\ ptracer[q] = p /\ q \in stopped
    /\ event[q] = "none" \/ "restart_unwaited" \in guest

\* PTRACE_CONT and PTRACE_SYSCALL: PRoot handles the event it has put off, then
\* restarts the ptracee; a ptracee that itself waits stays where it is.
Restart(p, q) ==
    /\ StoppedPtracee(p, q)
    /\ \/ ignore' = ignore \cup {q}
       \/ "syscall_stops" \in guest /\ ignore' = ignore \ {q}
    /\ proot_pending' = proot_pending \ {q}
    /\ stopped' = IF wait_pid[q] = NULL THEN stopped \ {q} ELSE stopped
    /\ UNCHANGED <<parent, dead, gone, ptracer, event, started, nb_ptracees, zombies, wait_pid,
                   waits_in, kwait, notified, aborted>>

\* PTRACE_DETACH.
Detach(p, q) ==
    /\ StoppedPtracee(p, q)
    /\ ptracer' = [ptracer EXCEPT ![q] = NULL]
    /\ nb_ptracees' = [nb_ptracees EXCEPT ![p] = @ - 1]
    /\ aborted' = (nb_ptracees[p] = 0)
    /\ proot_pending' = proot_pending \ {q}
    /\ stopped' = IF wait_pid[q] = NULL THEN stopped \ {q} ELSE stopped
    /\ UNCHANGED <<parent, dead, gone, event, started, ignore, zombies, wait_pid, waits_in,
                   kwait, notified>>

(***************************************************************************)
(* wait(2).  The event passed to the ptracer is that of a zombie or of a   *)
(* stopped ptracee; zombies come first.                                    *)
(***************************************************************************)
Matches(target, q) == target \in {ANY, q}

WaitableZombies(p, target) == { z \in zombies[p] : Matches(target, z) }
WaitableStops(p, target) ==
    { q \in Ptracees(p) \cap stopped : event[q] # "none" /\ Matches(target, q) }

\* update_wait_status() for a zombie: it is detached and freed.  When the
\* ptracer is also the parent the original wait is restarted, and the kernel
\* reports the death; otherwise PRoot does.
TakeZombie(p, z) ==
    /\ zombies' = [zombies EXCEPT ![p] = @ \ {z}]
    /\ nb_ptracees' = [nb_ptracees EXCEPT ![p] = @ - 1]
    /\ aborted' = (nb_ptracees[p] = 0)
    /\ notified' = [notified EXCEPT ![p] = @ \cup {z}]
    /\ UNCHANGED <<event, stopped, wait_pid>>

\* update_wait_status() for a stop.
TakeStop(p, q) ==
    /\ event' = [event EXCEPT ![q] = "none"]
    /\ UNCHANGED <<zombies, nb_ptracees, aborted, notified, stopped, wait_pid>>

\* Wrong variant: a ptracer goes to wait though an event is there already.
Block_always(p, target) ==
    /\ nb_ptracees[p] # 0
    /\ wait_pid' = [wait_pid EXCEPT ![p] = target]
    /\ stopped' = stopped \cup {p}
    /\ UNCHANGED <<zombies, nb_ptracees, aborted, notified, event>>

\* The ptracer is left stopped until handle_ptracee_event() wakes it.
Block(p, target) ==
    /\ WaitableZombies(p, target) = {} /\ WaitableStops(p, target) = {}
    /\ nb_ptracees[p] # 0
    /\ wait_pid' = [wait_pid EXCEPT ![p] = target]
    /\ stopped' = stopped \cup {p}
    /\ UNCHANGED <<zombies, nb_ptracees, aborted, notified, event>>

\* Nothing to wait for (-ECHILD), or WNOHANG.
ReturnAtOnce(p, target) ==
    /\ WaitableZombies(p, target) = {} /\ WaitableStops(p, target) = {}
    /\ UNCHANGED <<zombies, nb_ptracees, aborted, notified, event, wait_pid, stopped>>

\* translate_wait_exit().
translate_wait_exit(p, target) ==
    \/ \E z \in WaitableZombies(p, target) : TakeZombie(p, z)
    \/ /\ WaitableZombies(p, target) = {}
       /\ \E q \in WaitableStops(p, target) : TakeStop(p, q)
    \/ Block(p, target)
    \/ ReturnAtOnce(p, target)

\* translate_wait_enter(): is this wait emulated?
WaitsForPtracee(p, target) ==
    /\ nb_ptracees[p] # 0
    /\ target # ANY => ptracer[target] = p

WaitInPRoot(p, target) ==
    /\ Runs(p) /\ WaitsForPtracee(p, target)
    /\ waits_in' = [waits_in EXCEPT ![p] = "DOESNT_WAIT"]
    /\ translate_wait_exit(p, target)
    /\ UNCHANGED <<parent, dead, gone, ptracer, proot_pending, started, ignore, kwait>>

\* A wait PRoot leaves to the kernel, for a child or for a ptracee of before.
WaitInKernel(p, target) ==
    /\ "kernel_waits" \in guest
    /\ target # ANY => parent[target] = p \/ target \in zombies[p]
    /\ Runs(p) /\ ~WaitsForPtracee(p, target)
    /\ waits_in' = [waits_in EXCEPT ![p] = "WAITS_IN_KERNEL"]
    /\ kwait' = [kwait EXCEPT ![p] = [at |-> "in", target |-> target, result |-> NULL]]
    /\ UNCHANGED <<parent, dead, gone, stopped, ptracer, proot_pending, event, started, ignore,
                   nb_ptracees, zombies, wait_pid, notified, aborted>>

\* The kernel's wait comes back with a child that has ended and that PRoot
\* has waited for, with -ECHILD, or interrupted by the SIGSTOP of Traceme.
KernelWaitReturns(p) ==
    LET children == { c \in Proc : parent[c] = p /\ Matches(kwait[p].target, c)
                                   /\ c \notin notified[p] }
    IN  /\ kwait[p].at = "in" /\ p \notin dead /\ ~aborted
        /\ \E r \in (children \cap gone)
                    \cup (IF children = {} \/ waits_in[p] = "WAITS_IN_PROOT" THEN {NULL} ELSE {}) :
              kwait' = [kwait EXCEPT ![p].at = "back", ![p].result = r]
        /\ UNCHANGED <<parent, dead, gone, stopped, ptracer, proot_pending, event, started, ignore,
                       nb_ptracees, zombies, wait_pid, waits_in, notified, aborted>>

\* The exit stage of that wait: emulated if waits_in says so by now.
KernelWaitExit(p) ==
    /\ kwait[p].at = "back" /\ p \notin dead /\ ~aborted
    /\ kwait' = [kwait EXCEPT ![p] = NoKwait]
    /\ IF waits_in[p] = "WAITS_IN_PROOT"
       THEN /\ waits_in' = [waits_in EXCEPT ![p] = "DOESNT_WAIT"]
            /\ translate_wait_exit(p, kwait[p].target)
       ELSE /\ notified' = [notified EXCEPT ![p] = @ \cup ({kwait[p].result} \ {NULL})]
            /\ UNCHANGED <<waits_in, zombies, nb_ptracees, aborted, event, wait_pid, stopped>>
    /\ UNCHANGED <<parent, dead, gone, ptracer, proot_pending, started, ignore>>

(***************************************************************************)
(* Events: handle_ptracee_event(), handle_tracee_event() and remove_tracee *)
(***************************************************************************)
Waiting(p, q) == wait_pid[p] # NULL /\ Matches(wait_pid[p], q)

\* The stop is handed to a ptracer that waits for it, which is restarted; it
\* is left pending otherwise.  If the ptracer turns out to be dead the ptracee
\* is not kept.
NotifyPtracer(p, q, k) ==
    IF Waiting(p, q)
    THEN /\ wait_pid' = [wait_pid EXCEPT ![p] = NULL]
         /\ event' = [event EXCEPT ![q] = "none"]
         /\ stopped' = IF p \in dead THEN stopped ELSE (stopped \ {p}) \cup {q}
    ELSE /\ event' = [event EXCEPT ![q] = k]
         /\ stopped' = stopped \cup {q}
         /\ UNCHANGED wait_pid

\* A signal for a ptracee: PRoot puts off handling it until the restart.
SignalStop(q) ==
    /\ Runs(q) /\ ptracer[q] # NULL
    /\ started' = started \cup {q}
    /\ proot_pending' = IF Waiting(ptracer[q], q) /\ ptracer[q] \in dead
                        THEN proot_pending ELSE proot_pending \cup {q}
    /\ NotifyPtracer(ptracer[q], q, "signal")
    /\ UNCHANGED <<parent, dead, gone, ptracer, ignore, nb_ptracees, zombies, waits_in, kwait,
                   notified, aborted>>

\* A syscall-exit stop the ptracer asked for: PRoot handles it first.
SysexitStop(q) ==
    /\ "syscall_stops" \in guest
    /\ Runs(q) /\ ptracer[q] # NULL /\ q \in started \ ignore
    /\ NotifyPtracer(ptracer[q], q, "sysexit")
    /\ UNCHANGED <<parent, dead, gone, ptracer, proot_pending, started, ignore, nb_ptracees,
                   zombies, waits_in, kwait, notified, aborted>>

\* A process exits or is killed, wherever it is.
Dies(q) ==
    /\ q \notin dead /\ ~aborted
    /\ dead' = dead \cup {q}
    /\ UNCHANGED <<parent, gone, stopped, ptracer, proot_pending, event, started, ignore,
                   nb_ptracees, zombies, wait_pid, waits_in, kwait, notified, aborted>>

\* The ptracees remove_tracee() restarts when their ptracer q has gone.
Released(q) ==
    { x \in Ptracees(q) : (x \in proot_pending \/ event[x] # "none") /\ wait_pid[x] = NULL }

\* Wrong variant: a zombie is not put on its ptracer's list.
Zombified_none(q, p, told) == [zombies EXCEPT ![q] = {}]

\* The zombies once q has been removed: q becomes one of its ptracer's unless
\* the ptracer has been told.
Zombified(q, p, told) ==
    [x \in Proc |-> IF x = q THEN {} ELSE IF x = p /\ ~told THEN zombies[x] \cup {q} ELSE zombies[x]]

\* PRoot is told of the end of q: its ptracer is woken if it waits for that,
\* then the tracee is removed.  Its children are orphans, its ptracees free.
ExitEvent(q) ==
    LET p == ptracer[q]
        told == p # NULL /\ Waiting(p, q)
        free == Ptracees(q)
    IN  /\ q \in dead \ gone /\ ~aborted
        /\ gone' = gone \cup {q}
        /\ parent' = [c \in Proc |-> IF parent[c] = q /\ c \notin gone THEN NULL ELSE parent[c]]
        /\ ptracer' = [x \in Proc |-> IF x \in free \cup {q} THEN NULL ELSE ptracer[x]]
        /\ nb_ptracees' = [x \in Proc |-> IF told /\ x = p THEN nb_ptracees[x] - 1 ELSE nb_ptracees[x]]
        /\ zombies' = Zombified(q, p, told)
        /\ notified' = [x \in Proc |-> IF told /\ x = p THEN notified[x] \cup {q} ELSE notified[x]]
        /\ wait_pid' = [x \in Proc |-> IF x = q \/ (told /\ x = p) THEN NULL ELSE wait_pid[x]]
        /\ stopped' = (stopped \ (Released(q) \cup {q})) \ (IF told /\ p \notin dead THEN {p} ELSE {})
        /\ aborted' = (Released(q) \ stopped # {} \/ (told /\ nb_ptracees[p] = 0))
        /\ event' = [x \in Proc |-> IF x \in free \cup {q} THEN "none" ELSE event[x]]
        /\ proot_pending' = proot_pending \ (free \cup {q})
        /\ started' = started \ (free \cup {q})
        /\ ignore' = ignore \ (free \cup {q})
        /\ kwait' = [kwait EXCEPT ![q] = NoKwait]
        /\ UNCHANGED <<dead, waits_in>>

Step ==
    \/ \E q \in Proc : Traceme(q)
    \/ \E p, q \in Proc : Attach(p, q)
    \/ \E p, q \in Proc : Restart(p, q)
    \/ \E p, q \in Proc : Detach(p, q)
    \/ \E p \in Proc, target \in Proc \cup {ANY} : WaitInPRoot(p, target)
    \/ \E p \in Proc, target \in Proc \cup {ANY} : WaitInKernel(p, target)
    \/ \E p \in Proc : KernelWaitReturns(p)
    \/ \E p \in Proc : KernelWaitExit(p)
    \/ \E q \in Proc : SignalStop(q)
    \/ \E q \in Proc : SysexitStop(q)
    \/ \E q \in Proc : Dies(q)
    \/ \E q \in Proc : ExitEvent(q)

Next == Step /\ UNCHANGED guest

Spec == Init /\ [][Next]_vars

-----------------------------------------------------------------------------
(***************************************************************************)
(* Properties                                                              *)
(***************************************************************************)

\* Every variable has its type.
TypeOK ==
    /\ guest \in Guests
    /\ parent \in [Proc -> Proc \cup {NULL}]
    /\ dead \subseteq Proc /\ gone \subseteq dead /\ stopped \subseteq Proc
    /\ ptracer \in [Proc -> Proc \cup {NULL}]
    /\ proot_pending \subseteq Proc
    /\ event \in [Proc -> {"none", "signal", "sysexit"}]
    /\ started \subseteq Proc /\ ignore \subseteq Proc
    /\ nb_ptracees \in [Proc -> Nat]
    /\ zombies \in [Proc -> SUBSET Proc]
    /\ wait_pid \in [Proc -> Proc \cup {NULL, ANY}]
    /\ waits_in \in [Proc -> {"DOESNT_WAIT", "WAITS_IN_KERNEL", "WAITS_IN_PROOT"}]
    /\ kwait \in [Proc -> [at : {"no", "in", "back"}, target : Proc \cup {ANY},
                           result : Proc \cup {NULL}]]
    /\ notified \in [Proc -> SUBSET Proc]
    /\ aborted \in BOOLEAN

\* nb_ptracees, on which wait(2) decides whether there is anything to wait
\* for, is the number of ptracees alive and of zombies not yet reported.
PtraceesCounted ==
    \A p \in Proc \ gone :
        nb_ptracees[p] = Cardinality(Ptracees(p)) + Cardinality(zombies[p])

\* The assertions of detach_from_ptracer() and restart_tracee() hold, and
\* PTRACE_TRACEME finds a ptracer.
NoAbort == ~aborted

\* No wakeup is lost: a ptracer that has been put to wait has no event to
\* collect, and still has a ptracee that can give it one.  (When waits are left
\* to the kernel as well, PTRACE_TRACEME may turn one of those, for a child that
\* is no ptracee, into one in PRoot: ptrace.c:163-170.  A ptracee that was
\* restarted with an event pending is found stopped again when it waits itself.)
NoLostWakeup ==
    guest \cap {"kernel_waits", "restart_unwaited"} = {} => \A p \in Proc \ gone : wait_pid[p] # NULL =>
        /\ WaitableZombies(p, wait_pid[p]) = {} /\ WaitableStops(p, wait_pid[p]) = {}
        /\ \E q \in Ptracees(p) : Matches(wait_pid[p], q)

\* Whoever is stopped can be started again: it waits for a ptracee, or it has
\* a ptracer.  When a ptracer ends, its ptracees are free (tracee.c:189-203).
\* (A syscall-exit stop that has been waited for leaves no trace of itself: if
\* the ptracer ends then, the ptracee stays stopped.)
StoppedHasOwner ==
    "syscall_stops" \notin guest => \A q \in stopped \ dead : wait_pid[q] # NULL \/ ptracer[q] # NULL

\* A process can be a ptracee of the living only, and a death is kept for the
\* ptracer until it is told: no zombie is forgotten or reported twice.
DeathReported ==
    [][\A p, q \in Proc :
          (ptracer[q] = p /\ ptracer'[q] = NULL /\ q \in gone') =>
              (p \in gone' \/ q \in zombies'[p] \/ q \in notified'[p] \ notified[p])]_vars

=============================================================================
