---------------------------- MODULE SyscallStops ----------------------------
(***************************************************************************)
(* How PRoot follows the system calls of one tracee: the ptrace stops the  *)
(* kernel reports (syscall entry, PTRACE_EVENT_SECCOMP, fork and exec      *)
(* events, syscall exit, signals, SIGSYS of an outer policy), the decision *)
(* handle_tracee_event() takes at each of them, and translate_syscall().   *)
(*                                                                         *)
(* A system call is its kind: what the seccomp filter says of it and what  *)
(* its handlers ask for.  Registers, memory and paths are left out; the    *)
(* bits of state that decide whether a stop is an entry or an exit, and    *)
(* whether the next one is asked for, are all kept.                        *)
(***************************************************************************)
EXTENDS Naturals, Sequences, FiniteSets

CONSTANTS
    NewKinds,  \* the kinds of system call the guest makes on kernels of the new order
    OldKinds,  \* ... and on kernels of the old order
    KernelSet, \* the kernels it may run on, a subset of Kernels
    Signals,   \* the signals that can be sent to the guest, once each
    NULL

(***************************************************************************)
(* Kinds of system call.  The first four sets are what the lists of        *)
(* syscall/seccomp.c and the handlers of syscall/enter.c and exit.c say.   *)
(***************************************************************************)
AllKinds == {"plain", "enter", "exit", "dyn", "ficlone", "void", "voidexit", "dynerror",
             "fork", "exec", "chain", "traceme", "auxv", "trap"}

\* proot_sysnums[] makes the filter report these...
Filtered == AllKinds \ {"plain", "trap"}
\* ... and these with FILTER_SYSEXIT.
FilterSysexit == {"exit", "voidexit", "exec", "chain", "traceme"}

\* Handlers that set both sysexit_pending and restart_how at the entry.
RequestsExit == {"dyn", "dynerror", "fork", "auxv"}
\* Handlers that replace the system call by PR_void at the entry.
Voids == {"void", "voidexit", "dynerror", "traceme"}

\* The system calls whose exit PRoot has work to do at.
NeedsExit == FilterSysexit \cup RequestsExit \cup {"ficlone"}

\* What the exit handler of "chain" registers, in order.
Chained == <<"plain", "enter">>

VARIABLES
    kernel,  \* what kind of kernel this is; never changes
    kpc,     \* where the guest is in the kernel
    cur,     \* the system call it is in or last was in
    next,    \* the call PRoot makes it do next, or NULL
    stop,    \* the stop reported to PRoot, or "none"
    how,     \* the ptrace request that restarted the guest last
    nr,      \* "real", "void" (replaced by PRoot) or "trapped", "trapped void"
    tracee,  \* the fields of struct tracee that decide
    seccomp_detected, seccomp_after_ptrace_enter, eventmsg_state,
    sigs,    \* signals: [pending, delivered, sent, in_stop]
    seen,    \* translations of the current call: [enter, exit]
    aborted  \* an assert() has failed

vars == <<kernel, kpc, cur, next, stop, how, nr, tracee, seccomp_detected,
          seccomp_after_ptrace_enter, eventmsg_state, sigs, seen, aborted>>

globals == <<seccomp_detected, seccomp_after_ptrace_enter, eventmsg_state>>

Kernels ==
    { k \in [ order : {"old", "new"},       \* seccomp before or after the entry stop
              filter : BOOLEAN,             \* SECCOMP_RET_TRACE events are reported
              loses_msg : BOOLEAN,          \* PTRACE_GETEVENTMSG reads 0
              traps_void : BOOLEAN,         \* the outer policy traps PR_void
              trap_skips_exit : BOOLEAN,    \* a trapped call has no exit stop
              avoider_negative : BOOLEAN ]  \* SYSCALL_AVOIDER < 0 on this architecture
      : k.trap_skips_exit => k.order = "new" /\ ~k.filter }

ASSUME KindsAssumption == NewKinds \subseteq AllKinds /\ OldKinds \subseteq AllKinds
ASSUME KernelAssumption == KernelSet \subseteq Kernels
\* NULL stands for "none" and is nothing else.
ASSUME NullAssumption ==
    /\ NULL \notin AllKinds \cup {"CONT", "SYSCALL"} \cup Signals
    /\ NULL \notin {Chained, <<"enter">>, << >>}

Kinds == IF kernel.order = "new" THEN NewKinds ELSE OldKinds

\* What handle_seccomp_event_common() can restart a trapped call as: a newer
\* call, which the policy is taken to allow.
Rewritten == {"enter", "exit", "fork"} \cap Kinds

(***************************************************************************)
(* struct tracee                                                           *)
(***************************************************************************)
TraceeType ==
    [ status : {0, 1}, seccomp : {"DISABLED", "DISABLING", "ENABLED"},
      sysexit_pending : BOOLEAN, already_handled : BOOLEAN, cancelled : BOOLEAN,
      restart_how : {NULL}, last_restart_how : {"CONT", "SYSCALL"},
      chain : {NULL} \cup {SubSeq(Chained, i, 2) : i \in 1..3},
      rewritten : BOOLEAN, suppressed : Signals \cup {NULL}, skip_signal : BOOLEAN ]

IsInSysenter(t) == t.status = 0

sysexit_necessary(t) == t.sysexit_pending \/ t.chain # NULL \/ t.rewritten

\* The default of handle_tracee_event(): restart_how is 0 at every stop here.
default_restart(t) ==
    [t EXCEPT !.restart_how = IF t.seccomp = "ENABLED" /\ ~sysexit_necessary(t)
                              THEN "CONT" ELSE "SYSCALL"]

filtered_sysnum_flags(s) == s \in FilterSysexit

(***************************************************************************)
(* translate_syscall(), as a function of the tracee and of the call it is  *)
(* in.  A negative status is kept as 1: only "not 0" is ever tested.       *)
(***************************************************************************)
\* Wrong variant: the exit is expected even when it has not been asked for.
translate_enter_expects_exit(t, s) ==
    [t EXCEPT !.sysexit_pending = @ \/ s \in RequestsExit,
              !.restart_how = IF s \in RequestsExit THEN "SYSCALL" ELSE @,
              !.status = 1, !.cancelled = s \in Voids /\ kernel.avoider_negative]

translate_enter(t, s) ==
    LET requested == [t EXCEPT !.sysexit_pending = @ \/ s \in RequestsExit \cup {"ficlone"},
                               !.restart_how = IF s \in RequestsExit THEN "SYSCALL" ELSE @]
    IN  [requested EXCEPT !.status = IF requested.restart_how = "CONT" THEN 0 ELSE 1,
                          !.cancelled = s \in Voids /\ kernel.avoider_negative]

translate_chained_enter(t) ==
    [t EXCEPT !.restart_how = "SYSCALL", !.status = 1, !.cancelled = FALSE]

\* What translate_syscall_exit() may leave behind.
exit_handler(t, s) ==
    CASE s = "chain" -> [t EXCEPT !.chain = Chained]
      [] s = "traceme" -> [t EXCEPT !.seccomp = IF @ = "ENABLED" THEN "DISABLING" ELSE @]
      [] s = "auxv" -> [t EXCEPT !.sysexit_pending = TRUE, !.restart_how = "SYSCALL"]
      [] OTHER -> t

\* The chain's last member leaves an empty list, freed at its own exit.
chain_next_syscall(t) ==
    IF t.chain = <<>> THEN [t EXCEPT !.chain = NULL, !.rewritten = FALSE]
    ELSE [t EXCEPT !.chain = Tail(@), !.restart_how = "SYSCALL"]

translate_exit(t, s) ==
    LET done == [(IF t.chain = NULL THEN exit_handler(t, s) ELSE t) EXCEPT !.status = 0]
    IN  IF done.chain # NULL THEN chain_next_syscall(done)
        ELSE [done EXCEPT !.rewritten = FALSE]

translate_syscall(t, s) ==
    IF ~IsInSysenter(t) THEN translate_exit(t, s)
    ELSE IF t.chain # NULL THEN translate_chained_enter(t)
    ELSE translate_enter(t, s)

\* The call the tracee is made to do next by chain_next_syscall().
next_chained(t, s) ==
    LET chain == IF t.chain = NULL /\ s = "chain" THEN Chained ELSE t.chain
    IN  IF ~IsInSysenter(t) /\ chain \notin {NULL, <<>>} THEN Head(chain) ELSE NULL

(***************************************************************************)
(* The kernel and the guest.  A call passes the points "sysenter" and      *)
(* "filter" in the kernel's order, then "exec" and "exit"; at each of them *)
(* the kernel may report a stop and then waits for PRoot.                  *)
(***************************************************************************)
running == stop = "none" /\ ~aborted

GuestSyscall(s) ==
    /\ running /\ kpc = "user" /\ sigs.pending = {}
    /\ next \in {NULL, s}
    /\ cur' = s /\ next' = NULL /\ nr' = "real"
    /\ seen' = [enter |-> 0, exit |-> 0]
    /\ kpc' = IF kernel.order = "new" THEN "sysenter" ELSE "filter"
    /\ UNCHANGED <<kernel, stop, how, tracee, globals, sigs, aborted>>

\* A call cancelled by its seccomp event never reaches the entry stop.
KernelSysenter ==
    /\ running /\ kpc = "sysenter"
    /\ kpc' = IF kernel.order = "new" THEN "filter" ELSE "exec"
    /\ stop' = IF how = "SYSCALL" /\ ~(nr = "void" /\ kernel.avoider_negative)
               THEN "SYSENTER" ELSE "none"
    /\ UNCHANGED <<kernel, cur, next, how, nr, tracee, globals, sigs, seen, aborted>>

Trapped ==
    \/ nr = "real" /\ cur = "trap"
    \/ nr = "void" /\ kernel.traps_void

TrapTo(trapped) ==
    /\ nr' = trapped
    /\ kpc' = IF kernel.trap_skips_exit THEN "sigsys" ELSE "exit"

KernelFilter ==
    /\ running /\ kpc = "filter"
    /\ IF Trapped THEN TrapTo(IF nr = "void" THEN "trapped void" ELSE "trapped") /\ stop' = "none"
       ELSE /\ nr' = nr
            /\ kpc' = IF kernel.order = "new" THEN "recheck" ELSE "sysenter"
            /\ stop' = IF nr = "real" /\ kernel.filter /\ cur \in Filtered
                       THEN "SECCOMP" ELSE "none"
    /\ UNCHANGED <<kernel, cur, next, how, tracee, globals, sigs, seen, aborted>>

\* Kernels of the new order run the filters again on the number PRoot has set.
KernelRecheck ==
    /\ running /\ kpc = "recheck"
    /\ IF nr = "void" /\ kernel.traps_void /\ ~kernel.avoider_negative
       THEN TrapTo("trapped void") ELSE nr' = nr /\ kpc' = "exec"
    /\ UNCHANGED <<kernel, cur, next, stop, how, tracee, globals, sigs, seen, aborted>>

\* The call runs; fork and execve report their event, unless they fail.
KernelExec ==
    /\ running /\ kpc = "exec"
    /\ kpc' = "exit"
    /\ stop' \in IF nr = "void" THEN {"none"}
                 ELSE CASE cur = "fork" -> {"FORK", "none"}
                        [] cur = "exec" -> {"EXEC", "none"}
                        [] OTHER -> {"none"}
    /\ UNCHANGED <<kernel, cur, next, how, nr, tracee, globals, sigs, seen, aborted>>

KernelExit ==
    /\ running /\ kpc = "exit"
    /\ kpc' = IF nr \in {"trapped", "trapped void"} THEN "sigsys" ELSE "user"
    /\ stop' = IF how = "SYSCALL" THEN "SYSEXIT" ELSE "none"
    /\ UNCHANGED <<kernel, cur, next, how, nr, tracee, globals, sigs, seen, aborted>>

KernelSigsys ==
    /\ running /\ kpc = "sigsys"
    /\ kpc' = "user" /\ stop' = "SIGSYS"
    /\ UNCHANGED <<kernel, cur, next, how, nr, tracee, globals, sigs, seen, aborted>>

\* A signal is reported on the way back to the guest's code.
KernelSignal(sig) ==
    /\ running /\ kpc = "user"
    /\ sig \in sigs.pending \cup (Signals \ sigs.sent)
    /\ stop' = "SIGNAL"
    /\ sigs' = [sigs EXCEPT !.pending = @ \ {sig}, !.sent = @ \cup {sig}, !.in_stop = sig]
    /\ UNCHANGED <<kernel, kpc, cur, next, how, nr, tracee, globals, seen, aborted>>

(***************************************************************************)
(* PRoot.  handle_tracee_event() for each stop, then restart_tracee().     *)
(***************************************************************************)

\* restart_tracee(): the guest goes on with t.restart_how and with the signal sig.
restart_tracee(t, sig) ==
    /\ how' = t.restart_how
    /\ tracee' = [t EXCEPT !.last_restart_how = t.restart_how, !.restart_how = NULL]
    /\ stop' = "none"
    /\ sigs' = [sigs EXCEPT !.in_stop = NULL,
                            !.pending = @ \cup (IF stop = "SIGNAL" THEN {} ELSE sig),
                            !.delivered = @ \cup (IF stop = "SIGNAL" THEN sig ELSE {})]

\* The bookkeeping around translate_syscall(): what the call becomes, what is next.
Translated(t) ==
    /\ nr' = IF IsInSysenter(t) /\ t.chain = NULL /\ cur \in Voids /\ nr = "real"
             THEN "void" ELSE nr
    /\ next' = next_chained(t, cur)
    /\ seen' = IF IsInSysenter(t) THEN [seen EXCEPT !.enter = @ + 1]
               ELSE [seen EXCEPT !.exit = @ + 1]

NotTranslated == UNCHANGED <<nr, next, seen>>

\* Which of its two uses a SIGTRAP|0x80 stop has is not said by the kernel.
seccomp_mode(t) ==
    IF t.seccomp # "ENABLED" THEN t
    ELSE IF IsInSysenter(t) THEN [t EXCEPT !.restart_how = "SYSCALL", !.sysexit_pending = TRUE]
    ELSE [t EXCEPT !.restart_how = "CONT", !.sysexit_pending = FALSE]

\* "This syscall has disabled seccomp."
seccomp_disabled(t) ==
    IF t.seccomp = "DISABLING" THEN [t EXCEPT !.restart_how = "SYSCALL", !.seccomp = "DISABLED"]
    ELSE t

\* Wrong variant: the signal is kept as long as an exit is pending, too.
can_redeliver_late(t) == t.suppressed # NULL /\ ~sysexit_necessary(t) /\ t.status # 0

can_redeliver(t) == t.suppressed # NULL /\ t.chain = NULL /\ ~t.rewritten

SyscallStopTranslate(t) ==
    LET x == [translate_syscall(t, cur) EXCEPT
                 !.skip_signal = IsInSysenter(t) /\ t.chain = NULL /\ cur \in Voids]
        y == IF can_redeliver(x) THEN [x EXCEPT !.suppressed = NULL] ELSE x
    IN  /\ Translated(t)
        /\ restart_tracee(seccomp_disabled(y), IF can_redeliver(x) THEN {x.suppressed} ELSE {})
        /\ UNCHANGED aborted

\* Wrong variant: the exit of a call handled at its seccomp event is not asked for.
SyscallStopAlreadyHandled_cont(t) ==
    /\ restart_tracee([t EXCEPT !.already_handled = FALSE], {})
    /\ NotTranslated /\ UNCHANGED aborted

SyscallStopAlreadyHandled(t) ==
    IF IsInSysenter(t) \/ seccomp_after_ptrace_enter
    THEN aborted' = TRUE /\ NotTranslated /\ UNCHANGED <<stop, how, tracee, sigs>>
    ELSE /\ restart_tracee([t EXCEPT !.already_handled = FALSE, !.restart_how = "SYSCALL"], {})
         /\ NotTranslated /\ UNCHANGED aborted

\* SIGTRAP | 0x80, at the entry or at the exit of a system call.
SyscallStop ==
    /\ stop \in {"SYSENTER", "SYSEXIT"} /\ ~aborted
    /\ LET t == default_restart(tracee)
           m == seccomp_mode(t)
       IN  IF t.seccomp = "DISABLING"
           THEN /\ restart_tracee([t EXCEPT !.seccomp = "DISABLED", !.status = 1], {})
                /\ NotTranslated /\ UNCHANGED aborted
           ELSE IF m.already_handled THEN SyscallStopAlreadyHandled(m)
           ELSE SyscallStopTranslate(m)
    /\ UNCHANGED <<kernel, kpc, cur, globals>>

\* The flags of the filter, and whether PTRACE_GETEVENTMSG can be relied on.
eventmsg_next ==
    IF eventmsg_state = "UNKNOWN" /\ filtered_sysnum_flags(cur)
    THEN IF kernel.loses_msg THEN "LOST" ELSE "RELIABLE"
    ELSE eventmsg_state

event_flags ==
    \/ filtered_sysnum_flags(cur) /\ ~kernel.loses_msg
    \/ filtered_sysnum_flags(cur) /\ eventmsg_next # "RELIABLE"

\* Wrong variant: calls listed with FILTER_SYSEXIT are left to an entry stop
\* that was not asked for.
SeccompEnabled_leaves(t, after) ==
    IF event_flags \/ sysexit_necessary(t)
    THEN NotTranslated /\ restart_tracee([t EXCEPT !.restart_how = "CONT"], {})
    ELSE LET m == [t EXCEPT !.restart_how = "CONT"]
         IN  Translated(m) /\ restart_tracee(translate_syscall(m, cur), {})

\* The part of the PTRACE_EVENT_SECCOMP case that follows the two assertions.
SeccompEnabled(t, after) ==
    IF event_flags \/ sysexit_necessary(t)
    THEN LET m == [t EXCEPT !.restart_how = "SYSCALL"]
         IN  IF after
             THEN /\ Translated(m)
                  /\ restart_tracee([translate_syscall(m, cur) EXCEPT !.restart_how = "SYSCALL"], {})
             ELSE NotTranslated /\ restart_tracee(m, {})
    ELSE LET m == [t EXCEPT !.restart_how = "CONT"]
             x == translate_syscall(m, cur)
             y == IF x.sysexit_pending \/ x.seccomp = "DISABLING"
                  THEN [x EXCEPT !.restart_how = "SYSCALL"] ELSE x
             z == IF ~after /\ y.restart_how = "SYSCALL" /\ ~y.cancelled
                  THEN [y EXCEPT !.already_handled = TRUE] ELSE y
         IN  Translated(m) /\ restart_tracee(z, {})

\* SIGTRAP | PTRACE_EVENT_SECCOMP << 8.
SeccompStop ==
    /\ stop = "SECCOMP" /\ ~aborted
    /\ LET d == default_restart(tracee)
           c == IF d.cancelled THEN [d EXCEPT !.already_handled = FALSE] ELSE d
           t == [c EXCEPT !.seccomp = IF seccomp_detected THEN @ ELSE "ENABLED",
                          !.skip_signal = FALSE]
           after == IF seccomp_detected THEN seccomp_after_ptrace_enter ELSE ~IsInSysenter(c)
       IN  /\ seccomp_detected' = TRUE
           /\ seccomp_after_ptrace_enter' = after
           /\ IF ~IsInSysenter(t)
              THEN \* skipped for an already handled entry, unless an assert() fails
                   /\ NotTranslated /\ UNCHANGED eventmsg_state
                   /\ IF after /\ t.last_restart_how # "CONT"
                      THEN restart_tracee([t EXCEPT !.restart_how = t.last_restart_how], {})
                           /\ UNCHANGED aborted
                      ELSE aborted' = TRUE /\ UNCHANGED <<stop, how, tracee, sigs>>
              ELSE /\ UNCHANGED aborted
                   /\ IF t.seccomp # "ENABLED"
                      THEN NotTranslated /\ restart_tracee(t, {}) /\ UNCHANGED eventmsg_state
                      ELSE SeccompEnabled(t, after) /\ eventmsg_state' = eventmsg_next
    /\ UNCHANGED <<kernel, kpc, cur>>

\* PTRACE_EVENT_FORK, _VFORK and _CLONE: the default restart; see NewChild.
ForkStop ==
    /\ stop = "FORK" /\ ~aborted
    /\ restart_tracee(default_restart(tracee), {}) /\ NotTranslated
    /\ UNCHANGED <<kernel, kpc, cur, globals, aborted>>

\* PTRACE_EVENT_EXEC, _EXIT and _VFORK_DONE.
ExecStop ==
    /\ stop = "EXEC" /\ ~aborted
    /\ restart_tracee([tracee EXCEPT !.restart_how = tracee.last_restart_how], {}) /\ NotTranslated
    /\ UNCHANGED <<kernel, kpc, cur, globals, aborted>>

\* handle_seccomp_event(): set the result, or restart another call instead.
handle_seccomp_event(t) ==
    \/ next' = NULL /\ restart_tracee([t EXCEPT !.status = 0], {})
    \/ \E s \in Rewritten :
          /\ next' = s
          /\ restart_tracee([t EXCEPT !.status = 0, !.rewritten = TRUE, !.restart_how = "SYSCALL"], {})

\* SIGSYS with SYS_SECCOMP: the outer policy has rejected a call.
SigsysStop ==
    /\ stop = "SIGSYS" /\ ~aborted
    /\ LET d == [default_restart(tracee) EXCEPT !.already_handled = FALSE]
           t == IF IsInSysenter(d) THEN d ELSE translate_syscall(d, cur)
       IN  /\ IF IsInSysenter(d) THEN UNCHANGED seen ELSE seen' = [seen EXCEPT !.exit = @ + 1]
           /\ IF d.skip_signal \/ nr = "trapped void"
              THEN /\ next' = (IF IsInSysenter(d) THEN next ELSE next_chained(d, cur))
                   /\ restart_tracee([t EXCEPT !.skip_signal = FALSE], {})
              ELSE handle_seccomp_event(t)
    /\ UNCHANGED <<kernel, kpc, cur, nr, globals, aborted>>

\* Wrong variant: a signal is dropped during a chain.
SignalStop_drops ==
    /\ stop = "SIGNAL" /\ ~aborted
    /\ LET t == default_restart(tracee)
       IN  restart_tracee(t, IF t.chain # NULL \/ t.rewritten THEN {} ELSE {sigs.in_stop})
    /\ NotTranslated
    /\ UNCHANGED <<kernel, kpc, cur, globals, aborted>>

\* Any other signal: as is, unless a chain or a rewritten call is under way.
SignalStop ==
    /\ stop = "SIGNAL" /\ ~aborted
    /\ LET t == default_restart(tracee)
       IN  IF t.chain # NULL \/ t.rewritten
           THEN restart_tracee([t EXCEPT !.suppressed = sigs.in_stop], {})
           ELSE restart_tracee(t, {sigs.in_stop})
    /\ NotTranslated
    /\ UNCHANGED <<kernel, kpc, cur, globals, aborted>>

(***************************************************************************)
(* The first tracee of launch_process() is entering its execve().          *)
(***************************************************************************)
Init ==
    /\ kernel \in KernelSet
    /\ kpc = (IF kernel.order = "new" THEN "sysenter" ELSE "filter")
    /\ cur = "exec" /\ next = NULL /\ nr = "real"
    /\ stop = "none" /\ how = "SYSCALL"
    /\ tracee = [ status |-> 0, seccomp |-> "DISABLED", sysexit_pending |-> FALSE,
                  already_handled |-> FALSE, cancelled |-> FALSE, restart_how |-> NULL,
                  last_restart_how |-> "SYSCALL", chain |-> NULL, rewritten |-> FALSE,
                  suppressed |-> NULL, skip_signal |-> FALSE ]
    /\ seccomp_detected = FALSE /\ seccomp_after_ptrace_enter = FALSE
    /\ eventmsg_state = "UNKNOWN"
    /\ sigs = [pending |-> {}, delivered |-> {}, sent |-> {}, in_stop |-> NULL]
    /\ seen = [enter |-> 0, exit |-> 0]
    /\ aborted = FALSE

Kernel ==
    \/ KernelSysenter
    \/ KernelFilter
    \/ KernelRecheck
    \/ KernelExec
    \/ KernelExit
    \/ KernelSigsys

PRoot ==
    \/ SyscallStop
    \/ SeccompStop
    \/ ForkStop
    \/ ExecStop
    \/ SigsysStop
    \/ SignalStop

Next ==
    \/ \E s \in Kinds \cup {"plain", "enter"} : GuestSyscall(s)
    \/ \E sig \in Signals : KernelSignal(sig)
    \/ Kernel
    \/ PRoot

Spec == Init /\ [][Next]_vars

(***************************************************************************)
(* PRoot answers every stop, the kernel goes through a call once it has    *)
(* begun, and a call PRoot has put in front of the guest is made: the      *)
(* instruction pointer is on it.  Nothing is assumed of the guest's own    *)
(* calls or of when signals come.                                          *)
(***************************************************************************)
FairSpec ==
    /\ Spec
    /\ WF_vars(PRoot)
    /\ WF_vars(Kernel)
    /\ WF_vars(next # NULL /\ \E s \in Kinds \cup {"plain", "enter"} : GuestSyscall(s))
    /\ \A sig \in Signals : WF_vars(sig \in sigs.pending /\ KernelSignal(sig))

-----------------------------------------------------------------------------
(***************************************************************************)
(* Properties                                                              *)
(***************************************************************************)

\* Every variable has its type, and no call is translated twice at its entry
\* or twice at its exit.
TypeOK ==
    /\ kernel \in Kernels
    /\ kpc \in {"user", "sysenter", "filter", "recheck", "exec", "exit", "sigsys"}
    /\ cur \in AllKinds /\ next \in AllKinds \cup {NULL}
    /\ stop \in {"none", "SYSENTER", "SECCOMP", "FORK", "EXEC", "SYSEXIT", "SIGSYS", "SIGNAL"}
    /\ how \in {"CONT", "SYSCALL"}
    /\ nr \in {"real", "void", "trapped", "trapped void"}
    /\ tracee \in TraceeType
    /\ seccomp_detected \in BOOLEAN /\ seccomp_after_ptrace_enter \in BOOLEAN
    /\ eventmsg_state \in {"UNKNOWN", "RELIABLE", "LOST"}
    /\ sigs \in [pending : SUBSET Signals, delivered : SUBSET Signals, sent : SUBSET Signals,
                 in_stop : Signals \cup {NULL}]
    /\ seen \in [enter : 0..1, exit : 0..1]
    /\ aborted \in BOOLEAN

\* None of the four assertions of handle_tracee_event() (event.c:811, 812, 867
\* and 871) fails, whatever the order in which the kernel reports its stops.
AssertionsHold == ~aborted

\* PRoot takes an entry stop for an entry and an exit stop for an exit, though
\* the kernel reports both alike: tracee.status never gets out of phase.  (The
\* exit stop of a call the outer policy has cancelled before its entry stop is
\* the exception: it is taken for an entry, and put right at the SIGSYS.)
InPhase ==
    /\ stop = "SYSENTER" => IsInSysenter(tracee) \/ tracee.already_handled
    /\ stop = "SYSEXIT" /\ nr \in {"real", "void"} =>
           ~IsInSysenter(tracee) /\ ~tracee.already_handled

\* When the kernel executes a system call PRoot has to translate, its entry
\* has been translated, once.
TranslatedBeforeExec ==
    kpc = "exec" /\ stop = "none" /\ ~aborted /\ cur \in Filtered => seen.enter = 1

\* When the guest is back from a system call whose exit PRoot has work to do
\* at, that exit has been translated, once: no request for it is lost on the
\* way through the events that come in between.
ExitTranslated ==
    kpc = "user" /\ stop = "none" /\ ~aborted /\ cur \in NeedsExit => seen.exit = 1

\* No signal handler of the guest runs between a system call and the ones
\* PRoot chained to it, or before the call it restarts in place of another.
ChainNotInterrupted ==
    [][sigs'.delivered # sigs.delivered => next = NULL]_vars

\* A signal sent to the guest is delivered, or still to be.
NoSignalLost ==
    sigs.sent = sigs.pending \cup sigs.delivered
                \cup ({sigs.in_stop, tracee.suppressed} \ {NULL})

\* A signal held back during a chain is delivered in the end.
SuppressedIsDelivered ==
    \A sig \in Signals : tracee.suppressed = sig ~> sig \in sigs.delivered

=============================================================================
