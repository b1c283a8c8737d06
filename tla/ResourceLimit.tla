------------------------------ MODULE ResourceLimit ------------------------------
(***************************************************************************)
(* The limits on processes and CPUs: the options that set them, the        *)
(* resource_limit extension that counts the tracees at each fork(2) and    *)
(* rewrites what sched_getaffinity(2) gives, and the gate of the           *)
(* supervisor, which forks guests of its own.                              *)
(***************************************************************************)
EXTENDS Integers, Sequences, FiniteSets

CONSTANTS
    RTask, RFirst,      \* tasks, and the first tracee
    LimitOptions,       \* command lines, as sequences of options
    HostCpus,           \* CPUs of the machine, numbered from 0
    LimitGuests         \* what the guests do, as sets of habits

(***************************************************************************)
(* Guests fork and end; clients of the supervisor have it fork ("spawns"); *)
(* "races": while another fork is in progress; "kept": some of the tasks   *)
(* have ptracers that want their status; "pins": guests set their CPUs.    *)
(***************************************************************************)
LimitHabits == {"forks", "spawns", "races", "ends", "kept", "pins"}

\* An option as it was given, with its number.
LimitOptionType == [option : {"--cpu-limit", "--proc-limit", "--resource-isolated"}, n : Int]

ASSUME LimitAssumption ==
    /\ RFirst \in RTask /\ IsFiniteSet(RTask)
    /\ LimitGuests \subseteq SUBSET LimitHabits
    /\ LimitOptions \subseteq Seq(LimitOptionType)

VARIABLES
    limit_guest,
    roptions,    \* what is left of the command line
    rconfig,     \* resource_config
    rext,        \* the extension: its RlimitConfig and filtered_sysnums
    rtask,       \* what each task is to the kernel and to PRoot
    rcpus,       \* the affinity the kernel has for the guests, and what they are told
    rrefused     \* whether the last refusal was one too early

limitVars == <<limit_guest, roptions, rconfig, rext, rtask, rcpus, rrefused>>

Wont(h) == h \notin limit_guest

--------------------------------------------------------------------------------
(* Options.                                                                 *)

OptionCpu(n) == [option |-> "--cpu-limit", n |-> n]
OptionProc(n) == [option |-> "--proc-limit", n |-> n]
OptionIsolated == [option |-> "--resource-isolated", n |-> 1]

NoExtension == [there |-> FALSE, cpu |-> 0, proc |-> 0, sysnums |-> {}]

rlimit_build_sysnums(config) ==
    (IF config.cpu > 0 THEN {"sched_getaffinity"} ELSE {})
    \cup (IF config.proc > 0 THEN {"fork", "clone", "clone3", "vfork"} ELSE {})

\* The extension exists already: its configuration is refreshed, its set of system calls not.
rlimit_configure_once(config, extension) ==
    IF config.cpu <= 0 /\ config.proc <= 0 THEN extension
    ELSE [there |-> TRUE, cpu |-> config.cpu, proc |-> config.proc,
          sysnums |-> IF extension.there THEN extension.sysnums ELSE rlimit_build_sysnums(config)]

rlimit_configure(config, extension) ==
    IF config.cpu <= 0 /\ config.proc <= 0 THEN extension
    ELSE [there |-> TRUE, cpu |-> config.cpu, proc |-> config.proc,
          sysnums |-> rlimit_build_sysnums(config)]

\* handle_option_cpu_limit(), _single_core(), _resource_isolated() and _proc_limit(); a value
\* that is refused ends PRoot.
LimitOption ==
    /\ roptions # <<>>
    /\ LET o == Head(roptions)
           refused == o.n < 1 \/ (o.option = "--cpu-limit" /\ o.n > Cardinality(HostCpus))
           config == IF o.option = "--proc-limit" THEN [rconfig EXCEPT !.proc = o.n]
                     ELSE [rconfig EXCEPT !.cpu = o.n]
       IN IF refused
          THEN roptions' = <<>> /\ rtask' = [rtask EXCEPT ![RFirst] = "ended"]
               /\ UNCHANGED <<rconfig, rext>>
          ELSE roptions' = Tail(roptions) /\ rconfig' = config
               /\ rext' = rlimit_configure(config, rext) /\ UNCHANGED rtask
    /\ UNCHANGED <<rcpus, rrefused>>

FirstCpus(n) == {c \in HostCpus : c < n}

\* resource_config_apply() and launch_process().
Launches ==
    /\ roptions = <<>> /\ rtask[RFirst] = "none"
    /\ rcpus' = IF rconfig.cpu > 0 THEN [rcpus EXCEPT !.real = FirstCpus(rconfig.cpu)] ELSE rcpus
    /\ rtask' = [rtask EXCEPT ![RFirst] = "live"]
    /\ UNCHANGED <<roptions, rconfig, rext, rrefused>>

--------------------------------------------------------------------------------
(* Processes.  A task "forks" past the gate and before the kernel, is "new" before PRoot has *)
(* heard of it, "dead" before PRoot has heard of its end, and "kept" as a terminated tracee  *)
(* whose ptracer has yet to wait for it.                                                     *)

Listed == {t \in RTask : rtask[t] \in {"live", "forks", "dead", "kept"}}
Terminated == {t \in RTask : rtask[t] = "kept"}
Unreaped == {t \in RTask : rtask[t] \in {"live", "forks", "new", "dead"}}

\* The walk stops at the limit.
rlimit_count_live_tracees(limit) ==
    LET n == Cardinality(Listed \ Terminated) IN IF n > limit THEN limit ELSE n

rlimit_proc_limit_reached == rconfig.proc > 0 /\ rlimit_count_live_tracees(rconfig.proc) >= rconfig.proc

\* Guests that do not race start a process when no other is on its way.
Quiet == \A t \in RTask : rtask[t] \notin {"forks", "new"}

\* clone(2) and clone3(2) stop for PRoot in any case, fork(2) and vfork(2) if they are filtered.
Stops(kind) == kind = "clone" \/ (rext.there /\ kind \in rext.sysnums)

rlimit_handle_fork_clone_enter(t, kind) ==
    /\ ~Wont("forks") /\ rtask[t] = "live" /\ (~Wont("races") \/ Quiet)
    /\ IF /\ rext.there /\ Stops(kind) /\ rext.proc > 0
          /\ rlimit_count_live_tracees(rext.proc) >= rext.proc
       THEN rrefused' = (Cardinality(Unreaped) < rext.proc) /\ UNCHANGED rtask
       ELSE rtask' = [rtask EXCEPT ![t] = "forks"] /\ UNCHANGED rrefused
    /\ UNCHANGED <<roptions, rconfig, rext, rcpus>>

ForkInKernel(t, u) ==
    /\ rtask[t] = "forks" /\ rtask[u] = "none"
    /\ rtask' = [rtask EXCEPT ![t] = "live", ![u] = "new"]
    /\ UNCHANGED <<roptions, rconfig, rext, rcpus, rrefused>>

ForkHeard(u) ==
    /\ rtask[u] = "new"
    /\ rtask' = [rtask EXCEPT ![u] = "live"]
    /\ UNCHANGED <<roptions, rconfig, rext, rcpus, rrefused>>

\* handle_exec_request(): the supervisor forks at once, or answers with EAGAIN.
SuperviseSpawns(u) ==
    /\ ~Wont("spawns") /\ rtask[RFirst] \notin {"none", "ended"} /\ (~Wont("races") \/ Quiet)
    /\ rtask[u] = "none"
    /\ IF rlimit_proc_limit_reached
       THEN rrefused' = (Cardinality(Unreaped) < rconfig.proc) /\ UNCHANGED rtask
       ELSE rtask' = [rtask EXCEPT ![u] = "live"] /\ UNCHANGED rrefused
    /\ UNCHANGED <<roptions, rconfig, rext, rcpus>>

TaskEnds(t) ==
    /\ ~Wont("ends") /\ rtask[t] = "live" /\ t # RFirst
    /\ rtask' = [rtask EXCEPT ![t] = "dead"]
    /\ UNCHANGED <<roptions, rconfig, rext, rcpus, rrefused>>

\* PRoot's wait4(2): the tracee is terminated, and freed unless its ptracer wants its status.
EndHeard(t) ==
    /\ rtask[t] = "dead"
    /\ \E next \in {"none"} \cup (IF Wont("kept") THEN {} ELSE {"kept"}) :
          rtask' = [rtask EXCEPT ![t] = next]
    /\ UNCHANGED <<roptions, rconfig, rext, rcpus, rrefused>>

PtracerWaits(t) ==
    /\ rtask[t] = "kept"
    /\ rtask' = [rtask EXCEPT ![t] = "none"]
    /\ UNCHANGED <<roptions, rconfig, rext, rcpus, rrefused>>

--------------------------------------------------------------------------------
(* CPUs.                                                                    *)

\* sched_setaffinity(2) of a guest is left to the kernel.
Pins(cpus) ==
    /\ ~Wont("pins") /\ rtask[RFirst] = "live" /\ cpus # {}
    /\ rcpus' = [rcpus EXCEPT !.real = cpus]
    /\ UNCHANGED <<roptions, rconfig, rext, rtask, rrefused>>

\* sched_getaffinity(2), rewritten at its exit.
rlimit_handle_sched_getaffinity ==
    /\ rtask[RFirst] = "live"
    /\ rcpus' = [rcpus EXCEPT !.told =
          IF "sched_getaffinity" \in rext.sysnums /\ rext.cpu > 0 THEN FirstCpus(rext.cpu)
          ELSE rcpus.real]
    /\ UNCHANGED <<roptions, rconfig, rext, rtask, rrefused>>

--------------------------------------------------------------------------------
LimitInit ==
    /\ limit_guest \in LimitGuests
    /\ roptions \in LimitOptions
    /\ rconfig = [cpu |-> 0, proc |-> 0]
    /\ rext = NoExtension
    /\ rtask = [t \in RTask |-> "none"]
    /\ rcpus = [real |-> HostCpus, told |-> {}]
    /\ rrefused = FALSE

LimitStep ==
    \/ LimitOption \/ Launches
    \/ \E t \in RTask :
          \/ \E kind \in {"clone", "fork"} : rlimit_handle_fork_clone_enter(t, kind)
          \/ ForkHeard(t) \/ SuperviseSpawns(t) \/ TaskEnds(t) \/ EndHeard(t) \/ PtracerWaits(t)
          \/ \E u \in RTask : ForkInKernel(t, u)
    \/ \E cpus \in SUBSET HostCpus : Pins(cpus)
    \/ rlimit_handle_sched_getaffinity

LimitNext == LimitStep /\ UNCHANGED limit_guest

LimitSpec == LimitInit /\ [][LimitNext]_limitVars

--------------------------------------------------------------------------------
\* "caps the number of live tracees": whatever the order of the options, who forks and who
\* ends unheard, there are never more tasks than --proc-limit allows, and nobody is refused
\* while there are fewer - if guests and supervisor start one process at a time.
ProcLimitExact ==
    /\ ~rrefused
    /\ rconfig.proc > 0 /\ Wont("races") => Cardinality(Unreaped) <= rconfig.proc

\* What sched_getaffinity(2) tells a guest is where it runs, if it has not pinned itself.
CpusAgree == Wont("pins") => rcpus.told \in {{}, rcpus.real}

================================================================================
