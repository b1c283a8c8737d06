------------------------------ MODULE NewChild ------------------------------
(***************************************************************************)
(* How PRoot learns of a new process or thread.  The kernel reports two    *)
(* stops, in either order: the creator's PTRACE_EVENT_FORK/VFORK/CLONE and *)
(* the child's own SIGSTOP.  A child whose SIGSTOP comes first is held     *)
(* until attach_child() has made it inherit from its creator.  On kernels  *)
(* that lose the event's message the child's pid is not known at the       *)
(* creator's event: it is read from the result of the system call, or,     *)
(* when the creator is blocked in vfork(2), guessed from the held children *)
(* (adopt_held_children).                                                  *)
(***************************************************************************)
EXTENDS Naturals, FiniteSets

CONSTANTS
    NbTasks,   \* processes and threads there are at most
    Guests,    \* what guests do: see Guest
    NULL

\* The fork-like calls a guest makes, how many tasks it has at most, and how
\* many of them are killed from outside.
Flag == {"fork", "vfork", "thread", "vfork_parent"}
Guest == [flags : SUBSET Flag, tasks : Nat, kills : Nat]

\* Pids, given out in order: one names one task for ever.  The first is that
\* of the task launch_process() started.
Task == 1..NbTasks
Root == 1

ASSUME TasksAssumption ==
    NbTasks \in Nat \ {0} /\ NULL \notin Task \cup [child : Task, flag : Flag]
ASSUME GuestsAssumption == Guests \subseteq Guest

VARIABLES
    guest,       \* never changes
    \* the kernel
    loses_msg,   \* PTRACE_GETEVENTMSG reads 0 on this kernel; never changes
    run,         \* run[t]: "unborn", "running", "forking", "stopped" or "dead"
    report,      \* report[t]: what waitpid() will return for t, or "none"
    call,        \* call[t]: [child, flag] of the fork-like call t is in, or NULL
    creator, tgid, ppid, sp,
    vm_released, \* tasks that have left their creator's memory (exec or exit)
    kills,
    \* PRoot
    known, exe,  \* tasks with a Tracee; those whose tracee->exe is set
    parent,      \* parent[t]: the tracee attach_child() made t inherit from
    sigstop, pending_child, pending_flag, pending_sp,
    aborted

kernel_vars == <<guest, loses_msg, call, creator, tgid, ppid, sp, vm_released, kills>>
vars == <<guest, loses_msg, run, report, call, creator, tgid, ppid, sp, vm_released, kills,
          known, exe, parent, sigstop, pending_child, pending_flag, pending_sp, aborted>>

IsVfork(f) == f \in {"vfork", "vfork_parent"}

Init ==
    /\ guest \in Guests /\ loses_msg \in BOOLEAN
    /\ run = [t \in Task |-> IF t = Root THEN "running" ELSE "unborn"]
    /\ report = [t \in Task |-> "none"]
    /\ call = [t \in Task |-> NULL]
    /\ creator = [t \in Task |-> NULL] /\ ppid = [t \in Task |-> NULL]
    /\ tgid = [t \in Task |-> t] /\ sp = [t \in Task |-> t]
    /\ vm_released = {} /\ kills = 0
    /\ known = {Root} /\ exe = {Root}
    /\ parent = [t \in Task |-> NULL]
    /\ sigstop = [t \in Task |-> IF t = Root THEN "ALLOWED" ELSE "IGNORED"]
    /\ pending_child = {}
    /\ pending_flag = [t \in Task |-> NULL] /\ pending_sp = [t \in Task |-> NULL]
    /\ aborted = FALSE

(***************************************************************************)
(* The kernel and the guest                                                *)
(***************************************************************************)

\* A running task enters a fork-like call and is stopped in it by its event;
\* the child is born stopped.  A thread gets a stack of its own, the child of
\* fork(2) and vfork(2) starts on its creator's stack pointer.
Fork(t, c, f) ==
    /\ run[t] = "running" /\ run[c] = "unborn" /\ ~aborted
    /\ f \in guest.flags /\ c <= guest.tasks
    /\ \A d \in 1..(c - 1) : run[d] # "unborn"
    /\ run' = [run EXCEPT ![t] = "stopped", ![c] = "stopped"]
    /\ report' = [report EXCEPT ![t] = "FORK", ![c] = "SIGSTOP"]
    /\ call' = [call EXCEPT ![t] = [child |-> c, flag |-> f]]
    /\ creator' = [creator EXCEPT ![c] = t]
    /\ tgid' = [tgid EXCEPT ![c] = IF f = "thread" THEN tgid[t] ELSE c]
    /\ ppid' = [ppid EXCEPT ![c] = IF f \in {"thread", "vfork_parent"} THEN ppid[t] ELSE tgid[t]]
    /\ sp' = [sp EXCEPT ![c] = IF f = "thread" THEN c ELSE sp[t]]
    /\ UNCHANGED <<guest, loses_msg, vm_released, kills, known, exe, parent, sigstop,
                   pending_child, pending_flag, pending_sp, aborted>>

\* The creator reaches the exit of its call; after vfork, once the child has
\* left its memory.  force_fork_sysexit() has PRoot told of that exit.
ForkReturns(t) ==
    /\ run[t] = "forking" /\ ~aborted
    /\ IsVfork(call[t].flag) => call[t].child \in vm_released
    /\ run' = [run EXCEPT ![t] = "stopped"]
    /\ report' = [report EXCEPT ![t] = "SYSEXIT"]
    /\ UNCHANGED <<kernel_vars, known, exe, parent, sigstop,
                   pending_child, pending_flag, pending_sp, aborted>>

\* execve(2) gives a task a memory and a stack of its own.
Exec(t) ==
    /\ run[t] = "running" /\ t # Root /\ t \notin vm_released /\ ~aborted
    /\ vm_released' = vm_released \cup {t}
    /\ sp' = [sp EXCEPT ![t] = t]
    /\ UNCHANGED <<guest, loses_msg, run, report, call, creator, tgid, ppid, kills, known, exe, parent,
                   sigstop, pending_child, pending_flag, pending_sp, aborted>>

Dies(t) ==
    /\ run' = [run EXCEPT ![t] = "dead"]
    /\ report' = [report EXCEPT ![t] = "EXIT"]
    /\ vm_released' = vm_released \cup {t}
    /\ UNCHANGED <<guest, loses_msg, call, creator, tgid, ppid, sp, known, exe, parent, sigstop,
                   pending_child, pending_flag, pending_sp, aborted>>

Exit(t) ==
    /\ run[t] = "running" /\ ~aborted
    /\ Dies(t) /\ UNCHANGED kills

\* SIGKILL ends a task wherever it is; a stop not yet waited for is lost.
Kill(t) ==
    /\ run[t] \notin {"unborn", "dead"} /\ kills < guest.kills /\ ~aborted
    /\ kills' = kills + 1
    /\ Dies(t)

(***************************************************************************)
(* PRoot.  Each handler ends with restart_tracee(): r is what the tasks do *)
(* after it, before the children that attach_child() restarts.             *)
(***************************************************************************)

\* restart_tracee(): no effect on a task that has been killed meanwhile.
restart_tracee(t, how) == [run EXCEPT ![t] = IF @ = "stopped" THEN how ELSE @]

\* attach_child() for the children in DOMAIN attached, each to the tracee it
\* inherits from; stops is sigstop as the handler leaves it.  get_tracee()
\* creates the tracee if need be, the sanity checks want one that has not
\* inherited yet, and a held child is restarted.
attach_child(attached, stops, r) ==
    LET new == DOMAIN attached
        held == { c \in new : stops[c] = "PENDING" }
    IN  /\ aborted' = (new \cap exe # {})
        /\ known' = known \cup new \cup { c \in Task : stops[c] = "PENDING" }
        /\ exe' = exe \cup new
        /\ parent' = [c \in Task |-> IF c \in new THEN attached[c] ELSE parent[c]]
        /\ sigstop' = [c \in Task |-> IF c \in held THEN "ALLOWED" ELSE stops[c]]
        /\ run' = [c \in Task |-> IF c \in held /\ r[c] = "stopped" THEN "running" ELSE r[c]]

\* Wrong variant: kinship alone is looked at, not the stack pointer.
is_pending_child_of_kin(p, c, f, stack) ==
    CASE f = "thread" -> tgid[c] = tgid[p]
      [] f = "vfork_parent" -> ppid[c] = ppid[p]
      [] OTHER -> ppid[c] = tgid[p]

\* is_pending_child_of(): kinship read in /proc, then the stack pointer.
is_pending_child_of(p, c, f, stack) ==
    /\ CASE f = "thread" -> tgid[c] = tgid[p]
         [] f = "vfork_parent" -> ppid[c] = ppid[p]
         [] OTHER -> ppid[c] = tgid[p]
    /\ sp[c] = stack

\* adopt_held_children(): every held child, in the order of the list, takes
\* the first pending vfork-like creator that can be its own.
adopt_held_children(pending, flag, stack, stops, r) ==
    LET held == { c \in Task \ exe : stops[c] = "PENDING" }
        callers == { p \in pending : IsVfork(flag[p]) /\ p \in exe }
        candidates(c) == { p \in callers : is_pending_child_of(p, c, flag[p], stack[p]) }
        injective(m) == \A c, d \in DOMAIN m : m[c] = m[d] => c = d
        complete(m) == \A c \in held \ DOMAIN m : candidates(c) \subseteq { m[d] : d \in DOMAIN m }
    IN  \E found \in SUBSET held : \E m \in [found -> callers] :
          /\ \A c \in found : m[c] \in candidates(c)
          /\ injective(m) /\ complete(m)
          /\ attach_child(m, stops, r)
          /\ pending_child' = pending \ { m[c] : c \in found }

\* new_child_stack(): the stack the call was given, or the creator's own.
new_child_stack(t) == IF call[t].flag = "thread" THEN sp[call[t].child] ELSE sp[t]

Waited(t) == report' = [report EXCEPT ![t] = "none"] /\ UNCHANGED kernel_vars

\* new_child(), at PTRACE_EVENT_FORK, _VFORK or _CLONE.
new_child(t) ==
    /\ report[t] = "FORK" /\ ~aborted
    /\ Waited(t)
    /\ LET r == restart_tracee(t, "forking")
           c == call[t].child
           flag == [pending_flag EXCEPT ![t] = call[t].flag]
           stack == [pending_sp EXCEPT ![t] = new_child_stack(t)]
       IN  IF loses_msg
           THEN /\ adopt_held_children(pending_child \cup {t}, flag, stack, sigstop, r)
                /\ pending_flag' = flag /\ pending_sp' = stack
           ELSE /\ attach_child([x \in {c} |-> t], sigstop, r)
                /\ UNCHANGED <<pending_child, pending_flag, pending_sp>>

\* Wrong variant: held children are looked at again only at fork events.
FirstStop_no_adoption(t) ==
    /\ report[t] = "SIGSTOP" /\ ~aborted
    /\ Waited(t)
    /\ sigstop' = [sigstop EXCEPT ![t] = IF t \in exe THEN "ALLOWED" ELSE "PENDING"]
    /\ run' = IF t \in exe THEN restart_tracee(t, "running") ELSE run
    /\ known' = known \cup {t}
    /\ UNCHANGED <<exe, parent, pending_child, pending_flag, pending_sp, aborted>>

\* The first SIGSTOP of a task: it is held if PRoot does not know its creator.
FirstStop(t) ==
    /\ report[t] = "SIGSTOP" /\ ~aborted
    /\ Waited(t)
    /\ IF t \in exe
       THEN /\ sigstop' = [sigstop EXCEPT ![t] = "ALLOWED"]
            /\ run' = restart_tracee(t, "running")
            /\ UNCHANGED <<known, exe, parent, pending_child, aborted>>
       ELSE adopt_held_children(pending_child, pending_flag, pending_sp,
                                [sigstop EXCEPT ![t] = "PENDING"], run)
    /\ UNCHANGED <<pending_flag, pending_sp>>

\* A task PRoot can still trace: alive, or dead and not waited for.
Traced(c) == run[c] # "unborn" /\ ~(run[c] = "dead" /\ report[c] = "none")

\* The exit of a fork-like call, with resolve_pending_child().
ForkExit(t) ==
    /\ report[t] = "SYSEXIT" /\ ~aborted
    /\ report' = [report EXCEPT ![t] = "none"]
    /\ LET r == restart_tracee(t, "running")
           c == call[t].child
       IN  IF t \in pending_child /\ c \notin exe /\ Traced(c)
           THEN attach_child([x \in {c} |-> t], sigstop, r)
           ELSE run' = r /\ UNCHANGED <<known, exe, parent, sigstop, aborted>>
    /\ pending_child' = pending_child \ {t}
    /\ call' = [call EXCEPT ![t] = NULL]
    /\ UNCHANGED <<guest, loses_msg, creator, tgid, ppid, sp, vm_released, kills,
                   pending_flag, pending_sp>>

\* The end of a task: terminate_tracee() and free_terminated_tracees().  Its
\* children forget it (remove_tracee).
ExitEvent(t) ==
    /\ report[t] = "EXIT" /\ ~aborted
    /\ Waited(t)
    /\ known' = known \ {t} /\ exe' = exe \ {t}
    /\ pending_child' = pending_child \ {t}
    /\ sigstop' = [sigstop EXCEPT ![t] = "IGNORED"]
    /\ parent' = [c \in Task |-> IF parent[c] = t \/ c = t THEN NULL ELSE parent[c]]
    /\ UNCHANGED <<run, pending_flag, pending_sp, aborted>>

PRoot(t) ==
    \/ new_child(t)
    \/ FirstStop(t)
    \/ ForkExit(t)
    \/ ExitEvent(t)

Next ==
    \/ \E t, c \in Task, f \in Flag : Fork(t, c, f)
    \/ \E t \in Task : ForkReturns(t)
    \/ \E t \in Task : Exec(t)
    \/ \E t \in Task : Exit(t)
    \/ \E t \in Task : Kill(t)
    \/ \E t \in Task : PRoot(t)

Spec == Init /\ [][Next]_vars

(***************************************************************************)
(* The event loop waits for and handles every report, and a fork-like call *)
(* that can return does.  Nothing is assumed of the guest.                 *)
(***************************************************************************)
FairSpec ==
    /\ Spec
    /\ \A t \in Task : WF_vars(PRoot(t)) /\ WF_vars(ForkReturns(t))

-----------------------------------------------------------------------------
(***************************************************************************)
(* Properties                                                              *)
(***************************************************************************)

\* Every variable has its type.
TypeOK ==
    /\ guest \in Guests /\ loses_msg \in BOOLEAN /\ aborted \in BOOLEAN
    /\ run \in [Task -> {"unborn", "running", "forking", "stopped", "dead"}]
    /\ report \in [Task -> {"none", "FORK", "SIGSTOP", "SYSEXIT", "EXIT"}]
    /\ call \in [Task -> {NULL} \cup [child : Task, flag : Flag]]
    /\ creator \in [Task -> Task \cup {NULL}] /\ ppid \in [Task -> Task \cup {NULL}]
    /\ tgid \in [Task -> Task] /\ sp \in [Task -> Task]
    /\ vm_released \subseteq Task /\ kills \in 0..guest.kills
    /\ exe \subseteq known /\ known \subseteq Task
    /\ parent \in [Task -> Task \cup {NULL}]
    /\ sigstop \in [Task -> {"IGNORED", "ALLOWED", "PENDING"}]
    /\ pending_child \subseteq Task
    /\ pending_flag \in [Task -> Flag \cup {NULL}]
    /\ pending_sp \in [Task -> Task \cup {NULL}]

\* A new task executes nothing before it has inherited its file-system view
\* and extensions, whichever of the two stops comes first (event.c:963-975).
RunsOnlyAttached ==
    \A t \in Task : run[t] \in {"running", "forking"} => t \in exe

\* attach_child()'s sanity checks hold: no task is made to inherit twice, by
\* its creator's event, by adoption or by the exit of its creator's call.
AttachedOnce == ~aborted

\* A task inherits from the task that created it, also when the kernel does
\* not say which one that is (tracee.c:586-604).
InheritsFromCreator ==
    \A t \in Task : parent[t] # NULL => parent[t] = creator[t]

\* A task that runs its own code again has no child left to find: pending_child
\* never outlives the call it was set for, so a later event of another task
\* cannot be taken for its child's.
PendingOnlyInCall ==
    \A t \in pending_child : run[t] # "running"

\* Every task that is created gets to run, or dies: no child stays held for
\* ever, and neither does a creator blocked in vfork(2) for a held child.  A
\* creator that is killed before it has reported its child leaves it held.
EveryChildRuns ==
    \A t \in Task : run[t] = "stopped" ~> run[t] # "stopped" \/ kills > 0

=============================================================================
