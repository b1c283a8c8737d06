---------------------------- MODULE TraceeTable ----------------------------
(***************************************************************************)
(* The table of tracees of tracee/tracee.c: the list `tracees` and the     *)
(* hash index `tracee_hash` that get_tracee() consults before it walks the *)
(* list.  main() creates the first entry, launch_process() gives it the    *)
(* pid of the forked child, the event loop looks entries up, creates and   *)
(* frees them as the kernel reports stops, forks and exits.                *)
(*                                                                         *)
(* Abstractions.  A bucket is the set of the entries chained in it: chains *)
(* are searched by pid only, so their order never matters.  A freed entry  *)
(* keeps its contents and its address is not allocated again: this is the  *)
(* mildest outcome of reading freed memory, so what goes wrong here goes   *)
(* wrong for every allocator.  The kernel does not give the pid of a       *)
(* reaped process to a new one within the same turn of the event loop.     *)
(***************************************************************************)
EXTENDS Integers, FiniteSets

CONSTANTS
    Tracee,     \* addresses new_tracee() can return
    Pid,        \* pids the kernel can give to guest processes
    HashSize,   \* TRACEE_HASH_SIZE
    ProotPid    \* getpid()

ASSUME HashSizeAssumption == HashSize \in Nat \ {0}
ASSUME PidAssumption == Pid \subseteq Nat \ {0} /\ ProotPid \in Nat \ (Pid \cup {0})

VARIABLES
    pc,          \* where PRoot is: "main", "launch", "loop", "wait", "done"
    tracees,     \* the list of tracees
    pid,         \* the field pid of each entry
    tracee_hash, \* the entries chained in each bucket
    terminated,  \* the entries marked by terminate_tracee()
    allocated,   \* every address new_tracee() has returned so far
    root,        \* the entry main() created
    guests,      \* the processes the kernel is tracing for PRoot
    forks        \* <<parent, child>>: fork events PRoot has not seen yet

table == <<tracees, pid, tracee_hash, allocated>>
vars == <<pc, table, terminated, root, guests, forks>>

Bucket == 0 .. HashSize - 1

tracee_hash_fn(p) == p % HashSize

(***************************************************************************)
(* Look-ups.                                                               *)
(***************************************************************************)
tracee_lookup_readonly(p) ==
    {t \in tracee_hash[tracee_hash_fn(p)] : pid[t] = p}

tracee_is_tracked(p) == tracee_lookup_readonly(p) # {}

list_walk(p) == {t \in tracees : pid[t] = p}

\* Wrong variant: the index alone is consulted.
get_tracee_hash_only(p) == tracee_lookup_readonly(p)

\* The entries get_tracee() can return for p without creating one.
get_tracee(p) == IF tracee_is_tracked(p) THEN tracee_lookup_readonly(p) ELSE list_walk(p)

(***************************************************************************)
(* Insertions and removals.                                                *)
(***************************************************************************)
tracee_hash_insert(h, t, p) ==
    [h EXCEPT ![tracee_hash_fn(p)] = @ \cup {t}]

tracee_hash_remove(h, t, p) ==
    [h EXCEPT ![tracee_hash_fn(p)] = @ \ {t}]

tracee_hash_update(h, t, old_pid, new_pid) ==
    tracee_hash_insert([h EXCEPT ![tracee_hash_fn(old_pid)] = @ \ {t}], t, new_pid)

new_tracee(t, p) ==
    /\ t \in Tracee \ allocated
    /\ allocated' = allocated \cup {t}
    /\ pid' = [pid EXCEPT ![t] = p]
    /\ tracees' = tracees \cup {t}
    /\ tracee_hash' = tracee_hash_insert(tracee_hash, t, p)

\* get_tracee(NULL, p, true), which leaves the entry in e.
GetOrCreate(e, p) ==
    \/ /\ e \in get_tracee(p)
       /\ UNCHANGED <<allocated, pid, tracees, tracee_hash>>
    \/ /\ get_tracee(p) = {}
       /\ new_tracee(e, p)

(***************************************************************************)
(* Start-up.                                                               *)
(***************************************************************************)
Init ==
    /\ pc = "main"
    /\ tracees = {}
    /\ pid = [t \in Tracee |-> 0]
    /\ tracee_hash = [b \in Bucket |-> {}]
    /\ terminated = {}
    /\ allocated = {}
    /\ root \in Tracee
    /\ guests = {}
    /\ forks = {}

\* main(): get_tracee(NULL, 0, true), then the pid becomes getpid().
Main ==
    /\ pc = "main"
    /\ pc' = "launch"
    /\ allocated' = {root}
    /\ tracees' = {root}
    /\ pid' = [pid EXCEPT ![root] = ProotPid]
    /\ tracee_hash' = tracee_hash_update(tracee_hash_insert(tracee_hash, root, 0),
                                         root, 0, ProotPid)
    /\ UNCHANGED <<terminated, root, guests, forks>>

\* launch_process(), in the parent: "tracee->pid = pid", and nothing else.
launch_process(p) ==
    /\ pc = "launch"
    /\ pc' = "loop"
    /\ pid' = [pid EXCEPT ![root] = p]
    /\ guests' = {p}
    /\ UNCHANGED <<tracees, tracee_hash, allocated, terminated, root, forks>>

(***************************************************************************)
(* The event loop.                                                         *)
(***************************************************************************)
free_terminated_tracees ==
    /\ pc = "loop"
    /\ pc' = "wait"
    /\ tracee_hash' = [b \in Bucket |->
           {t \in tracee_hash[b] :
               t \in terminated => t \in tracee_hash_remove(tracee_hash, t, pid[t])[b]}]
    /\ tracees' = tracees \ terminated
    /\ terminated' = {}
    /\ UNCHANGED <<pid, allocated, root, guests, forks>>

\* After an event the supervisor goes on draining waitpid(); the normal
\* mode goes back to the top of the loop.
EventHandled == pc = "wait" /\ pc' \in {"loop", "wait"}

StopEvent(p, e) ==
    /\ EventHandled
    /\ p \in guests
    /\ GetOrCreate(e, p)
    /\ UNCHANGED <<terminated, root, guests, forks>>

\* The exit of p is reaped and handle_tracee_event() terminates its entry.
ExitEvent(p, e) ==
    /\ EventHandled
    /\ p \in guests
    /\ GetOrCreate(e, p)
    /\ terminated' = terminated \cup {e}
    /\ guests' = guests \ {p}
    /\ forks' = {f \in forks : f[1] # p}
    /\ UNCHANGED root

\* The fork event of p: attach_child() looks the child up or creates it,
\* whether or not the child is still alive.
ForkEvent(p, c, e) ==
    /\ EventHandled
    /\ <<p, c>> \in forks
    /\ forks' = forks \ {<<p, c>>}
    /\ GetOrCreate(e, c)
    /\ UNCHANGED <<terminated, root, guests>>

\* waitpid() fails with ECHILD.
NoChild ==
    /\ pc = "wait"
    /\ guests = {}
    /\ pc' = "done"
    /\ UNCHANGED <<table, terminated, root, guests, forks>>

(***************************************************************************)
(* The kernel and the guests, at any time.                                 *)
(***************************************************************************)
KernelFork(p, c) ==
    /\ pc \in {"loop", "wait"}
    /\ p \in guests
    /\ c \in Pid \ guests
    /\ \A f \in forks : c # f[2]
    /\ \A t \in terminated : pid[t] # c
    /\ guests' = guests \cup {c}
    /\ forks' = forks \cup {<<p, c>>}
    /\ UNCHANGED <<pc, table, terminated, root>>

Next ==
    \/ Main
    \/ \E p \in Pid : launch_process(p)
    \/ free_terminated_tracees
    \/ \E p \in Pid, e \in Tracee : StopEvent(p, e) \/ ExitEvent(p, e)
    \/ \E p, c \in Pid, e \in Tracee : ForkEvent(p, c, e)
    \/ \E p, c \in Pid : KernelFork(p, c)
    \/ NoChild

Spec == Init /\ [][Next]_vars

(***************************************************************************)
(* Properties.                                                             *)
(***************************************************************************)

\* Every variable has its type; pids are never negative.
TypeOK ==
    /\ pc \in {"main", "launch", "loop", "wait", "done"}
    /\ tracees \subseteq Tracee
    /\ pid \in [Tracee -> Nat]
    /\ tracee_hash \in [Bucket -> SUBSET Tracee]
    /\ terminated \subseteq Tracee
    /\ allocated \subseteq Tracee
    /\ root \in Tracee
    /\ guests \subseteq Pid
    /\ forks \subseteq Pid \X Pid

\* No process is ever registered twice, in whatever order its stops, its
\* exit and the fork event of its parent arrive: get_tracee() finds the
\* entry that exists, in the index or, failing that, in the list.
OneTraceePerPid ==
    \A s, t \in tracees : pid[s] = pid[t] => s = t

\* get_tracee() never returns an entry that free_terminated_tracees() has
\* freed.  Once the first tracee is freed this is said of the other buckets
\* only: launch_process() has left it in that of PRoot's own pid, where
\* tracee_hash_remove() does not look for it, and what is read there is
\* whatever the allocator has made of it.
GetTraceeReturnsListed ==
    \A p \in Pid :
        root \in tracees \/ tracee_hash_fn(p) # tracee_hash_fn(ProotPid)
            => get_tracee(p) \subseteq tracees

\* tracee_hash_remove() finds every entry but the first one: no other
\* freed entry is left in the index.
OnlyRootDangles ==
    \A b \in Bucket : tracee_hash[b] \subseteq tracees \cup {root}

\* "Remove from hash table BEFORE TALLOC_FREE to avoid dangling pointers"
\* (tracee.c, free_terminated_tracees()).
NoDanglingPointer ==
    \A b \in Bucket : tracee_hash[b] \subseteq tracees

\* tracee_is_tracked() tells "whether a PID belongs to this PRoot instance"
\* (tracee.c, above tracee_lookup_readonly()) for every tracee but the first,
\* which is not found under the pid launch_process() gave it.
TrackedButRoot ==
    \A t \in tracees \ {root} : tracee_is_tracked(pid[t])

=============================================================================
