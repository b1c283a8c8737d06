----------------------------- MODULE ProcIsolation -----------------------------
(***************************************************************************)
(* The proc_isolation extension: which paths of /proc a guest reaches, the *)
(* per-tracee table that says of a descriptor what its reads have to show, *)
(* the listing of /proc, and kill(2) of groups.                            *)
(*                                                                         *)
(* A path is a sequence of names: <<"stat">> is /proc/stat, <<t, "maps">>  *)
(* the maps of the tracee t, and <<>> any path outside /proc.  A           *)
(* synthesized file is opened as /dev/null and its reads are answered at   *)
(* their exit with the next of SynthText pieces of the text.               *)
(***************************************************************************)
EXTENDS Naturals, Sequences, FiniteSets, Functions

CONSTANTS
    PTask, PFirst,         \* tasks, and the one that is there from the start
    PFd, BadFd,            \* descriptors, and a number that can be none
    PFile,                 \* open file descriptions, as numbers from 1
    ProcPaths,             \* what the guests open
    PidOrder,              \* tasks and host processes, by increasing pid
    ChunkLen,              \* pids in the buffer of one getdents64(2)
    SynthText,             \* reads it takes to get a synthesized text
    MAX_PROC_SYNTH_FDS,
    MaxKills,
    ProcGuests             \* what the guests do, as sets of habits

(***************************************************************************)
(* Guests open files of /proc and others ("plain"), "many" of them at once,*)
(* with the buffer an earlier open(2) was given ("reuses"); they read them *)
(* with readv(2) ("vectors") and pread(2); they duplicate descriptors, also*)
(* "over" open ones, and read through more than one duplicate ("shares");  *)
(* they get and lose descriptors by calls that are not followed            *)
(* ("untracked").  They fork, once or more often ("family"), have threads, *)
(* change groups, kill, list /proc, and end.                               *)
(***************************************************************************)
ProcHabits ==
    {"opens", "plain", "many", "reuses", "vectors", "preads", "dups", "over", "shares",
     "untracked", "forks", "family", "threads", "groups", "kills", "lists", "exits"}

ASSUME ProcAssumption ==
    /\ PFirst \in PTask /\ BadFd \notin PFd /\ ProcGuests \subseteq SUBSET ProcHabits
    /\ PidOrder \in Seq(Range(PidOrder)) /\ PTask \subseteq Range(PidOrder)
    /\ Range(PidOrder) \cap {"net", "sys/net"} = {} /\ ChunkLen \in Nat \ {0}
    /\ IsFiniteSet(PFd) /\ PFile \subseteq Nat \ {0} /\ SynthText \in Nat /\ MAX_PROC_SYNTH_FDS \in Nat

VARIABLES
    proc_guest,
    ptask,      \* state, thread group and process group of each task
    pfile,      \* open file descriptions
    pfds,       \* descriptor table of each process
    pbuffer,    \* the path in a buffer each process opens again and again
    synth,      \* Tracee.proc_synth_fds, _kinds and _offsets
    preading,   \* the read(2) each task is in
    plast,      \* what the last read gave and what it should have, when they differ
    pkilled,    \* the same of the last kill(2)
    plisting,   \* a listing of /proc by PFirst
    pkills

procVars == <<proc_guest, ptask, pfile, pfds, pbuffer, synth, preading, plast, pkilled,
              plisting, pkills>>

Dares(h) == h \in proc_guest

--------------------------------------------------------------------------------
(* Tasks.  "new" is a child PRoot has not heard of yet, "dead" one whose end it has not.  *)

NoTask == [state |-> "none", tgid |-> PFirst, pgid |-> PFirst]
InState(S) == {t \in PTask : ptask[t].state \in S}
PLive == InState({"live"})
Leader(t) == ptask[t].tgid

\* tracee_is_tracked(): the tracees in PRoot's table.
hpc_is_proot_pid(p) == p \in InState({"live", "dead"})

\* A call is made by a task that is in no read(2).
NotReading == [fd |-> BadFd]
Calling(t) == t \in PLive /\ preading[t] = NotReading

--------------------------------------------------------------------------------
(* Paths of /proc.                                                          *)

hpc_is_allowed_proc_root_name(n) ==
    n \in {"self", "thread-self", "cpuinfo", "meminfo", "stat", "uptime", "loadavg", "mounts",
           "mountinfo"}

SynthNames ==
    {"stat", "uptime", "loadavg", "status", "statm", "cmdline", "comm", "limits", "io", "sched",
     "oom_score", "wchan", "syscall", "attr/current", "mounts", "mountinfo"}

\* Pids are what is no name.
IsPid(n) == n \in Range(PidOrder)
OfProcess(p) == Len(p) = 2 /\ (IsPid(p[1]) \/ p[1] \in {"self", "thread-self"})

hpc_proc_synth_kind(p) == (Len(p) = 1 \/ OfProcess(p)) /\ p[Len(p)] \in SynthNames

hpc_is_guest_proc_path(p) ==
    \/ Len(p) = 1 /\ (hpc_is_allowed_proc_root_name(p[1]) \/ IsPid(p[1]))
    \/ /\ OfProcess(p) /\ (IsPid(p[1]) => hpc_is_proot_pid(p[1]))
       /\ \/ hpc_proc_synth_kind(p) \/ p[2] \in {"maps", "task/maps", "fd", "task"}
          \/ ~IsPid(p[1]) /\ p[2] = "exe"

hpc_is_host_proc_path(p) ==
    /\ p # <<>>
    /\ \/ Len(p) = 2 /\ p[1] \in {"net", "sys/net"}
       \/ IsPid(p[1]) /\ ~hpc_is_proot_pid(p[1])
       \/ OfProcess(p) /\ p[2] = "net"

\* SYSCALL_ENTER_START of the open family: what the kernel is given.
OpensAs(p) ==
    IF p = <<>> THEN "plain"
    ELSE IF ~hpc_is_guest_proc_path(p) \/ hpc_is_host_proc_path(p) THEN "ENOENT"
    ELSE IF hpc_proc_synth_kind(p) THEN "null"
    ELSE IF p[Len(p)] \in {"maps", "task/maps"} THEN "maps" ELSE "plain"

--------------------------------------------------------------------------------
(* The table of descriptors.                                                *)

NoEntry == [kind |-> "none", off |-> 0]
Entries(tab) == {f \in DOMAIN tab : tab[f] # NoEntry}
NonMaps(tab) == {f \in Entries(tab) : tab[f].kind = "nonmaps"}

hpc_remove_synth_fd(tab, f) == [tab EXCEPT ![f] = NoEntry]

\* The tables in which f may be recorded; the slot that is reclaimed is the first one with a
\* negative classification, and slots move when others are removed.
Recorded(tab, f, e) ==
    IF tab[f] # NoEntry THEN {tab}
    ELSE IF Cardinality(Entries(tab)) < MAX_PROC_SYNTH_FDS THEN {[tab EXCEPT ![f] = e]}
    ELSE IF e.kind = "nonmaps" \/ NonMaps(tab) = {} THEN {tab}
    ELSE {[tab EXCEPT ![g] = NoEntry, ![f] = e] : g \in NonMaps(tab)}

hpc_add_fd_kind_squeezed(tab, f, kind) ==
    IF tab[f] = NoEntry /\ Cardinality(Entries(tab)) < MAX_PROC_SYNTH_FDS
    THEN {[tab EXCEPT ![f] = [kind |-> kind, off |-> 0]]} ELSE {tab}

hpc_add_fd_kind(tab, f, kind) == Recorded(tab, f, [kind |-> kind, off |-> 0])

\* A descriptor that is in no slot is not followed to its duplicate.
hpc_copy_synth_fd(tab, f, g) ==
    IF f = g \/ tab[f] = NoEntry THEN {tab}
    ELSE Recorded(hpc_remove_synth_fd(tab, g), g, tab[f])

FileOf(t, f) == IF f = BadFd THEN 0 ELSE pfds[Leader(t)][f]
RealOf(t, f) == IF FileOf(t, f) = 0 THEN "none" ELSE pfile[FileOf(t, f)].real

--------------------------------------------------------------------------------
(* Descriptors, as the kernel has them.                                     *)

NoFile == [asked |-> "none", real |-> "none", pos |-> 0, reader |-> <<PFirst, BadFd>>]
Referred(fds) == UNION {Range(fds[t]) : t \in DOMAIN fds}

\* Descriptors are gone, and with the last of a file the file.
Leaves(fds) ==
    /\ pfds' = fds
    /\ pfile' = [n \in PFile |-> IF n \notin Referred(fds) THEN NoFile ELSE pfile[n]]
Shuts(t, f) == Leaves([pfds EXCEPT ![Leader(t)][f] = 0])
FreeFile == {n \in PFile : n \notin Referred(pfds)}
LowestFd(t) == {f \in PFd : FileOf(t, f) = 0 /\ \A g \in PFd : g < f => FileOf(t, g) # 0}
LowestFile == {n \in FreeFile : \A m \in FreeFile : n <= m}

\* What a read of the file a guest asked for has to give: the text of a synthesized file piece
\* by piece, the maps without the loader, other data as it is.
Wanted(n, at) ==
    CASE pfile[n].asked = "null" /\ at < SynthText -> <<"text", at + 1>>
      [] pfile[n].asked = "null" /\ at >= SynthText -> <<"end", 0>>
      [] pfile[n].asked = "maps" -> <<"filtered", 0>>
      [] OTHER -> <<"data", 0>>

KernelGives(n) ==
    CASE pfile[n].real = "null" -> <<"end", 0>>
      [] pfile[n].real = "maps" -> <<"unfiltered", 0>>
      [] OTHER -> <<"data", 0>>

\* The descriptors whose reads need a slot.  Guests that do not open "many" leave it one.
Special(t) == {f \in PFd : FileOf(t, f) # 0 /\ pfile[FileOf(t, f)].asked \in {"null", "maps"}}
SlotLeft(t, asked) ==
    Dares("many") \/ asked = "plain" \/ Cardinality(Special(t)) < MAX_PROC_SYNTH_FDS

\* Guests that do not share the offset of a file use the last duplicate of its descriptor.
MayRead(t, f) == Dares("shares") \/ pfile[FileOf(t, f)].reader = <<Leader(t), f>>

NewFile(t, f, n, asked, real) ==
    /\ pfds' = [pfds EXCEPT ![Leader(t)][f] = n]
    /\ pfile' = [pfile EXCEPT ![n] =
          [asked |-> asked, real |-> real, pos |-> 0, reader |-> <<Leader(t), f>>]]

\* open(2), openat(2), openat2(2) of p, whose bytes are in the buffer at hand or in a fresh
\* one: the enter, where "/dev/null" is written over them, and hpc_track_synth_open() at the
\* exit, which drops what the table says of the number.  Nothing runs in between that could
\* tell.  A voided call leaves no descriptor, and at its exit no pending kind.
PathOpen(t, p, again) ==
    /\ Dares("opens") /\ Calling(t) /\ (p = <<>> => Dares("plain"))
    /\ again => Dares("reuses") /\ hpc_proc_synth_kind(p)
    /\ OpensAs(p) # "ENOENT" /\ SlotLeft(t, OpensAs(p))
    /\ \E f \in LowestFd(t), n \in LowestFile :
       LET real == IF again /\ pbuffer[Leader(t)] THEN "null" ELSE OpensAs(p)
           kept == hpc_proc_synth_kind(p) /\ ~(again /\ pbuffer[Leader(t)])
       IN /\ NewFile(t, f, n, OpensAs(p), real)
          /\ pbuffer' = [pbuffer EXCEPT ![Leader(t)] = @ \/ (again /\ kept)]
          /\ \E tab \in IF kept THEN hpc_add_fd_kind(hpc_remove_synth_fd(synth[t], f), f, "synth")
                        ELSE {hpc_remove_synth_fd(synth[t], f)} :
                synth' = [synth EXCEPT ![t] = tab]
    /\ UNCHANGED <<ptask, preading, plast, pkilled, plisting, pkills>>

\* pipe(2), socket(2), accept(2), recvmsg(2): a descriptor nobody tells the extension of.
UntrackedOpen(t) ==
    /\ Dares("untracked") /\ Calling(t)
    /\ \E f \in LowestFd(t), n \in LowestFile : NewFile(t, f, n, "plain", "plain")
    /\ UNCHANGED <<ptask, pbuffer, synth, preading, plast, pkilled, plisting, pkills>>

\* close_range(2), and execve(2) of a process with O_CLOEXEC descriptors.
UntrackedClose(t, f) ==
    /\ Dares("untracked") /\ Calling(t) /\ FileOf(t, f) # 0
    /\ Shuts(t, f)
    /\ UNCHANGED <<ptask, pbuffer, synth, preading, plast, pkilled, plisting, pkills>>

PathClose(t, f) ==
    /\ Calling(t) /\ FileOf(t, f) # 0
    /\ Shuts(t, f)
    /\ synth' = [synth EXCEPT ![t] = hpc_remove_synth_fd(@, f)]
    /\ UNCHANGED <<ptask, pbuffer, preading, plast, pkilled, plisting, pkills>>

\* dup(2), dup2(2), dup3(2) and F_DUPFD of f to g.  The result is unsigned, so a call that
\* failed is followed too: BadFd is a number the kernel has refused.
DupTo(t, f, g) ==
    /\ Dares("dups") /\ Calling(t) /\ FileOf(t, f) # 0 /\ f # g
    /\ FileOf(t, g) # 0 \/ g = BadFd => Dares("over")
    /\ SlotLeft(t, pfile[FileOf(t, f)].asked) /\ MayRead(t, f)
    /\ IF g = BadFd THEN UNCHANGED <<pfds, pfile>>
       ELSE /\ pfds' = [pfds EXCEPT ![Leader(t)][g] = FileOf(t, f)]
            /\ pfile' = [n \in PFile |->
                  IF n = FileOf(t, f) THEN [pfile[n] EXCEPT !.reader = <<Leader(t), g>>]
                  ELSE IF n \notin Referred(pfds') THEN NoFile ELSE pfile[n]]
    /\ \E tab \in hpc_copy_synth_fd(synth[t], f, g) : synth' = [synth EXCEPT ![t] = tab]
    /\ UNCHANGED <<ptask, pbuffer, preading, plast, pkilled, plisting, pkills>>

--------------------------------------------------------------------------------
(* Reads.                                                                   *)

\* readlink(/proc/pid/fd/f): the reads of a maps file need their exit, others do not.
hpc_classify_read_fd(t, f) ==
    IF synth[t][f] # NoEntry THEN synth[t][f].kind
    ELSE IF RealOf(t, f) = "maps" THEN "maps" ELSE "nonmaps"

\* The enter of read(2), pread64(2) (which has an offset of its own: the start), and of
\* readv(2) and its kin, which are voided of maps and left alone otherwise.
ReadEnter(t, f, how) ==
    /\ Dares("opens") /\ Calling(t) /\ FileOf(t, f) # 0
    /\ how = "readv" => Dares("vectors")
    /\ how = "pread" => Dares("preads")
    /\ MayRead(t, f)
    /\ LET kind == hpc_classify_read_fd(t, f) IN
       /\ \E tab \in hpc_add_fd_kind(synth[t], f, kind) : synth' = [synth EXCEPT ![t] = tab]
       /\ preading' = [preading EXCEPT ![t] =
             [fd |-> f, how |-> how, step |-> "kernel",
              exit |-> how # "readv" /\ kind # "nonmaps",
              void |-> how = "readv" /\ kind = "maps",
              got |-> <<"end", 0>>, want |-> <<"end", 0>>]]
    /\ UNCHANGED <<ptask, pfile, pfds, pbuffer, plast, pkilled, plisting, pkills>>

ReadEnds(t, got, want) ==
    /\ preading' = [preading EXCEPT ![t] = NotReading]
    /\ plast' = IF got = want THEN <<>> ELSE <<got, want>>

\* The kernel's read, of the file the descriptor has by now.
ReadKernel(t) ==
    /\ t \in PLive /\ preading[t] # NotReading /\ preading[t].step = "kernel"
    /\ LET c == preading[t]
           n == FileOf(t, c.fd)
           got == IF n = 0 \/ c.void THEN <<"end", 0>> ELSE KernelGives(n)
           want == IF n = 0 THEN <<"end", 0>>
                   ELSE Wanted(n, IF c.how = "pread" THEN 0 ELSE pfile[n].pos)
       IN /\ pfile' = IF n = 0 \/ c.how = "pread" \/ pfile[n].pos = SynthText THEN pfile
                      ELSE [pfile EXCEPT ![n].pos = @ + 1]
          /\ IF c.exit
             THEN /\ preading' = [preading EXCEPT ![t] =
                        [c EXCEPT !.step = "exit", !.got = got, !.want = want]]
                  /\ UNCHANGED plast
             ELSE ReadEnds(t, got, want)
    /\ UNCHANGED <<ptask, pfds, pbuffer, synth, pkilled, plisting, pkills>>

\* What lines of the loader are taken from, whatever it is.
hpc_handle_maps_read_exit(got) ==
    CASE got[1] = "unfiltered" -> <<"filtered", 0>>
      [] got[1] = "data" -> <<"mangled", 0>>
      [] OTHER -> got

\* SYSCALL_EXIT_END of read(2) and pread64(2), by the slot the descriptor has now.
ReadExit(t) ==
    /\ t \in PLive /\ preading[t] # NotReading /\ preading[t].step = "exit"
    /\ LET c == preading[t]
           e == synth[t][c.fd]
           stale == RealOf(t, c.fd) # "null"
           more == ~stale /\ e.off < SynthText
           got == CASE e = NoEntry -> IF RealOf(t, c.fd) = "maps" THEN hpc_handle_maps_read_exit(c.got)
                                      ELSE c.got
                    [] e.kind = "nonmaps" -> c.got
                    [] e.kind = "maps" -> hpc_handle_maps_read_exit(c.got)
                    [] e.kind = "synth" -> IF more THEN <<"text", e.off + 1>>
                                           ELSE IF stale THEN c.got ELSE <<"end", 0>>
           entry == IF e = NoEntry \/ e.kind # "synth" THEN e
                    ELSE IF stale THEN NoEntry ELSE IF more THEN [e EXCEPT !.off = @ + 1] ELSE e
       IN /\ ReadEnds(t, got, c.want)
          /\ synth' = [synth EXCEPT ![t][c.fd] = entry]
    /\ UNCHANGED <<ptask, pfile, pfds, pbuffer, pkilled, plisting, pkills>>

--------------------------------------------------------------------------------
(* Tasks come and go.                                                       *)

\* fork(2), or clone(2) of a thread: the kernel's part.  Parent or child reads what is open.
KernelForks(t, u, thread) ==
    /\ Calling(t) /\ u \in InState({"none"}) /\ Dares(IF thread THEN "threads" ELSE "forks")
    /\ Dares("family") \/ InState({"none"}) = PTask \ {t}
    /\ ptask' = [ptask EXCEPT ![u] =
          [state |-> "new", tgid |-> IF thread THEN Leader(t) ELSE u, pgid |-> ptask[t].pgid]]
    /\ pfds' = IF thread THEN pfds ELSE [pfds EXCEPT ![u] = pfds[Leader(t)]]
    /\ pbuffer' = [pbuffer EXCEPT ![u] = pbuffer[Leader(t)]]
    /\ synth' = [synth EXCEPT ![u] = synth[t]]
    /\ \E heir \in BOOLEAN :
         pfile' = [n \in PFile |->
            IF heir /\ ~thread /\ pfile[n].reader[1] = Leader(t)
            THEN [pfile[n] EXCEPT !.reader[1] = u] ELSE pfile[n]]
    /\ UNCHANGED <<preading, plast, pkilled, plisting, pkills>>

\* PRoot's part: new_child() copies the table, as it is while the parent waits in the call.
ChildRegistered(u) ==
    /\ u \in InState({"new"})
    /\ ptask' = [ptask EXCEPT ![u].state = "live"]
    /\ UNCHANGED <<pfile, pfds, pbuffer, synth, preading, plast, pkilled, plisting, pkills>>

\* The last task of a process has its descriptors closed; PRoot hears of the end later.  A
\* listing need not show a process that has ended, nor another one that gets its pid.
TaskExits(t) ==
    /\ Dares("exits") /\ Calling(t) /\ t # PFirst
    /\ \A u \in InState({"live", "new"}) : Leader(u) # t \/ u = t
    /\ ptask' = [ptask EXCEPT ![t].state = "dead"]
    /\ LET fds == IF Leader(t) = t THEN [pfds EXCEPT ![t] = [f \in PFd |-> 0]] ELSE pfds IN
       /\ pfds' = fds
       /\ pfile' = [n \in PFile |->
             IF n \notin Referred(fds) THEN NoFile
             ELSE IF pfile[n].reader[1] = t THEN [pfile[n] EXCEPT !.reader = NoFile.reader]
             ELSE pfile[n]]
    /\ plisting' = [plisting EXCEPT !.must = @ \ {t}]
    /\ UNCHANGED <<pbuffer, synth, preading, plast, pkilled, pkills>>

TaskReaped(t) ==
    /\ t \in InState({"dead"})
    /\ ptask' = [ptask EXCEPT ![t] = NoTask]
    /\ synth' = [synth EXCEPT ![t] = [f \in PFd \cup {BadFd} |-> NoEntry]]
    /\ UNCHANGED <<pfile, pfds, pbuffer, preading, plast, pkilled, plisting, pkills>>

\* setpgid(2) is left to the kernel.
Regroups(t) ==
    /\ Dares("groups") /\ Calling(t) /\ Leader(t) = t /\ ptask[t].pgid # t
    /\ ptask' = [u \in PTask |->
          IF ptask[u].state # "none" /\ Leader(u) = t THEN [ptask[u] EXCEPT !.pgid = t]
          ELSE ptask[u]]
    /\ UNCHANGED <<pfile, pfds, pbuffer, synth, preading, plast, pkilled, plisting, pkills>>

--------------------------------------------------------------------------------
(* kill(2) of everyone, of a group, and of the sender's group.              *)

\* The targets; "any" is -1.
InGroup(u, group) == group = "any" \/ ptask[u].pgid = group

hpc_kill_tracees_matching_all(t, group, include_self) ==
    {u \in InState({"live", "dead"}) : include_self \/ u # t}

hpc_kill_tracees_matching(t, group, include_self) ==
    {u \in InState({"live", "dead"}) : (include_self \/ u # t) /\ InGroup(u, group)}

\* The signals each process gets: one for each of its tasks among the targets.
Signals(targets) == [p \in PTask |-> Cardinality({u \in targets : Leader(u) = p})]

\* What Linux does, but for the sender's own process, which is spared on purpose.
LinuxSignals(t, group) ==
    [p \in PTask |->
        IF p # Leader(t) /\ \E u \in InState({"new", "live", "dead"}) :
              Leader(u) = p /\ InGroup(u, group)
        THEN 1 ELSE 0]

LinuxFinds(group) == \E u \in InState({"new", "live", "dead"}) : InGroup(u, group)

\* hpc_handle_kill_enter() for a target that is not positive; group "any" is kill(-1).  A
\* signal of number 0 only asks.
hpc_handle_kill_enter(t, group, asks) ==
    /\ Dares("kills") /\ Calling(t) /\ pkills < MaxKills
    /\ pkills' = pkills + 1
    /\ LET members == hpc_kill_tracees_matching(t, group, TRUE)
           found == IF group = "any" THEN ~asks ELSE members # {}
           targets == IF asks \/ ~found THEN {}
                      ELSE hpc_kill_tracees_matching(t, group, FALSE)
       IN pkilled' = [found |-> found, got |-> Signals(targets),
                      want |-> IF asks THEN Signals({}) ELSE LinuxSignals(t, group),
                      there |-> IF group = "any" THEN found ELSE LinuxFinds(group),
                      births |-> InState({"new"}) # {}]
    /\ UNCHANGED <<ptask, pfile, pfds, pbuffer, synth, preading, plast, plisting>>

\* Its last part: kill(2), tkill(2) and tgkill(2) of one task are the kernel's, if PRoot has
\* heard of the task.
KillOne(t, u, asks) ==
    /\ Dares("kills") /\ Calling(t) /\ pkills < MaxKills
    /\ pkills' = pkills + 1
    /\ LET there == u \in InState({"new", "live", "dead"})
           sent(condition) == Signals(IF condition /\ ~asks THEN {u} ELSE {})
       IN pkilled' = [found |-> hpc_is_proot_pid(u) /\ there, got |-> sent(hpc_is_proot_pid(u) /\ there),
                      want |-> sent(there), there |-> there, births |-> InState({"new"}) # {}]
    /\ UNCHANGED <<ptask, pfile, pfds, pbuffer, synth, preading, plast, plisting>>

--------------------------------------------------------------------------------
(* The listing of /proc.                                                    *)

NoListing == [pos |-> 0, seen |-> {}, must |-> {}, void |-> FALSE, over |-> FALSE]

\* opendir("/proc"): the tracees there now are expected in the listing, if they stay.
ListingStarts(t) ==
    /\ Dares("lists") /\ Calling(t) /\ t = PFirst /\ plisting = NoListing
    /\ plisting' = [NoListing EXCEPT !.must = PLive]
    /\ UNCHANGED <<ptask, pfile, pfds, pbuffer, synth, preading, plast, pkilled, pkills>>

\* Host processes are always there.
PidExists(p) == p \in PTask => ptask[p].state # "none" /\ Leader(p) = p

\* By their places in the order: those that come next, and the first ChunkLen of them.
Ahead == {i \in DOMAIN PidOrder : i > plisting.pos /\ PidExists(PidOrder[i])}
ChunkAt == {i \in Ahead : Cardinality({j \in Ahead : j < i}) < ChunkLen}
Chunk == {PidOrder[i] : i \in ChunkAt}

\* Only the process that asks.
hpc_getdents_keep_caller(p) == p = PFirst

hpc_getdents_keep(p) == hpc_is_proot_pid(p)

\* getdents64(2): the kernel fills the buffer with what comes next, and what is no tracee is
\* taken out.  To the guest a result of nothing is the end.
hpc_handle_getdents_exit(t) ==
    /\ Dares("lists") /\ Calling(t) /\ t = PFirst /\ plisting # NoListing /\ ~plisting.over
    /\ LET kept == {p \in Chunk : hpc_getdents_keep(p)}
       IN plisting' = [plisting EXCEPT
             !.pos = IF ChunkAt = {} THEN @ ELSE CHOOSE i \in ChunkAt : \A j \in ChunkAt : j <= i,
             !.seen = @ \cup kept,
             !.void = @ \/ (Chunk # {} /\ \A p \in Chunk : ~hpc_is_proot_pid(p)),
             !.over = kept = {}]
    /\ UNCHANGED <<ptask, pfile, pfds, pbuffer, synth, preading, plast, pkilled, pkills>>

--------------------------------------------------------------------------------
ProcInit ==
    /\ proc_guest \in ProcGuests
    /\ ptask = [t \in PTask |-> IF t = PFirst THEN [NoTask EXCEPT !.state = "live"] ELSE NoTask]
    /\ pfile = [n \in PFile |-> NoFile]
    /\ pfds = [t \in PTask |-> [f \in PFd |-> 0]]
    /\ pbuffer = [t \in PTask |-> FALSE]
    /\ synth = [t \in PTask |-> [f \in PFd \cup {BadFd} |-> NoEntry]]
    /\ preading = [t \in PTask |-> NotReading]
    /\ plast = <<>>
    /\ pkilled = [found |-> TRUE, got |-> Signals({}), want |-> Signals({}), there |-> TRUE,
                  births |-> FALSE]
    /\ plisting = NoListing
    /\ pkills = 0

ProcStep ==
    \E t \in PTask :
       \/ \E p \in ProcPaths, again \in BOOLEAN : PathOpen(t, p, again)
       \/ UntrackedOpen(t)
       \/ \E f \in PFd : UntrackedClose(t, f) \/ PathClose(t, f)
       \/ \E f \in PFd, g \in PFd \cup {BadFd} : DupTo(t, f, g)
       \/ \E f \in PFd, how \in {"read", "pread", "readv"} : ReadEnter(t, f, how)
       \/ ReadKernel(t) \/ ReadExit(t)
       \/ \E u \in PTask, thread \in BOOLEAN : KernelForks(t, u, thread)
       \/ ChildRegistered(t) \/ TaskExits(t) \/ TaskReaped(t) \/ Regroups(t)
       \/ \E group \in {"any"} \cup PTask, asks \in BOOLEAN : hpc_handle_kill_enter(t, group, asks)
       \/ \E u \in PTask, asks \in BOOLEAN : KillOne(t, u, asks)
       \/ ListingStarts(t) \/ hpc_handle_getdents_exit(t)

ProcNext == ProcStep /\ UNCHANGED proc_guest

ProcSpec == ProcInit /\ [][ProcNext]_procVars

--------------------------------------------------------------------------------
\* "A synthesized/maps entry must never be squeezed out by negative read-classification
\* entries": however descriptors are opened, closed, duplicated, handed to children and their
\* numbers used again, a read gives what the guest opened - the text of a synthesized file
\* once and in order, maps without the loader, other files untouched.  As long as no more such
\* files are open than the table has slots, each is read with read(2), through one descriptor,
\* by a process of one thread, and descriptors come and go by open(2), dup(2) and close(2).
ReadsLikeOpened ==
    \/ plast = <<>>
    \/ proc_guest \cap {"many", "reuses", "vectors", "preads", "over", "shares", "untracked",
                      "threads"} # {}

\* kill(-1), kill(0), kill(-pgid) and kill(pid) of processes of one thread: each process meant,
\* of a group all but the sender, gets the signal, once, and ESRCH means there is nobody,
\* though members come, go, change their groups and end without PRoot having heard.  Children
\* that are being born are another matter.
KillReaches ==
    \/ pkilled.births \/ Dares("threads")
    \/ pkilled.got = pkilled.want /\ pkilled.found = pkilled.there

\* A guest that reads /proc until nothing comes has seen each process that was there all the
\* time, and nothing of what it has seen and is still there is denied it - unless a buffer
\* held no pid of a tracee, which is the end of the listing.
ListingComplete ==
    plisting.over =>
       /\ \A p \in plisting.must : p \in plisting.seen \/ Leader(p) # p \/ plisting.void
       /\ \A p \in plisting.seen : p \in PLive =>
             OpensAs(<<p>>) # "ENOENT" /\ OpensAs(<<p, "status">>) # "ENOENT"

================================================================================
