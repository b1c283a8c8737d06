----------------------------- MODULE Supervise ------------------------------
(***************************************************************************)
(* The event loop of tracee/event.c in both its modes, with the supervisor *)
(* of supervise/supervise.c: `proot --supervise` goes on serving commands  *)
(* that `proot --exec` clients send over a socket, also after its first    *)
(* program has ended, until no client and no tracee is left.               *)
(*                                                                         *)
(* PRoot is one thread; guests and clients run beside it.  What a tracee's *)
(* stop means is in SyscallStops and NewChild: here a stop is handled and  *)
(* the tracee goes on, or a new process is held until its creator's event. *)
(***************************************************************************)
EXTENDS Naturals, FiniteSets, FiniteSetsExt

CONSTANTS
    Root,       \* the first process
    Children,   \* pids of processes the guests fork
    NbClients,  \* how many --exec clients there are
    TableSizes, \* values of SUPERVISE_MAX_CLIENTS
    Guest,      \* what the guests do; see Habits
    NULL

(***************************************************************************)
(* "daemonizes": a guest ends before the processes it has forked;          *)
(* "early_fork": the first program forks before the main loop starts.      *)
(***************************************************************************)
Habits == {"daemonizes", "early_fork"}

\* Clients are numbered as they come; the process forked for client c is c too.
Client == 1..NbClients
Proc == {Root} \cup Children \cup Client

ASSUME ProcAssumption ==
    /\ Root \notin Children \cup Client /\ Children \cap Client = {}
    /\ NULL \notin Proc
ASSUME BoundsAssumption ==
    NbClients \in Nat /\ TableSizes \subseteq Nat \ {0} /\ Guest \subseteq Habits

VARIABLES
    pc,         \* "init", "predrain", "top", "poll", "drain", "accept", "wait", "done"
    supervise,  \* the loop is in supervise mode
    proc,       \* what the kernel makes of each process
    forked,     \* forked[p]: the child of p's fork event
    sigchld,    \* SIGCHLD is pending, to be read from the signalfd
    revents,    \* poll() has found the control socket readable
    tracees,    \* the list of tracees
    attached,   \* tracees whose exe is set
    terminated, \* tracees to be freed at the top of the loop
    client,     \* what each client is at
    sup         \* the supervisor's state

vars == <<pc, supervise, proc, forked, sigchld, revents, tracees, attached, terminated,
          client, sup>>

Init ==
    /\ pc = "init" /\ supervise = FALSE
    /\ proc = [p \in Proc |-> IF p = Root THEN "running" ELSE "unborn"]
    /\ forked = [p \in Proc |-> NULL]
    /\ sigchld = FALSE /\ revents = FALSE
    /\ tracees = {Root} /\ attached = {Root} /\ terminated = {}
    /\ client = [c \in Client |-> "idle"]
    /\ \E size \in TableSizes :
          sup = [ exec_clients |-> [i \in 1..size |-> NULL], num_exec_clients |-> 0,
                  ctl_fd |-> FALSE, ctl_fd_global |-> FALSE, sig_fd_global |-> FALSE,
                  open |-> {}, double_close |-> FALSE, log |-> FALSE ]

(***************************************************************************)
(* The guests.  SIGCHLD is ignored until supervise_init() blocks it.       *)
(***************************************************************************)
Signalled == sigchld' = (sigchld \/ supervise)
GuestVars == <<pc, supervise, revents, tracees, attached, terminated, client, sup>>

Stop(p) ==
    /\ proc[p] = "running" /\ pc # "done"
    /\ proc' = [proc EXCEPT ![p] = "stopped"]
    /\ Signalled /\ UNCHANGED <<GuestVars, forked>>

Fork(p, c) ==
    /\ proc[p] = "running" /\ proc[c] = "unborn" /\ pc # "done"
    /\ pc \in {"init", "predrain"} => "early_fork" \in Guest
    /\ proc' = [proc EXCEPT ![p] = "forkstop", ![c] = "stopped"]
    /\ forked' = [forked EXCEPT ![p] = c]
    /\ Signalled /\ UNCHANGED GuestVars

Exit(p) ==
    /\ proc[p] = "running" /\ pc # "done"
    /\ \/ "daemonizes" \in Guest
       \/ p \in Children
       \/ \A c \in Children : proc[c] \in {"unborn", "reaped"}
    /\ proc' = [proc EXCEPT ![p] = "zombie"]
    /\ Signalled /\ UNCHANGED <<GuestVars, forked>>

\* exec_connect(): a client that finds no socket looks for the exit log.
Connect(c) ==
    /\ client[c] = "idle" /\ (c > 1 => client[c - 1] # "idle")
    /\ client' = [client EXCEPT ![c] = IF "ctl" \in sup.open THEN "connected"
                                       ELSE IF sup.log THEN "told by log" ELSE "no target"]
    /\ UNCHANGED <<pc, supervise, proc, forked, sigchld, revents, tracees, attached, terminated, sup>>

(***************************************************************************)
(* supervise.c, as functions of the supervisor's state                     *)
(***************************************************************************)
Close(s, fd) == [s EXCEPT !.open = @ \ {fd}, !.double_close = @ \/ fd \notin s.open]

Slot(s) == DOMAIN s.exec_clients

\* The slots in use, as num_exec_clients has it.
Active(s) == { i \in 1..s.num_exec_clients : s.exec_clients[i] # NULL }
FreeSlots(s) == { i \in Slot(s) : s.exec_clients[i] = NULL }

add_client(s, c) ==
    LET i == Min(FreeSlots(s))
    IN  [s EXCEPT !.exec_clients[i] = c,
                  !.num_exec_clients = IF i > @ THEN i ELSE @]

\* Wrong variant: num_exec_clients only ever grows.
remove_client_no_shrink(s, i) == [s EXCEPT !.exec_clients[i] = NULL]

remove_client(s, i) ==
    LET left == Active(s) \ {i}
    IN  [s EXCEPT !.exec_clients[i] = NULL,
                  !.num_exec_clients = IF i < @ THEN @ ELSE IF left = {} THEN 0 ELSE Max(left)]

\* supervise_fini(): what is still open, as the global copies have it.
supervise_fini(s) ==
    LET freed == [s EXCEPT !.exec_clients = [i \in Slot(s) |-> NULL], !.num_exec_clients = 0]
        ctl == IF s.ctl_fd_global THEN [Close(freed, "ctl") EXCEPT !.ctl_fd_global = FALSE] ELSE freed
    IN  IF s.sig_fd_global THEN [Close(ctl, "sig") EXCEPT !.sig_fd_global = FALSE] ELSE ctl

\* supervise_tracee_exited(): the slot of the tracee's client, if it has one.
ClientSlot(s, p) == { i \in Active(s) : s.exec_clients[i] = p }
supervise_tracee_exited(s, p) ==
    IF ClientSlot(s, p) = {} THEN s ELSE remove_client(s, Min(ClientSlot(s, p)))

\* The exit of the first program: it is logged, and no more client accepted.
RootExited(s) ==
    IF s.ctl_fd THEN [Close(s, "ctl") EXCEPT !.ctl_fd = FALSE, !.ctl_fd_global = FALSE, !.log = TRUE]
    ELSE [s EXCEPT !.log = TRUE]

\* What the clients see when the sockets of s become those of t: an answer
\* for the one whose slot is i, the end of the connection for the others.
Told(s, t, i) ==
    client' = [c \in Client |->
        CASE i # NULL /\ s.exec_clients[i] = c -> "answered"
          [] client[c] = "connected" /\ "ctl" \notin t.open -> "closed"
          [] client[c] = "accepted" /\ \A j \in Slot(t) : t.exec_clients[j] # c -> "closed"
          [] OTHER -> client[c]]

-----------------------------------------------------------------------------
(***************************************************************************)
(* The event loop                                                          *)
(***************************************************************************)

\* supervise_init(), which may fail: PRoot then goes on in normal mode.
SuperviseInit ==
    /\ pc = "init" /\ pc' = "predrain"
    /\ supervise' \in BOOLEAN
    /\ sup' = IF supervise'
              THEN [sup EXCEPT !.ctl_fd = TRUE, !.ctl_fd_global = TRUE, !.sig_fd_global = TRUE,
                               !.open = {"ctl", "sig"}]
              ELSE sup
    /\ UNCHANGED <<proc, forked, sigchld, revents, tracees, attached, terminated, client>>

\* What waitpid() can report.
Waitable == { p \in Proc : proc[p] \in {"stopped", "forkstop", "zombie"} }

\* handle_tracee_event() and restart_tracee() for a tracee of the list.
Handle(p) ==
    LET c == forked[p]
    IN  /\ proc' =
             CASE proc[p] = "zombie" -> [proc EXCEPT ![p] = "reaped"]
               [] proc[p] = "stopped" ->
                    [proc EXCEPT ![p] = IF p \in attached THEN "running" ELSE "held"]
               [] proc[p] = "forkstop" ->
                    [proc EXCEPT ![p] = "running",
                                 ![c] = IF proc[c] = "held" THEN "running" ELSE @]
        /\ attached' = attached \cup (IF proc[p] = "forkstop" THEN {c} ELSE {})
        /\ tracees' = tracees \cup {p} \cup (IF proc[p] = "forkstop" THEN {c} ELSE {})
        /\ terminated' = terminated \cup (IF proc[p] = "zombie" THEN {p} ELSE {})
        /\ UNCHANGED <<supervise, forked, sigchld, revents>>

\* supervise_handle_exited_tracee(), where `more` is the place the loop goes on from.
supervise_handle_exited_tracee(p, more) ==
    LET slot == ClientSlot(sup, p)
        s1 == supervise_tracee_exited(sup, p)
        s2 == IF p = Root THEN RootExited(s1) ELSE s1
        over == s2.num_exec_clients = 0 /\ ~s2.ctl_fd
        s3 == IF over THEN supervise_fini(s2) ELSE s2
        left == tracees \ (terminated \cup {p})
        ends == over /\ left = {}
    IN  /\ sup' = s3
        /\ Told(sup, s3, IF slot = {} THEN NULL ELSE Min(slot))
        /\ pc' = IF ends THEN "done" ELSE more
        /\ IF over THEN /\ tracees' = left /\ attached' = attached \cap left /\ terminated' = {}
           ELSE /\ tracees' = tracees \cup {p} /\ terminated' = terminated \cup {p}
                /\ UNCHANGED attached

\* The end of a tracee in supervise mode.
Ended(p, more) ==
    /\ proc' = [proc EXCEPT ![p] = "reaped"]
    /\ supervise_handle_exited_tracee(p, more)
    /\ UNCHANGED <<supervise, forked, sigchld, revents>>

\* The drain before the loop: events of unknown processes are dropped.
PreDrain(p) ==
    /\ pc = "predrain" /\ p \in Waitable
    /\ IF p \notin tracees
       THEN /\ proc' = [proc EXCEPT ![p] = IF @ = "zombie" THEN "reaped" ELSE "lost"]
            /\ UNCHANGED <<pc, supervise, forked, sigchld, revents, tracees, attached, terminated,
                           client, sup>>
       ELSE IF supervise /\ proc[p] = "zombie" THEN Ended(p, "predrain")
       ELSE Handle(p) /\ UNCHANGED <<pc, client, sup>>

PreDrainEnds ==
    /\ pc = "predrain" /\ Waitable = {} /\ pc' = "top"
    /\ UNCHANGED <<supervise, proc, forked, sigchld, revents, tracees, attached, terminated,
                   client, sup>>

\* The top of the loop: free_terminated_tracees().
Top ==
    /\ pc = "top"
    /\ tracees' = tracees \ terminated /\ attached' = attached \ terminated /\ terminated' = {}
    /\ pc' = IF supervise THEN "poll" ELSE "wait"
    /\ UNCHANGED <<supervise, proc, forked, sigchld, revents, client, sup>>

Backlog == { c \in Client : client[c] = "connected" }

\* Wrong variant: the control socket is looked at only after a SIGCHLD.
Poll_signals_only ==
    /\ pc = "poll" /\ "sig" \in sup.open /\ sigchld
    /\ revents' = (sup.ctl_fd /\ Backlog # {})
    /\ sigchld' = FALSE /\ pc' = "drain"
    /\ UNCHANGED <<supervise, proc, forked, tracees, attached, terminated, client, sup>>

\* poll() on the signalfd and, while it is open, on the control socket; it
\* returns at once, with POLLNVAL, if a descriptor has been closed.
Poll ==
    /\ pc = "poll"
    /\ LET sig == "sig" \in sup.open /\ sigchld
           ctl == sup.ctl_fd /\ Backlog # {}
       IN  /\ sig \/ ctl \/ "sig" \notin sup.open
           /\ revents' = ctl
           /\ sigchld' = (sigchld /\ ~sig)
           /\ pc' = IF sig THEN "drain" ELSE IF ctl THEN "accept" ELSE "top"
    /\ UNCHANGED <<supervise, proc, forked, tracees, attached, terminated, client, sup>>

\* poll() fails for good: everything is killed and freed.
PollFails ==
    /\ pc = "poll" /\ pc' = "done"
    /\ proc' = [p \in Proc |-> IF proc[p] = "unborn" THEN "unborn" ELSE "reaped"]
    /\ tracees' = {} /\ attached' = {} /\ terminated' = {}
    /\ sup' = supervise_fini(sup)
    /\ Told(sup, supervise_fini(sup), NULL)
    /\ UNCHANGED <<supervise, forked, sigchld, revents>>

\* One turn of the WNOHANG loop.
Drain(p) ==
    /\ pc = "drain" /\ p \in Waitable
    /\ IF proc[p] = "zombie" THEN Ended(p, "drain") ELSE Handle(p) /\ UNCHANGED <<pc, client, sup>>

DrainEnds ==
    /\ pc = "drain" /\ Waitable = {}
    /\ pc' = IF sup.ctl_fd /\ revents THEN "accept" ELSE "top"
    /\ UNCHANGED <<supervise, proc, forked, sigchld, revents, tracees, attached, terminated,
                   client, sup>>

\* One turn of the normal mode, which ends with the last process.
Wait(p) ==
    /\ pc = "wait" /\ p \in Waitable
    /\ Handle(p) /\ pc' = "top" /\ UNCHANGED <<client, sup>>

NoChild ==
    /\ pc = "wait" /\ \A p \in Proc : proc[p] \in {"unborn", "reaped"}
    /\ pc' = "done"
    /\ UNCHANGED <<supervise, proc, forked, sigchld, revents, tracees, attached, terminated,
                   client, sup>>

(***************************************************************************)
(* supervise_accept_client()                                               *)
(***************************************************************************)

\* The connection is closed without a process having been forked: a bad or
\* late request, --proc-limit, a failed fork.
Refuse(c) ==
    /\ pc = "accept" /\ c \in Backlog
    /\ pc' = "top"
    /\ client' = [client EXCEPT ![c] = "closed"]
    /\ UNCHANGED <<supervise, proc, forked, sigchld, revents, tracees, attached, terminated, sup>>

\* The request is served: a child is forked and inherits from the first
\* tracee, and the client waits in a slot.
Accept(c) ==
    /\ pc = "accept" /\ c \in Backlog /\ FreeSlots(sup) # {}
    /\ pc' = "top"
    /\ proc' = [proc EXCEPT ![c] = "running"]
    /\ tracees' = tracees \cup {c} /\ attached' = attached \cup {c}
    /\ sup' = add_client(sup, c)
    /\ client' = [client EXCEPT ![c] = "accepted"]
    /\ UNCHANGED <<supervise, forked, sigchld, revents, terminated>>

\* No slot is left: the child just forked is killed and reaped.
TooManyClients(c) ==
    /\ pc = "accept" /\ c \in Backlog /\ FreeSlots(sup) = {}
    /\ pc' = "top"
    /\ proc' = [proc EXCEPT ![c] = "reaped"]
    /\ tracees' = tracees \cup {c} /\ attached' = attached \cup {c}
    /\ terminated' = terminated \cup {c}
    /\ client' = [client EXCEPT ![c] = "closed"]
    /\ sigchld' = TRUE
    /\ UNCHANGED <<supervise, forked, revents, sup>>

-----------------------------------------------------------------------------
WaitFor(p) == PreDrain(p) \/ Drain(p) \/ Wait(p)
Loop == SuperviseInit \/ PreDrainEnds \/ Top \/ Poll \/ DrainEnds \/ NoChild
Serve(c) == Refuse(c) \/ Accept(c) \/ TooManyClients(c)

Next ==
    \/ \E p \in Proc : Stop(p)
    \/ \E p \in Proc, c \in Children : Fork(p, c)
    \/ \E p \in Proc : Exit(p)
    \/ \E c \in Client : Connect(c)
    \/ Loop
    \/ \E p \in Proc : WaitFor(p)
    \/ PollFails
    \/ \E c \in Client : Serve(c)

Spec == Init /\ [][Next]_vars

(***************************************************************************)
(* PRoot keeps going round its loop, and waitpid() neglects no tracee for  *)
(* ever.  Nothing is assumed of the guests and of the clients.             *)
(***************************************************************************)
FairSpec ==
    /\ Spec
    /\ WF_vars(Loop \/ \E c \in Client : Serve(c))
    /\ \A p \in Proc : SF_vars(WaitFor(p))

-----------------------------------------------------------------------------
(***************************************************************************)
(* Properties                                                              *)
(***************************************************************************)

\* Every variable has its type.
TypeOK ==
    /\ pc \in {"init", "predrain", "top", "poll", "drain", "accept", "wait", "done"}
    /\ supervise \in BOOLEAN /\ sigchld \in BOOLEAN /\ revents \in BOOLEAN
    /\ proc \in [Proc -> {"unborn", "running", "stopped", "forkstop", "held", "lost", "zombie",
                           "reaped"}]
    /\ forked \in [Proc -> Children \cup {NULL}]
    /\ attached \subseteq tracees /\ tracees \subseteq Proc /\ terminated \subseteq tracees
    /\ client \in [Client -> {"idle", "connected", "accepted", "answered", "closed",
                              "told by log", "no target"}]
    /\ sup \in [ exec_clients : UNION { [1..n -> Client \cup {NULL}] : n \in TableSizes },
                 num_exec_clients : 0..Max(TableSizes),
                 ctl_fd : BOOLEAN, ctl_fd_global : BOOLEAN, sig_fd_global : BOOLEAN,
                 open : SUBSET {"ctl", "sig"}, double_close : BOOLEAN, log : BOOLEAN ]

\* num_exec_clients, by which the supervisor decides that nobody waits any
\* more, is the highest slot in use, in whatever order clients come and go.
SlotsCounted ==
    /\ \A i \in Slot(sup) : sup.exec_clients[i] # NULL => i <= sup.num_exec_clients
    /\ sup.num_exec_clients # 0 => sup.exec_clients[sup.num_exec_clients] # NULL

\* supervise_accept_client() never uses a first tracee that has been freed,
\* also when that one ended before the loop, or in the drain that follows the
\* poll() which saw the connection (event.c:445-452).
RootListedAtAccept == pc = "accept" => Root \in tracees

\* No descriptor is closed twice (supervise.c:352-355): the loop and
\* supervise_fini() each have a copy of the control socket's.
NoDoubleClose == ~sup.double_close

\* A client is answered when its process has ended, and no sooner; until then
\* it is in the slot of that process.
AnsweredAtExit ==
    \A c \in Client :
        /\ client[c] = "answered" => proc[c] = "reaped"
        /\ client[c] = "accepted" =>
               /\ proc[c] # "reaped"
               /\ \E i \in Active(sup) : sup.exec_clients[i] = c

\* Whatever happens to a tracee, PRoot sees it, and a new process that is held
\* is released, in both modes, as long as the supervisor has its signalfd.
EveryEventHandled ==
    \A p \in Proc : proc[p] \in {"stopped", "forkstop", "held", "lost", "zombie"}
                    ~> (proc[p] \in {"running", "reaped"} \/ (supervise /\ "sig" \notin sup.open))

\* "When tracees remain, keep looping: the WNOHANG drain reaps them (or the
\* next poll() blocks, so there is no busy loop) until the last one exits"
\* (event.c:297-300): every tracee that ends is reaped.
RemainingAreReaped ==
    \A p \in Proc : proc[p] = "zombie" ~> proc[p] = "reaped"

\* A client that has got through to the supervisor is served or sent away,
\* unless the tracees keep it busy all the time.
ClientServed ==
    []<>(pc \notin {"predrain", "drain"}) => \A c \in Client : client[c] = "connected" ~> client[c] # "connected"

\* PRoot ends once the first program has ended and nothing runs any more.
SupervisorEnds ==
    (\A p \in Proc : proc[p] \in {"unborn", "zombie", "reaped"})
        ~> (pc = "done" \/ (supervise /\ "sig" \notin sup.open) \/ \E p \in Proc : proc[p] = "running")

=============================================================================
