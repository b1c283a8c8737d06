-------------------------------- MODULE FakeId0 --------------------------------
(***************************************************************************)
(* The fake_id0 extension: the ids of the guests (FakeCreds), and how it   *)
(* lets a guest that is root pass permissions the host user does not have  *)
(* (override_permissions() and restore_mode() of                           *)
(* extension/fake_id0/fake_id0.c).  While PRoot translates a path it gives *)
(* each component it meets the mode it needs; the modes are restored by    *)
(* the destructors of the tracee's memory collector, which get_tracee()    *)
(* empties when it looks the tracee up again (tracee/tracee.c): at the     *)
(* next event of that tracee, or when another tracee asks about it.        *)
(***************************************************************************)
EXTENDS FakeCreds, Sequences

\* A directory and a file in it; a mode lets the host user in or does not.
Dir == "dir"
File == "file"
Node == {Dir, File}
Mode == {"open", "shut"}

VARIABLES mode,       \* the mode of each node, on the host
          nodes,      \* the ModifiedNodes of each tracee's collector, oldest first
          call,       \* the file system call of each tracee
          wanted,     \* the mode the guests have given each node
          alive       \* whether PRoot runs

modeVars == <<mode, nodes, call, wanted, alive>>

Idle == [op |-> "none"]

\* What the host lets its user do under modes m.
Reach(m, p) == p = Dir \/ m[Dir] = "open"

\* chmod(2) by PRoot on the path of a node.
Chmod(m, p, new) == IF Reach(m, p) THEN [m EXCEPT ![p] = new] ELSE m

\* TALLOC_FREE(tracee->ctx): restore_mode() of each node.
Oldest(m, ns) ==
    LET after[i \in 0..Len(ns)] == IF i = 0 THEN m ELSE Chmod(after[i - 1], ns[i][1], ns[i][2])
    IN  after[Len(ns)]

Restored(m, ns) ==
    LET before[i \in 1..Len(ns) + 1] ==
            IF i = Len(ns) + 1 THEN m ELSE Chmod(before[i + 1], ns[i][1], ns[i][2])
    IN  before[1]

\* override_permissions() of one component: the modes and nodes [m, ns].
override_permissions(a, p, is_final, op, new) ==
    IF ~Reach(a.m, p) \/ a.m[p] = "open" \/ (is_final /\ op = "stat") THEN a
    ELSE [m |-> [a.m EXCEPT ![p] = "open"],
          ns |-> Append(a.ns, <<p, IF is_final /\ op = "chmod" THEN new ELSE a.m[p]>>)]

\* HOST_PATH, for each component of p in turn.
Overridden(t, a, p, op, new) ==
    IF creds[t].u.e # 0 \/ "fake_permissions" \in guest THEN a
    ELSE LET dir == override_permissions(a, Dir, p = Dir, op, new)
         IN  IF p = Dir THEN dir ELSE override_permissions(dir, File, TRUE, op, new)

--------------------------------------------------------------------------------
\* The entry of a call on p: get_tracee(), then the translation of the path.
Enter(t, op, p, new) ==
    LET a == Overridden(t, [m |-> Restored(mode, nodes[t]), ns |-> <<>>], p, op, new) IN
    /\ alive /\ "files" \in guest /\ Exists(t) /\ call[t] = Idle
    /\ op = "chmod" => "chmods" \in guest
    /\ "overlap" \in guest \/ \A u \in Tracee : call[u] = Idle
    /\ mode' = a.m
    /\ nodes' = [nodes EXCEPT ![t] = a.ns]
    /\ call' = [call EXCEPT ![t] = [op |-> op, path |-> p, new |-> new, res |-> "pending"]]
    /\ UNCHANGED <<guest, credVars, wanted, alive>>

\* The kernel carries the call out: the owner of a file may always change its mode.
Kernel(t) ==
    LET c == call[t]
        passes == Reach(mode, c.path) /\ (c.op = "use" => mode[c.path] = "open")
    IN  /\ c # Idle /\ c.res = "pending"
        /\ call' = [call EXCEPT ![t].res = IF passes THEN "ok" ELSE "EACCES"]
        /\ mode' = IF passes /\ c.op = "chmod" THEN [mode EXCEPT ![c.path] = c.new] ELSE mode
        /\ wanted' = IF passes /\ c.op = "chmod" THEN [wanted EXCEPT ![c.path] = c.new] ELSE wanted
        /\ UNCHANGED <<guest, credVars, nodes, alive>>

\* Its exit, or any other event of the tracee, its death included: get_tracee().
Leave(t) ==
    /\ alive /\ call[t] # Idle /\ call[t].res # "pending"
    /\ mode' = Restored(mode, nodes[t])
    /\ nodes' = [nodes EXCEPT ![t] = <<>>]
    /\ call' = [call EXCEPT ![t] = Idle]
    /\ UNCHANGED <<guest, credVars, wanted, alive>>

\* A handler of another tracee looks this one up: ptrace(2), wait(2), /proc/PID, SO_PEERCRED.
Lookup(t, u) ==
    /\ alive /\ "lookups" \in guest /\ t # u /\ Exists(t) /\ nodes[u] # <<>>
    /\ mode' = Restored(mode, nodes[u])
    /\ nodes' = [nodes EXCEPT ![u] = <<>>]
    /\ UNCHANGED <<guest, credVars, call, wanted, alive>>

\* PRoot is killed, with PTRACE_O_EXITKILL or not: nothing more is restored.
Crash ==
    /\ alive /\ "crashes" \in guest
    /\ alive' = FALSE
    /\ nodes' = [t \in Tracee |-> <<>>]
    /\ UNCHANGED <<guest, credVars, mode, call, wanted>>

ModesInit ==
    /\ mode \in (IF "files" \in guest THEN [Node -> Mode] ELSE {[p \in Node |-> "open"]})
    /\ wanted = mode
    /\ nodes = [t \in Tracee |-> <<>>]
    /\ call = [t \in Tracee |-> Idle]
    /\ alive = TRUE

ModesNext ==
    \/ \E t \in Tracee :
          \/ \E op \in {"use", "stat"}, p \in Node : Enter(t, op, p, "open")
          \/ \E p \in Node, new \in Mode : Enter(t, "chmod", p, new)
          \/ Kernel(t) \/ Leave(t)
          \/ \E u \in Tracee : Lookup(t, u)
    \/ Crash

--------------------------------------------------------------------------------
vars == <<guest, credVars, modeVars>>

Init ==
    /\ guest \in Guests
    /\ \E id \in Id : CredsInit(id)
    /\ ModesInit

Next ==
    \/ CredsNext /\ UNCHANGED modeVars
    \/ ModesNext

Spec == Init /\ [][Next]_vars

IdRecord == [r : Id, e : Id, s : Id, fs : Id]

\* The state is well typed; a collector holds a node for each component at most.
TypeOK ==
    /\ guest \in SUBSET Habits
    /\ \A t \in Tracee : Exists(t) =>
          creds[t] \in [u : IdRecord, g : IdRecord, caps : BOOLEAN, keep : BOOLEAN]
    /\ mode \in [Node -> Mode] /\ wanted \in [Node -> Mode]
    /\ \A t \in Tracee : Len(nodes[t]) <= 2

\* MAYBE_DROP_CAPS() at every path through the macros, and the assignments at execve(2): the
\* fake CAP_SETUID is there exactly as long as one of the user ids is root's.  Only
\* PR_SET_KEEPCAPS lets it outlive them.
CapsFollowRoot ==
    \A t \in Tracee : Exists(t) =>
       /\ Root(creds[t].u) => creds[t].caps
       /\ creds[t].caps => Root(creds[t].u) \/ "keepcaps" \in guest

\* What a tracee that has dropped its privileges cannot do.
Dropped(c) == ~Root(c.u) /\ ~c.caps
IdSet(x) == {x.r, x.e, x.s}

\* A step of t, or of another tracee, from which t has no id it had not before.
Moves(t) ==
    /\ Dropped(creds'[t])
    /\ IdSet(creds'[t].u) \subseteq IdSet(creds[t].u)
    /\ IdSet(creds'[t].g) \subseteq IdSet(creds[t].g)

\* Dropping is for good: whatever sequence of calls a tracee without root among its user ids
\* and without CAP_SETUID makes, it only moves among the ids it has, until it executes a
\* set-user-id or set-group-id program; what another tracee calls does not change it.
DroppedForGood ==
    [][\A t \in Tracee : Exists(t) /\ Dropped(creds[t]) =>
          Moves(t) \/ \E suid, sgid \in BOOLEAN : (suid \/ sgid) /\ Execve(t, suid, sgid)]_vars

\* A guest that leaves its ids only for good, by any mix of setuid(), setreuid() and
\* setresuid(), has at every moment the ids Linux would have given it, the file system id
\* included.
LikeLinux ==
    ForGood => creds[First].u = [r |-> linux.r, e |-> linux.e, s |-> linux.s, fs |-> linux.fs]

\* No two tracees are in file system calls at once, and none asks about another meanwhile.
Apart == guest \intersect {"overlap", "lookups"} = {}

\* "The original permissions are restored": with no node left to restore the host has the
\* modes the guests gave.  With --fake-permissions it always has them, whatever overlaps and
\* even if PRoot is killed.
ModesRestored ==
    \/ "fake_permissions" \notin guest /\ (~Apart \/ "crashes" \in guest)
    \/ (\A t \in Tracee : nodes[t] = <<>>) => mode = wanted

\* "The original permissions are restored through talloc destructors", "The mode restoration
\* works because Talloc destructors are called in reverse order": the same, of two tracees
\* whose calls overlap and change no mode themselves.
OriginalsRestored == (\A t \in Tracee : nodes[t] = <<>>) => mode = wanted

\* A tracee that is root is never denied by a mode, of the node or of the directory it is in.
RootPasses ==
    "fake_permissions" \notin guest /\ Apart =>
        \A t \in Tracee : call[t] # Idle /\ creds[t].u.e = 0 => call[t].res # "EACCES"

================================================================================
