------------------------------- MODULE FakeCreds -------------------------------
(***************************************************************************)
(* The ids fake_id0 makes the guests believe they have                     *)
(* (extension/fake_id0/fake_id0.c, config.h).  setuid(2) and its family    *)
(* are emulated on the Config of the tracee, at the exit of the call or,   *)
(* where the outer seccomp policy traps it, in place of the call.          *)
(***************************************************************************)
EXTENDS Integers, FiniteSets

CONSTANTS Tracee,     \* the tracees
          Id,         \* the user and group ids, 0 among them
          Guests      \* what guests there are: sets of habits

Unset == -1

ASSUME IdAssumption == 0 \in Id /\ Unset \notin Id
ASSUME TraceeAssumption == Tracee # {}

Habits == {"uids", "gids",  \* which family of calls the guest uses
           "forks",         \* it has children that go on with it
           "execs",         \* it executes programs, some of them set-user-id
           "keepcaps",      \* it uses prctl(PR_SET_KEEPCAPS)
           "temporary",     \* it lowers its effective id to raise it again
           "fsids",         \* it uses setfsuid(2) and setfsgid(2)
           "partly",        \* it uses setreuid(2) with -1 for the effective id, or
                            \* both arguments taken from other ids
           "files", "chmods", "overlap", "lookups", "crashes", "fake_permissions"}

VARIABLES guest,      \* the habits of this behaviour
          creds,      \* the Config of each tracee; None before it exists
          linux       \* what the ids of the first tracee would be on Linux

credVars == <<creds, linux>>

None == [caps |-> FALSE]
First == CHOOSE t \in Tracee : TRUE
Ids(id) == [r |-> id, e |-> id, s |-> id, fs |-> id]

Exists(t) == creds[t] # None

Privileged(c) == c.u.e = 0 \/ c.caps
Root(u) == 0 \in {u.r, u.e, u.s}
EqualsAny(id, x) == id \in {x.r, x.e, x.s}
Unchanged(id, old) == id \in {Unset, old}

Set(id, old) == IF id = Unset THEN old ELSE id

\* The four macros: the ids afterwards, or Refused.
Refused == [r |-> Unset]

setxid(x, p, id) ==
    IF ~(p \/ EqualsAny(id, x)) THEN Refused
    ELSE IF p THEN Ids(id) ELSE [x EXCEPT !.e = id, !.fs = id]

setrexid_saved(x, p, r, e) ==
    LET allowed == \/ p
                   \/ Unchanged(e, x.e) /\ Unchanged(r, x.r)
                   \/ r = x.e /\ (e = x.r \/ Unchanged(e, x.e))
                   \/ e = x.r /\ (r = x.e \/ Unchanged(r, x.r))
                   \/ e = x.s /\ Unchanged(r, x.r)
    IN  IF ~allowed THEN Refused
        ELSE [r |-> Set(r, x.r), e |-> Set(e, x.e), fs |-> Set(e, x.fs),
              s |-> IF e # Unset /\ e # x.r THEN e ELSE x.s]

setrexid(x, p, r, e) ==
    LET allowed == \/ p
                   \/ Unchanged(e, x.e) /\ Unchanged(r, x.r)
                   \/ r = x.e /\ (e = x.r \/ Unchanged(e, x.e))
                   \/ e = x.r /\ (r = x.e \/ Unchanged(r, x.r))
                   \/ e = x.s /\ Unchanged(r, x.r)
    IN  IF ~allowed THEN Refused
        ELSE [r |-> Set(r, x.r), e |-> Set(e, x.e), fs |-> Set(e, x.fs),
              s |-> IF e # Unset /\ (e # x.r \/ r # Unset) THEN e ELSE x.s]

setresxid_each(x, p, r, e, s) ==
    LET may(id) == id = Unset \/ EqualsAny(id, x) IN
    IF p \/ may(r) \/ may(e) \/ may(s)
    THEN [r |-> Set(r, x.r), e |-> Set(e, x.e), s |-> Set(s, x.s), fs |-> Set(e, x.fs)]
    ELSE Refused

setresxid(x, p, r, e, s) ==
    IF p \/ \A id \in {r, e, s} : id = Unset \/ EqualsAny(id, x)
    THEN [r |-> Set(r, x.r), e |-> Set(e, x.e), s |-> Set(s, x.s), fs |-> Set(e, x.fs)]
    ELSE Refused

setfsxid(x, p, fs) == IF p \/ fs = x.fs \/ EqualsAny(fs, x) THEN [x EXCEPT !.fs = fs] ELSE x

\* MAYBE_DROP_CAPS: root has gone from all the user ids.
caps_after(c, u) == c.caps /\ (c.keep \/ ~Root(c.u) \/ Root(u))

WithUids(c, u) ==
    IF u = Refused THEN c ELSE [c EXCEPT !.u = u, !.caps = caps_after(c, u)]
WithGids(c, g) == IF g = Refused THEN c ELSE [c EXCEPT !.g = g, !.caps = caps_after(c, c.u)]

--------------------------------------------------------------------------------
(* What Linux does for setuid(2) and its family: the reference the         *)
(* emulation is compared with.  Credentials are the real, effective, saved *)
(* and file system ids, and whether CAP_SETUID is permitted and effective. *)

\* cap_emulate_setxuid(): from one set of ids to the next.
Capabilities(c, ids, keep) ==
    LET lost == /\ 0 \in {c.r, c.e, c.s} /\ 0 \notin {ids.r, ids.e, ids.s} /\ ~keep
        permitted == c.permitted /\ ~lost
    IN  [r |-> ids.r, e |-> ids.e, s |-> ids.s, fs |-> ids.fs,
         permitted |-> permitted,
         effective |-> /\ permitted
                       /\ CASE c.e = 0 /\ ids.e # 0 -> FALSE
                            [] c.e # 0 /\ ids.e = 0 -> TRUE
                            [] OTHER -> c.effective]

LinuxSetuid(c, id, keep) ==
    IF c.effective THEN Capabilities(c, [r |-> id, e |-> id, s |-> id, fs |-> id], keep)
    ELSE IF id \in {c.r, c.s} THEN Capabilities(c, [r |-> c.r, e |-> id, s |-> c.s, fs |-> id], keep)
    ELSE c

LinuxSetreuid(c, r, e, keep) ==
    LET re == [r |-> Set(r, c.r), e |-> Set(e, c.e)] IN
    IF c.effective \/ (r \in {Unset, c.r, c.e} /\ e \in {Unset, c.r, c.e, c.s})
    THEN Capabilities(c, [r |-> re.r, e |-> re.e, fs |-> re.e,
                          s |-> IF r # Unset \/ (e # Unset /\ e # c.r) THEN re.e ELSE c.s], keep)
    ELSE c

LinuxSetresuid(c, r, e, s, keep) ==
    IF c.effective \/ {r, e, s} \subseteq {Unset, c.r, c.e, c.s}
    THEN Capabilities(c, [r |-> Set(r, c.r), e |-> Set(e, c.e), s |-> Set(s, c.s),
                          fs |-> Set(e, c.e)], keep)
    ELSE c

--------------------------------------------------------------------------------
\* The guest leaves its ids for good only, by setuid(2), setreuid(2) and setresuid(2).
ForGood == guest \intersect {"temporary", "partly", "fsids", "execs", "keepcaps"} = {}

\* A call leaves the tracee with Config c, and on Linux it would have been l.
Becomes(t, c, l) ==
    /\ creds' = [creds EXCEPT ![t] = c]
    /\ linux' = IF t = First /\ ForGood THEN l ELSE linux

\* A call that leaves root in one of the ids but not the effective one.
Temporary(u) == u # Refused /\ Root(u) /\ u.e # 0

Uids(t, u, l) ==
    /\ "uids" \in guest /\ Exists(t)
    /\ "temporary" \in guest \/ ~Temporary(u)
    /\ Becomes(t, WithUids(creds[t], u), l)
    /\ UNCHANGED guest

Gids(t, g) ==
    /\ "gids" \in guest /\ Exists(t)
    /\ Becomes(t, WithGids(creds[t], g), linux)
    /\ UNCHANGED guest

Setuid(t, id) ==
    Uids(t, setxid(creds[t].u, Privileged(creds[t]), id), LinuxSetuid(linux, id, creds[t].keep))

Setreuid(t, r, e) ==
    /\ Exists(t)
    /\ "partly" \in guest \/ (e # Unset /\ (r = Unset \/ r = creds[t].u.r \/ e # creds[t].u.s))
    /\ Uids(t, setrexid(creds[t].u, Privileged(creds[t]), r, e),
            LinuxSetreuid(linux, r, e, creds[t].keep))

Setresuid(t, r, e, s) ==
    Uids(t, setresxid(creds[t].u, Privileged(creds[t]), r, e, s),
         LinuxSetresuid(linux, r, e, s, creds[t].keep))

Setfsuid(t, fs) ==
    /\ "fsids" \in guest
    /\ Uids(t, setfsxid(creds[t].u, Privileged(creds[t]), fs), linux)

Setgid(t, id) == Gids(t, setxid(creds[t].g, Privileged(creds[t]), id))
Setregid(t, r, e) == Gids(t, setrexid(creds[t].g, Privileged(creds[t]), r, e))
Setresgid(t, r, e, s) == Gids(t, setresxid(creds[t].g, Privileged(creds[t]), r, e, s))
Setfsgid(t, fs) ==
    /\ "fsids" \in guest
    /\ Gids(t, setfsxid(creds[t].g, Privileged(creds[t]), fs))

\* prctl(PR_SET_KEEPCAPS) has succeeded.
Keepcaps(t, keep) ==
    /\ "keepcaps" \in guest /\ Exists(t)
    /\ Becomes(t, [creds[t] EXCEPT !.keep = keep], linux)
    /\ UNCHANGED guest

\* execve(2) has succeeded, of a program with these bits.
WithBit(x, bit) == IF bit THEN [x EXCEPT !.e = 0, !.s = 0] ELSE x

Execve(t, suid, sgid) ==
    /\ "execs" \in guest /\ Exists(t)
    /\ Becomes(t, [u |-> WithBit(creds[t].u, suid), g |-> WithBit(creds[t].g, sgid),
                   caps |-> creds[t].caps \/ suid, keep |-> FALSE], linux)
    /\ UNCHANGED guest

\* INHERIT_CHILD: a child, or a thread, has a copy.
Fork(t, u) ==
    /\ "forks" \in guest /\ Exists(t) /\ ~Exists(u)
    /\ Becomes(u, creds[t], linux)
    /\ UNCHANGED guest

\* INITIALIZATION, with -0 or -i.
NewConfig(id) == [u |-> Ids(id), g |-> Ids(id), caps |-> id = 0, keep |-> FALSE]

CredsInit(id) ==
    /\ creds = [t \in Tracee |-> IF t = First THEN NewConfig(id) ELSE None]
    /\ linux = [r |-> id, e |-> id, s |-> id, fs |-> id, permitted |-> id = 0, effective |-> id = 0]

Opt == Id \union {Unset}

CredsNext ==
    \E t \in Tracee :
       \/ \E id \in Id : Setuid(t, id) \/ Setfsuid(t, id) \/ Setgid(t, id) \/ Setfsgid(t, id)
       \/ \E r, e \in Opt : Setreuid(t, r, e) \/ Setregid(t, r, e)
       \/ \E r, e, s \in Opt : Setresuid(t, r, e, s) \/ Setresgid(t, r, e, s)
       \/ \E keep \in BOOLEAN : Keepcaps(t, keep)
       \/ \E suid, sgid \in BOOLEAN : Execve(t, suid, sgid)
       \/ \E u \in Tracee : Fork(t, u)

================================================================================
