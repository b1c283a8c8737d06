----------------------------- MODULE FakeId0Proofs -----------------------------
(***************************************************************************)
(* For any set of ids, any number of tracees and any guest: the emulation  *)
(* of the setuid() family keeps what a drop of privileges promises, gives  *)
(* a guest that drops them for good the ids of Linux, and the modes that   *)
(* PRoot overrides for a file system call are restored after it.           *)
(***************************************************************************)
EXTENDS FakeId0, TLAPS

\* Time limits of the provers, for every leaf below.
USE ZenonT(30), SMTT(30)

Config == [u : IdRecord, g : IdRecord, caps : BOOLEAN, keep : BOOLEAN]

\* The configs are well typed, and PR_SET_KEEPCAPS is set only by guests that use it.
CredsOK ==
    /\ creds \in [Tracee -> Config \union {None}]
    /\ \A t \in Tracee : Exists(t) => (creds[t].keep => "keepcaps" \in guest)

\* What each macro gives: ids, and without privileges only ids the tracee had.
Fair(y, x, p) == y = Refused \/ (y \in IdRecord /\ (p \/ IdSet(y) \subseteq IdSet(x)))

\* SETXID.
LEMMA SetxidFair ==
    ASSUME NEW x \in IdRecord, NEW p \in BOOLEAN, NEW id \in Id
    PROVE  Fair(setxid(x, p, id), x, p)
  BY ZenonT(30) DEF Fair, setxid, IdRecord, IdSet, Ids, EqualsAny

\* SETREXID.
LEMMA SetrexidFair ==
    ASSUME NEW x \in IdRecord, NEW p \in BOOLEAN, NEW r \in Opt, NEW e \in Opt
    PROVE  Fair(setrexid(x, p, r, e), x, p)
  BY DEF Fair, setrexid, IdRecord, IdSet, Set, Opt, Unchanged

\* SETRESXID.
LEMMA SetresxidFair ==
    ASSUME NEW x \in IdRecord, NEW p \in BOOLEAN, NEW r \in Opt, NEW e \in Opt, NEW s \in Opt
    PROVE  Fair(setresxid(x, p, r, e, s), x, p)
  BY DEF Fair, setresxid, IdRecord, IdSet, Set, Opt, EqualsAny

\* SETFSXID.
LEMMA SetfsxidFair ==
    ASSUME NEW x \in IdRecord, NEW p \in BOOLEAN, NEW fs \in Id
    PROVE  Fair(setfsxid(x, p, fs), x, p)
  BY DEF Fair, setfsxid, IdRecord, IdSet

\* The invariant: the types, and CapsFollowRoot.
CredsInv == CredsOK /\ CapsFollowRoot

\* A config is not the record of a tracee that does not exist yet.
LEMMA ConfigNotNone == \A c \in Config : c # None
  BY DEF Config, None

\* What one step keeps: the invariant, and every tracee that has dropped its privileges moves
\* among its ids unless it executes a program that gives it others.
Keeps ==
    /\ CredsInv'
    /\ \A t \in Tracee : Exists(t) /\ Dropped(creds[t]) =>
          Moves(t) \/ \E suid, sgid \in BOOLEAN : (suid \/ sgid) /\ Execve(t, suid, sgid)

\* One tracee becomes c, with ids it may have and the capability as MAYBE_DROP_CAPS leaves it.
LEMMA OneBecomes ==
    ASSUME CredsInv, NEW t \in Tracee, Exists(t), UNCHANGED guest, NEW c \in Config,
           creds' = [creds EXCEPT ![t] = c],
           c.keep => "keepcaps" \in guest,
           Root(c.u) => c.caps,
           c.caps => Root(c.u) \/ "keepcaps" \in guest,
           \/ Dropped(creds[t]) => /\ Dropped(c)
                                   /\ IdSet(c.u) \subseteq IdSet(creds[t].u)
                                   /\ IdSet(c.g) \subseteq IdSet(creds[t].g)
           \/ \E suid, sgid \in BOOLEAN : (suid \/ sgid) /\ Execve(t, suid, sgid)
    PROVE  Keeps
  <1>1. creds' \in [Tracee -> Config \union {None}]
    BY DEF CredsInv, CredsOK
  <1>2. creds'[t] = c /\ \A u \in Tracee \ {t} : creds'[u] = creds[u]
    BY DEF CredsInv, CredsOK
  <1>3. CredsInv'
    BY <1>1, <1>2 DEF CredsInv, CredsOK, CapsFollowRoot, Exists
  <1>4. ASSUME NEW u \in Tracee, Exists(u), Dropped(creds[u])
        PROVE  Moves(u) \/ \E suid, sgid \in BOOLEAN : (suid \/ sgid) /\ Execve(u, suid, sgid)
    <2>1. CASE u = t
      BY <1>2, <1>4, <2>1 DEF Moves
    <2>2. CASE u # t
      BY <1>2, <1>4, <2>2 DEF Moves, IdSet
    <2> QED
      BY <2>1, <2>2
  <1> QED
    BY <1>3, <1>4 DEF Keeps

\* The user ids of a tracee after a call of the family.
LEMMA UidsKeep ==
    ASSUME CredsInv, NEW t \in Tracee, NEW u, NEW l, Exists(t) => Fair(u, creds[t].u, Privileged(creds[t])),
           Uids(t, u, l)
    PROVE  Keeps
  <1> DEFINE c == creds[t]
             d == WithUids(c, u)
  <1>1. /\ Exists(t) /\ UNCHANGED guest /\ creds' = [creds EXCEPT ![t] = d]
        /\ c \in Config /\ (c.keep => "keepcaps" \in guest)
        /\ (Root(c.u) => c.caps) /\ (c.caps => Root(c.u) \/ "keepcaps" \in guest)
    BY DEF Uids, Becomes, CredsInv, CredsOK, CapsFollowRoot, Exists
  <1>2. CASE u = Refused
    <2>1. d = c
      BY <1>2 DEF WithUids
    <2> HIDE DEF d
    <2> QED
      BY ZenonT(30), <1>1, <2>1, OneBecomes DEF IdSet
  <1>3. CASE u # Refused
    <2>1. u \in IdRecord /\ (Privileged(c) \/ IdSet(u) \subseteq IdSet(c.u))
      BY <1>1, <1>3 DEF Fair
    <2>2. d = [u |-> u, g |-> c.g, caps |-> caps_after(c, u), keep |-> c.keep]
      BY ZenonT(30), <1>1, <1>3 DEF WithUids, Config
    <2>3. /\ d \in Config /\ d.keep = c.keep /\ d.u = u /\ d.g = c.g
          /\ d.caps = caps_after(c, u)
      BY <1>1, <2>1, <2>2 DEF Config, caps_after
    <2>4. ~Root(c.u) /\ ~c.caps => ~Privileged(c)
      BY DEF Root, Privileged
    <2>5. IdSet(u) \subseteq IdSet(c.u) /\ ~Root(c.u) => ~Root(u)
      BY DEF IdSet, Root
    <2>6. (Root(u) => d.caps) /\ (d.caps => Root(u) \/ "keepcaps" \in guest)
      BY ZenonT(30), <1>1, <2>1, <2>3, <2>4, <2>5 DEF caps_after
    <2>7. Dropped(c) => Dropped(d) /\ IdSet(d.u) \subseteq IdSet(c.u) /\ IdSet(d.g) \subseteq IdSet(c.g)
      BY ZenonT(30), <2>1, <2>3, <2>4, <2>5 DEF Dropped, caps_after
    <2> HIDE DEF d
    <2> QED
      BY ZenonT(30), <1>1, <2>3, <2>6, <2>7, OneBecomes
  <1> QED
    BY <1>2, <1>3

\* The same of its group ids.
LEMMA GidsKeep ==
    ASSUME CredsInv, NEW t \in Tracee, NEW g, Exists(t) => Fair(g, creds[t].g, Privileged(creds[t])),
           Gids(t, g)
    PROVE  Keeps
  <1> DEFINE c == creds[t]
             d == WithGids(c, g)
  <1>1. /\ Exists(t) /\ UNCHANGED guest /\ creds' = [creds EXCEPT ![t] = d]
        /\ c \in Config /\ (c.keep => "keepcaps" \in guest)
        /\ (Root(c.u) => c.caps) /\ (c.caps => Root(c.u) \/ "keepcaps" \in guest)
    BY DEF Gids, Becomes, CredsInv, CredsOK, CapsFollowRoot, Exists
  <1>2. CASE g = Refused
    <2>1. d = c
      BY <1>2 DEF WithGids
    <2> HIDE DEF d
    <2> QED
      BY ZenonT(30), <1>1, <2>1, OneBecomes DEF IdSet
  <1>3. CASE g # Refused
    <2>1. g \in IdRecord /\ (Privileged(c) \/ IdSet(g) \subseteq IdSet(c.g))
      BY <1>1, <1>3 DEF Fair
    <2>2. caps_after(c, c.u) = c.caps
      BY <1>1 DEF caps_after, Config
    <2>3. d = [u |-> c.u, g |-> g, caps |-> c.caps, keep |-> c.keep]
      BY ZenonT(30), <1>1, <1>3, <2>2 DEF WithGids, Config
    <2>4. /\ d \in Config /\ d.keep = c.keep /\ d.u = c.u /\ d.g = g /\ d.caps = c.caps
      BY <1>1, <2>1, <2>3 DEF Config
    <2>5. Dropped(c) => Dropped(d) /\ IdSet(d.u) \subseteq IdSet(c.u) /\ IdSet(d.g) \subseteq IdSet(c.g)
      BY <2>1, <2>4 DEF Dropped, Root, Privileged
    <2> HIDE DEF d
    <2> QED
      BY ZenonT(30), <1>1, <2>4, <2>5, OneBecomes
  <1> QED
    BY <1>2, <1>3

\* execve(2): only a program with one of the bits gives the tracee ids it had not.
LEMMA ExecveKeeps ==
    ASSUME CredsInv, NEW t \in Tracee, NEW suid \in BOOLEAN, NEW sgid \in BOOLEAN, Execve(t, suid, sgid)
    PROVE  Keeps
  <1> DEFINE c == creds[t]
             d == [u |-> WithBit(c.u, suid), g |-> WithBit(c.g, sgid),
                   caps |-> c.caps \/ suid, keep |-> FALSE]
  <1>1. /\ Exists(t) /\ UNCHANGED guest /\ c \in Config
        /\ (Root(c.u) => c.caps) /\ (c.caps => Root(c.u) \/ "keepcaps" \in guest)
    BY DEF Execve, CredsInv, CredsOK, CapsFollowRoot, Exists
  <1>2. creds' = [creds EXCEPT ![t] = d]
    BY DEF Execve, Becomes
  <1>3. d.u \in IdRecord /\ d.g \in IdRecord
    BY ZenonT(30), <1>1, IdAssumption DEF Config, IdRecord, WithBit
  <1>4. d \in Config
    BY <1>1, <1>3 DEF Config
  <1>5. (Root(d.u) => d.caps) /\ (d.caps => Root(d.u) \/ "keepcaps" \in guest)
    BY <1>1 DEF Root, Config, IdRecord, WithBit
  <1>6. CASE suid \/ sgid
    <2>1. \E x, y \in BOOLEAN : (x \/ y) /\ Execve(t, x, y)
      BY <1>6
    <2>2. ~d.keep
      OBVIOUS
    <2> HIDE DEF d
    <2> QED
      BY ZenonT(30), <1>1, <1>2, <1>4, <1>5, <2>1, <2>2, OneBecomes
  <1>7. CASE ~suid /\ ~sgid
    <2>1. d.u = c.u /\ d.g = c.g /\ d.caps = c.caps /\ ~d.keep
      BY <1>1, <1>7 DEF Config, WithBit
    <2> HIDE DEF d
    <2> QED
      BY ZenonT(30), <1>1, <1>2, <1>4, <1>5, <2>1, OneBecomes DEF Dropped
  <1> QED
    BY <1>6, <1>7

\* INHERIT_CHILD: the child has what its parent has, and did not exist before.
LEMMA ForkKeeps ==
    ASSUME CredsInv, NEW t \in Tracee, NEW u \in Tracee, Fork(t, u)
    PROVE  Keeps
  <1>1. /\ Exists(t) /\ ~Exists(u) /\ UNCHANGED guest /\ creds' = [creds EXCEPT ![u] = creds[t]]
        /\ creds \in [Tracee -> Config \union {None}]
    BY DEF Fork, Becomes, CredsInv, CredsOK
  <1>2. creds'[u] = creds[t] /\ \A x \in Tracee \ {u} : creds'[x] = creds[x]
    BY <1>1
  <1>3. creds' \in [Tracee -> Config \union {None}]
    BY <1>1
  <1>4. CredsInv'
    BY <1>1, <1>2, <1>3 DEF CredsInv, CredsOK, CapsFollowRoot, Exists
  <1>5. ASSUME NEW x \in Tracee, Exists(x), Dropped(creds[x])
        PROVE  Moves(x)
    BY <1>1, <1>2, <1>5 DEF Moves, IdSet
  <1> QED
    BY <1>4, <1>5 DEF Keeps

\* prctl(PR_SET_KEEPCAPS).
LEMMA KeepcapsKeeps ==
    ASSUME CredsInv, NEW t \in Tracee, NEW keep \in BOOLEAN, Keepcaps(t, keep)
    PROVE  Keeps
  <1> DEFINE c == creds[t]
             d == [c EXCEPT !.keep = keep]
  <1>1. /\ Exists(t) /\ "keepcaps" \in guest /\ UNCHANGED guest /\ c \in Config
        /\ creds' = [creds EXCEPT ![t] = d] /\ (Root(c.u) => c.caps)
    BY DEF Keepcaps, Becomes, CredsInv, CredsOK, CapsFollowRoot, Exists
  <1>2. d \in Config /\ d.u = c.u /\ d.g = c.g /\ d.caps = c.caps
    BY <1>1 DEF Config
  <1> HIDE DEF d
  <1> QED
    BY ZenonT(30), <1>1, <1>2, OneBecomes DEF Dropped

\* File system calls leave the ids alone, and no step changes what the guests do.
LEMMA ModesFrame ==
    ASSUME ModesNext PROVE UNCHANGED <<guest, creds, linux>>
  <1>1. ASSUME NEW t \in Tracee, NEW op, NEW q, NEW new, Enter(t, op, q, new)
        PROVE  UNCHANGED <<guest, creds, linux>>
    BY <1>1 DEF Enter, credVars
  <1>2. ASSUME NEW t \in Tracee, Kernel(t) \/ Leave(t)
        PROVE  UNCHANGED <<guest, creds, linux>>
    BY <1>2 DEF Kernel, Leave, credVars
  <1>3. ASSUME NEW t \in Tracee, NEW u \in Tracee, Lookup(t, u)
        PROVE  UNCHANGED <<guest, creds, linux>>
    BY <1>3 DEF Lookup, credVars
  <1>4. ASSUME Crash
        PROVE  UNCHANGED <<guest, creds, linux>>
    BY <1>4 DEF Crash, credVars
  <1> QED
    BY <1>1, <1>2, <1>3, <1>4 DEF ModesNext

LEMMA CredsFrame ==
    ASSUME CredsNext PROVE UNCHANGED guest
  <1>1. ASSUME NEW t \in Tracee, NEW id \in Id,
               Setuid(t, id) \/ Setfsuid(t, id) \/ Setgid(t, id) \/ Setfsgid(t, id)
        PROVE  UNCHANGED guest
    BY <1>1 DEF Setuid, Setfsuid, Setgid, Setfsgid, Uids, Gids
  <1>2. ASSUME NEW t \in Tracee, NEW r \in Opt, NEW e \in Opt, Setreuid(t, r, e) \/ Setregid(t, r, e)
        PROVE  UNCHANGED guest
    BY <1>2 DEF Setreuid, Setregid, Uids, Gids
  <1>3. ASSUME NEW t \in Tracee, NEW r \in Opt, NEW e \in Opt, NEW s \in Opt,
               Setresuid(t, r, e, s) \/ Setresgid(t, r, e, s)
        PROVE  UNCHANGED guest
    BY <1>3 DEF Setresuid, Setresgid, Uids, Gids
  <1>4. ASSUME NEW t \in Tracee, NEW keep \in BOOLEAN, Keepcaps(t, keep)
        PROVE  UNCHANGED guest
    BY <1>4 DEF Keepcaps
  <1>5. ASSUME NEW t \in Tracee, NEW suid \in BOOLEAN, NEW sgid \in BOOLEAN, Execve(t, suid, sgid)
        PROVE  UNCHANGED guest
    BY <1>5 DEF Execve
  <1>6. ASSUME NEW t \in Tracee, NEW u \in Tracee, Fork(t, u)
        PROVE  UNCHANGED guest
    BY <1>6 DEF Fork
  <1> QED
    BY <1>1, <1>2, <1>3, <1>4, <1>5, <1>6 DEF CredsNext

\* Every step keeps the invariant, and what a drop of privileges promises.
LEMMA StepKeeps ==
    ASSUME CredsInv, [Next]_vars
    PROVE  Keeps
  <1>1. ASSUME UNCHANGED <<guest, creds>>
        PROVE  Keeps
    BY <1>1 DEF Keeps, CredsInv, CredsOK, CapsFollowRoot, Exists, Moves, Dropped, IdSet, Root
  <1>2. CASE UNCHANGED vars
    BY <1>1, <1>2 DEF vars, credVars
  <1>3. CASE ModesNext
    BY <1>1, <1>3, ModesFrame
  <1>4. CASE CredsNext
    <2>1. PICK t \in Tracee :
             \/ \E id \in Id : Setuid(t, id) \/ Setfsuid(t, id) \/ Setgid(t, id) \/ Setfsgid(t, id)
             \/ \E r, e \in Opt : Setreuid(t, r, e) \/ Setregid(t, r, e)
             \/ \E r, e, s \in Opt : Setresuid(t, r, e, s) \/ Setresgid(t, r, e, s)
             \/ \E keep \in BOOLEAN : Keepcaps(t, keep)
             \/ \E suid, sgid \in BOOLEAN : Execve(t, suid, sgid)
             \/ \E u \in Tracee : Fork(t, u)
      BY <1>4 DEF CredsNext
    <2> DEFINE c == creds[t]
    <2>2. Exists(t) => c.u \in IdRecord /\ c.g \in IdRecord /\ Privileged(c) \in BOOLEAN
      BY DEF CredsInv, CredsOK, Exists, Config, Privileged
    <2>3. ASSUME NEW id \in Id, Setuid(t, id) PROVE Keeps
      BY <2>2, <2>3, SetxidFair, UidsKeep DEF Setuid
    <2>4. ASSUME NEW id \in Id, Setfsuid(t, id) PROVE Keeps
      BY <2>2, <2>4, SetfsxidFair, UidsKeep DEF Setfsuid
    <2>5. ASSUME NEW id \in Id, Setgid(t, id) PROVE Keeps
      BY <2>2, <2>5, SetxidFair, GidsKeep DEF Setgid
    <2>6. ASSUME NEW id \in Id, Setfsgid(t, id) PROVE Keeps
      BY <2>2, <2>6, SetfsxidFair, GidsKeep DEF Setfsgid
    <2>7. ASSUME NEW r \in Opt, NEW e \in Opt, Setreuid(t, r, e) PROVE Keeps
      BY <2>2, <2>7, SetrexidFair, UidsKeep DEF Setreuid
    <2>8. ASSUME NEW r \in Opt, NEW e \in Opt, Setregid(t, r, e) PROVE Keeps
      BY <2>2, <2>8, SetrexidFair, GidsKeep DEF Setregid
    <2>9. ASSUME NEW r \in Opt, NEW e \in Opt, NEW s \in Opt, Setresuid(t, r, e, s) PROVE Keeps
      BY <2>2, <2>9, SetresxidFair, UidsKeep DEF Setresuid
    <2>10. ASSUME NEW r \in Opt, NEW e \in Opt, NEW s \in Opt, Setresgid(t, r, e, s) PROVE Keeps
      BY <2>2, <2>10, SetresxidFair, GidsKeep DEF Setresgid
    <2> QED
      BY <2>1, <2>3, <2>4, <2>5, <2>6, <2>7, <2>8, <2>9, <2>10, KeepcapsKeeps, ExecveKeeps, ForkKeeps
  <1> QED
    BY <1>2, <1>3, <1>4 DEF Next

\* The first tracee starts with the ids it was given.
LEMMA InitCreds == Init => CredsInv
  <1> SUFFICES ASSUME Init PROVE CredsInv
    OBVIOUS
  <1>1. PICK id \in Id : CredsInit(id)
    BY DEF Init
  <1>2. NewConfig(id) \in Config
    BY DEF NewConfig, Config, IdRecord, Ids
  <1>3. creds \in [Tracee -> Config \union {None}]
    BY <1>1, <1>2 DEF CredsInit
  <1>4. ASSUME NEW t \in Tracee, Exists(t)
        PROVE  /\ ~creds[t].keep
               /\ Root(creds[t].u) <=> creds[t].caps
    <2>1. creds[t] = NewConfig(id)
      BY <1>1, <1>4 DEF CredsInit, Exists
    <2>2. creds[t].u = Ids(id) /\ creds[t].caps = (id = 0) /\ creds[t].keep = FALSE
      BY <2>1 DEF NewConfig
    <2>3. Root(Ids(id)) <=> id = 0
      BY DEF Ids, Root
    <2> QED
      BY ZenonT(30), <2>2, <2>3
  <1> QED
    BY <1>3, <1>4 DEF CredsInv, CredsOK, CapsFollowRoot

\* CapsFollowRoot holds of every behaviour: the fake CAP_SETUID of a tracee lasts exactly as
\* long as root is among its user ids, PR_SET_KEEPCAPS excepted.
THEOREM CapsAlwaysFollowRoot == Spec => []CapsFollowRoot
  <1>1. CredsInv /\ [Next]_vars => CredsInv'
    BY StepKeeps DEF Keeps
  <1>2. CredsInv => CapsFollowRoot
    BY DEF CredsInv
  <1> QED
    BY InitCreds, <1>1, <1>2, PTL DEF Spec

\* A tracee that has dropped its privileges never has an id it had not then, except from a
\* set-user-id or set-group-id program it executes.
THEOREM DropsAreForGood == Spec => DroppedForGood
  <1>1. CredsInv /\ [Next]_vars => CredsInv'
    BY StepKeeps DEF Keeps
  <1>2. CredsInv /\ [Next]_vars =>
          [\A t \in Tracee : Exists(t) /\ Dropped(creds[t]) =>
             Moves(t) \/ \E suid, sgid \in BOOLEAN : (suid \/ sgid) /\ Execve(t, suid, sgid)]_vars
    BY StepKeeps DEF Keeps
  <1> QED
    BY InitCreds, <1>1, <1>2, PTL DEF Spec, DroppedForGood

--------------------------------------------------------------------------------
(* LikeLinux.                                                               *)

\* Config c is what Linux has as l: the same ids; CAP_SETUID is there, and in force, as long as
\* root is among the ids, which is as long as it is the effective one.
Mirrors(c, l) ==
    /\ c.u.r = l.r /\ c.u.e = l.e /\ c.u.s = l.s /\ c.u.fs = l.fs
    /\ c.u.fs = c.u.e
    /\ Root(c.u) => c.u.e = 0
    /\ c.caps = Root(c.u) /\ l.permitted = c.caps /\ l.effective = c.caps
    /\ c.keep = FALSE

\* The first tracee of a guest that leaves its ids only for good.
LinuxInv == ForGood => Exists(First) /\ Mirrors(creds[First], linux)

\* There is a first tracee.
LEMMA FirstIsTracee == First \in Tracee
  BY TraceeAssumption DEF First

\* Ids that a call leaves the tracee with do to CAP_SETUID what MAYBE_DROP_CAPS does.
LEMMA CapabilitiesMirror ==
    ASSUME NEW c \in Config, NEW l, Mirrors(c, l), NEW u \in IdRecord,
           Fair(u, c.u, Privileged(c)), ~Temporary(u), u.fs = u.e,
           NEW ids, ids.r = u.r, ids.e = u.e, ids.s = u.s, ids.fs = u.fs
    PROVE  Mirrors(WithUids(c, u), Capabilities(l, ids, c.keep))
  <1> DEFINE d == WithUids(c, u)
             k == Capabilities(l, ids, c.keep)
  <1> SUFFICES Mirrors(d, k)
    OBVIOUS
  <1>1. u # Refused
    BY DEF IdRecord, Refused
  <1>2. d = [u |-> u, g |-> c.g, caps |-> caps_after(c, u), keep |-> c.keep]
    BY ZenonT(30), <1>1 DEF WithUids, Config
  <1>3. d.u = u /\ d.caps = caps_after(c, u) /\ d.keep = FALSE
    BY <1>2 DEF Mirrors
  <1>4. Root(u) => u.e = 0 /\ Root(c.u)
    BY ZenonT(30), <1>1 DEF Temporary, Fair, Privileged, Mirrors, Root, IdSet
  <1>5. caps_after(c, u) = Root(u)
    BY SMTT(30), <1>4 DEF caps_after, Mirrors, Config, Root
  <1>6. k.r = u.r /\ k.e = u.e /\ k.s = u.s /\ k.fs = u.fs
    BY DEF Capabilities
  <1>7. k.permitted = Root(u)
    BY SMTT(30), <1>4 DEF Capabilities, Mirrors, Root, Config
  <1>8. k.effective = Root(u)
    BY ZenonT(30), <1>4, <1>7 DEF Capabilities, Mirrors, Root, Config
  <1> HIDE DEF d, k
  <1> QED
    BY <1>3, <1>4, <1>5, <1>6, <1>7, <1>8 DEF Mirrors

\* setuid(2).
LEMMA SetuidMirrors ==
    ASSUME NEW c \in Config, NEW l, Mirrors(c, l), NEW id \in Id,
           NEW u, u = setxid(c.u, Privileged(c), id), ~Temporary(u)
    PROVE  Mirrors(WithUids(c, u), LinuxSetuid(l, id, c.keep))
  <1>1. c.u \in IdRecord /\ Privileged(c) = l.effective
    BY DEF Config, Privileged, Mirrors, Root
  <1>2. Fair(u, c.u, Privileged(c))
    BY <1>1, SetxidFair DEF Mirrors, Config
  <1>3. CASE u = Refused
    <2>1. Ids(id) # Refused /\ [c.u EXCEPT !.e = id, !.fs = id] # Refused
      BY ZenonT(30), <1>1, IdAssumption DEF Ids, Refused, IdRecord
    <2>2. ~Privileged(c) /\ ~EqualsAny(id, c.u)
      BY <1>3, <2>1 DEF setxid
    <2>3. ~l.effective /\ id \notin {l.r, l.s}
      BY <1>1, <2>2 DEF EqualsAny, Mirrors
    <2> QED
      BY <1>3, <2>3 DEF WithUids, LinuxSetuid
  <1>4. CASE u # Refused /\ l.effective
    <2>1. u = Ids(id)
      BY <1>1, <1>4 DEF setxid
    <2>2. u \in IdRecord /\ u.r = id /\ u.e = id /\ u.s = id /\ u.fs = id
      BY <2>1 DEF Ids, IdRecord
    <2> QED
      BY <1>2, <1>4, <2>2, CapabilitiesMirror DEF LinuxSetuid
  <1>5. CASE u # Refused /\ ~l.effective
    <2>1. u = [c.u EXCEPT !.e = id, !.fs = id] /\ id \in {c.u.r, c.u.e, c.u.s}
      BY <1>1, <1>5 DEF setxid, EqualsAny
    <2>2. u \in IdRecord /\ u.r = l.r /\ u.e = id /\ u.s = l.s /\ u.fs = id
      BY ZenonT(30), <1>1, <2>1 DEF IdRecord, Mirrors
    <2>3. CASE id \in {l.r, l.s}
      BY <1>2, <1>5, <2>2, <2>3, CapabilitiesMirror DEF LinuxSetuid
    <2>4. CASE id \notin {l.r, l.s}
      <3>1. id = c.u.e /\ id = c.u.fs
        BY <2>1, <2>4 DEF Mirrors
      <3>2. u = c.u
        BY ZenonT(30), <1>1, <2>1, <3>1 DEF IdRecord
      <3>3. WithUids(c, u) = c
        BY ZenonT(30), <1>5, <3>2 DEF WithUids, caps_after, Config, Mirrors
      <3> QED
        BY <1>5, <2>4, <3>3 DEF LinuxSetuid
    <2> QED
      BY <2>3, <2>4
  <1> QED
    BY <1>3, <1>4, <1>5

\* setreuid(2), of both ids or of the effective one.
LEMMA SetreuidMirrors ==
    ASSUME NEW c \in Config, NEW l, Mirrors(c, l), NEW r \in Opt, NEW e \in Id,
           r = Unset \/ r = c.u.r \/ e # c.u.s,
           NEW u, u = setrexid(c.u, Privileged(c), r, e), ~Temporary(u)
    PROVE  Mirrors(WithUids(c, u), LinuxSetreuid(l, r, e, c.keep))
  <1>1. c.u \in IdRecord /\ Privileged(c) = l.effective /\ e # Unset
    BY IdAssumption DEF Config, Privileged, Mirrors, Root
  <1>2. Fair(u, c.u, Privileged(c))
    BY <1>1, SetrexidFair DEF Mirrors, Config, Opt
  <1>3. u # Refused <=> l.effective \/ (r \in {Unset, l.r, l.e} /\ e \in {Unset, l.r, l.e, l.s})
    BY <1>1 DEF setrexid, Unchanged, Refused, Mirrors
  <1>4. CASE u = Refused
    BY <1>3, <1>4 DEF WithUids, LinuxSetreuid
  <1>5. CASE u # Refused
    <2>1. u = [r |-> Set(r, c.u.r), e |-> Set(e, c.u.e), fs |-> Set(e, c.u.fs),
               s |-> IF e # Unset /\ (e # c.u.r \/ r # Unset) THEN e ELSE c.u.s]
      BY <1>5 DEF setrexid
    <2>2. u \in IdRecord
      BY SMTT(30), <1>1, <2>1 DEF IdRecord, Set, Opt
    <2>3. /\ u.r = Set(r, l.r) /\ u.e = Set(e, l.e) /\ u.fs = Set(e, l.e) /\ u.fs = u.e
          /\ u.s = IF r # Unset \/ (e # Unset /\ e # l.r) THEN Set(e, l.e) ELSE l.s
      BY <1>1, <2>1 DEF Mirrors, Set
    <2> QED
      BY <1>2, <1>3, <1>5, <2>2, <2>3, CapabilitiesMirror DEF LinuxSetreuid
  <1> QED
    BY <1>4, <1>5

\* setresuid(2).
LEMMA SetresuidMirrors ==
    ASSUME NEW c \in Config, NEW l, Mirrors(c, l), NEW r \in Opt, NEW e \in Opt, NEW s \in Opt,
           NEW u, u = setresxid(c.u, Privileged(c), r, e, s), ~Temporary(u)
    PROVE  Mirrors(WithUids(c, u), LinuxSetresuid(l, r, e, s, c.keep))
  <1>1. c.u \in IdRecord /\ Privileged(c) = l.effective
    BY DEF Config, Privileged, Mirrors, Root
  <1>2. Fair(u, c.u, Privileged(c))
    BY <1>1, SetresxidFair DEF Mirrors, Config
  <1>3. u # Refused <=> l.effective \/ {r, e, s} \subseteq {Unset, l.r, l.e, l.s}
    BY <1>1 DEF setresxid, EqualsAny, Refused, Mirrors
  <1>4. CASE u = Refused
    BY <1>3, <1>4 DEF WithUids, LinuxSetresuid
  <1>5. CASE u # Refused
    <2>1. u = [r |-> Set(r, c.u.r), e |-> Set(e, c.u.e), s |-> Set(s, c.u.s), fs |-> Set(e, c.u.fs)]
      BY <1>5 DEF setresxid
    <2>2. u \in IdRecord
      BY SMTT(30), <1>1, <2>1 DEF IdRecord, Set, Opt
    <2>3. /\ u.r = Set(r, l.r) /\ u.e = Set(e, l.e) /\ u.s = Set(s, l.s)
          /\ u.fs = Set(e, l.e) /\ u.fs = u.e
      BY <1>1, <2>1 DEF Mirrors, Set
    <2> QED
      BY <1>2, <1>3, <1>5, <2>2, <2>3, CapabilitiesMirror DEF LinuxSetresuid
  <1> QED
    BY <1>4, <1>5

\* A step that leaves the first tracee alone leaves Linux alone, and every other is a call that
\* does to both the same.
LEMMA LinuxStep ==
    ASSUME CredsInv, LinuxInv, [Next]_vars
    PROVE  LinuxInv'
  <1>1. ASSUME UNCHANGED <<guest, creds, linux>>
        PROVE  LinuxInv'
    BY <1>1 DEF LinuxInv, ForGood, Exists, Mirrors, Root
  <1>2. CASE UNCHANGED vars
    BY <1>1, <1>2 DEF vars, credVars
  <1>3. CASE ModesNext
    BY <1>1, <1>3, ModesFrame
  <1>4. CASE CredsNext
    <2> SUFFICES ASSUME ForGood'
                 PROVE  Exists(First)' /\ Mirrors(creds[First], linux)'
      BY DEF LinuxInv
    <2>1. UNCHANGED guest
      BY <1>4, CredsFrame
    <2>2. ForGood /\ Exists(First) /\ Mirrors(creds[First], linux)
      BY <2>1 DEF LinuxInv, ForGood
    <2> DEFINE c == creds[First]
    <2>3. creds \in [Tracee -> Config \union {None}] /\ c \in Config
      BY <2>2, FirstIsTracee DEF CredsInv, CredsOK, Exists
    <2>4. ASSUME NEW t \in Tracee, NEW d, NEW l, Becomes(t, d, l), t # First
          PROVE  Exists(First)' /\ Mirrors(creds[First], linux)'
      <3>1. creds'[First] = c /\ linux' = linux
        BY <2>3, <2>4, FirstIsTracee DEF Becomes
      <3> QED
        BY ZenonT(30), <2>2, <3>1 DEF Exists, Mirrors, Root
    <2>5. ASSUME NEW d \in Config, NEW l, Mirrors(d, l), Becomes(First, d, l)
          PROVE  Exists(First)' /\ Mirrors(creds[First], linux)'
      <3>1. creds'[First] = d /\ linux' = l
        BY <2>2, <2>3, <2>5, FirstIsTracee DEF Becomes
      <3>2. d # None
        BY ConfigNotNone
      <3> QED
        BY ZenonT(30), <2>5, <3>1, <3>2 DEF Exists, Mirrors, Root
    <2>6. ASSUME NEW u, Fair(u, c.u, Privileged(c))
          PROVE  WithUids(c, u) \in Config
      BY ZenonT(30), <2>3, <2>6 DEF Fair, WithUids, Config, caps_after
    <2>7. ASSUME NEW g, Fair(g, c.g, Privileged(c))
          PROVE  WithGids(c, g) \in Config /\ Mirrors(WithGids(c, g), linux)
      <3>1. CASE g = Refused
        BY <2>2, <2>3, <3>1 DEF WithGids
      <3>2. CASE g # Refused
        <4>1. WithGids(c, g) = [u |-> c.u, g |-> g, caps |-> c.caps, keep |-> c.keep]
          BY ZenonT(30), <2>2, <2>3, <3>2 DEF WithGids, Config, caps_after, Mirrors
        <4>2. g \in IdRecord
          BY <2>7, <3>2 DEF Fair
        <4>3. WithGids(c, g) \in Config
          BY SMTT(30), <2>3, <4>1, <4>2 DEF Config
        <4>4. WithGids(c, g).u = c.u /\ WithGids(c, g).caps = c.caps /\ WithGids(c, g).keep = c.keep
          BY <4>1
        <4> QED
          BY <2>2, <4>3, <4>4 DEF Mirrors
      <3> QED
        BY <3>1, <3>2
    <2>8. c.u \in IdRecord /\ c.g \in IdRecord /\ Privileged(c) \in BOOLEAN
      BY <2>3 DEF Config, Privileged
    <2>9. ASSUME NEW t \in Tracee, NEW id \in Id, Setuid(t, id)
          PROVE  Exists(First)' /\ Mirrors(creds[First], linux)'
      <3>1. CASE t # First
        BY <2>4, <2>9, <3>1 DEF Setuid, Uids
      <3>2. CASE t = First
        <4> DEFINE u == setxid(c.u, Privileged(c), id)
        <4>1. ~Temporary(u) /\ Becomes(First, WithUids(c, u), LinuxSetuid(linux, id, c.keep))
          BY <2>2, <2>9, <3>2 DEF Setuid, Uids, ForGood
        <4>2. WithUids(c, u) \in Config
          BY <2>6, <2>8, SetxidFair
        <4>3. Mirrors(WithUids(c, u), LinuxSetuid(linux, id, c.keep))
          BY <2>2, <2>3, <4>1, SetuidMirrors
        <4> QED
          BY <2>5, <4>1, <4>2, <4>3
      <3> QED
        BY <3>1, <3>2
    <2>10. ASSUME NEW t \in Tracee, NEW r \in Opt, NEW e \in Opt, Setreuid(t, r, e)
           PROVE  Exists(First)' /\ Mirrors(creds[First], linux)'
      <3>1. CASE t # First
        BY <2>4, <2>10, <3>1 DEF Setreuid, Uids
      <3>2. CASE t = First
        <4> DEFINE u == setrexid(c.u, Privileged(c), r, e)
        <4>1. ~Temporary(u) /\ Becomes(First, WithUids(c, u), LinuxSetreuid(linux, r, e, c.keep))
          BY <2>2, <2>10, <3>2 DEF Setreuid, Uids, ForGood
        <4>2. e \in Id /\ (r = Unset \/ r = c.u.r \/ e # c.u.s)
          BY <2>2, <2>10, <3>2 DEF Setreuid, ForGood, Opt
        <4>3. WithUids(c, u) \in Config
          BY <2>6, <2>8, SetrexidFair
        <4>4. Mirrors(WithUids(c, u), LinuxSetreuid(linux, r, e, c.keep))
          BY <2>2, <2>3, <4>1, <4>2, SetreuidMirrors
        <4> QED
          BY <2>5, <4>1, <4>3, <4>4
      <3> QED
        BY <3>1, <3>2
    <2>11. ASSUME NEW t \in Tracee, NEW r \in Opt, NEW e \in Opt, NEW s \in Opt, Setresuid(t, r, e, s)
           PROVE  Exists(First)' /\ Mirrors(creds[First], linux)'
      <3>1. CASE t # First
        BY <2>4, <2>11, <3>1 DEF Setresuid, Uids
      <3>2. CASE t = First
        <4> DEFINE u == setresxid(c.u, Privileged(c), r, e, s)
        <4>1. ~Temporary(u) /\ Becomes(First, WithUids(c, u), LinuxSetresuid(linux, r, e, s, c.keep))
          BY <2>2, <2>11, <3>2 DEF Setresuid, Uids, ForGood
        <4>2. WithUids(c, u) \in Config
          BY <2>6, <2>8, SetresxidFair
        <4>3. Mirrors(WithUids(c, u), LinuxSetresuid(linux, r, e, s, c.keep))
          BY <2>2, <2>3, <4>1, SetresuidMirrors
        <4> QED
          BY <2>5, <4>1, <4>2, <4>3
      <3> QED
        BY <3>1, <3>2
    <2>12. ASSUME NEW t \in Tracee, NEW g, Gids(t, g), t = First => Fair(g, c.g, Privileged(c))
           PROVE  Exists(First)' /\ Mirrors(creds[First], linux)'
      <3>1. CASE t # First
        BY <2>4, <2>12, <3>1 DEF Gids
      <3>2. CASE t = First
        BY <2>5, <2>7, <2>12, <3>2 DEF Gids
      <3> QED
        BY <3>1, <3>2
    <2>13. ASSUME NEW t \in Tracee, NEW u \in Tracee, Fork(t, u)
           PROVE  Exists(First)' /\ Mirrors(creds[First], linux)'
      <3>1. u # First /\ Becomes(u, creds[t], linux)
        BY <2>2, <2>13 DEF Fork
      <3> QED
        BY <2>4, <3>1
    <2>14. ASSUME NEW t \in Tracee, NEW id \in Id, Setgid(t, id)
           PROVE  Exists(First)' /\ Mirrors(creds[First], linux)'
      BY <2>8, <2>12, <2>14, SetxidFair DEF Setgid
    <2>15. ASSUME NEW t \in Tracee, NEW r \in Opt, NEW e \in Opt, Setregid(t, r, e)
           PROVE  Exists(First)' /\ Mirrors(creds[First], linux)'
      BY <2>8, <2>12, <2>15, SetrexidFair DEF Setregid
    <2>16. ASSUME NEW t \in Tracee, NEW r \in Opt, NEW e \in Opt, NEW s \in Opt, Setresgid(t, r, e, s)
           PROVE  Exists(First)' /\ Mirrors(creds[First], linux)'
      BY <2>8, <2>12, <2>16, SetresxidFair DEF Setresgid
    <2>17. "fsids" \notin guest /\ "keepcaps" \notin guest /\ "execs" \notin guest
      BY <2>2 DEF ForGood
    <2> QED
      BY ZenonT(30), <1>4, <2>9, <2>10, <2>11, <2>13, <2>14, <2>15, <2>16, <2>17
         DEF CredsNext, Setfsuid, Setfsgid, Keepcaps, Execve
  <1> QED
    BY <1>2, <1>3, <1>4 DEF Next

\* A guest that leaves its ids only for good, by any mix of setuid(2), setreuid(2) and
\* setresuid(2), has at every moment the ids Linux would have given it.
THEOREM IdsAreLikeLinux == Spec => []LikeLinux
  <1>1. Init => LinuxInv
    <2> SUFFICES ASSUME Init PROVE LinuxInv
      OBVIOUS
    <2>1. PICK id \in Id : CredsInit(id)
      BY DEF Init
    <2>2. creds[First] = NewConfig(id)
      BY <2>1, FirstIsTracee DEF CredsInit
    <2>3. creds[First] # None
      BY <2>2 DEF NewConfig, None
    <2>4. Mirrors(creds[First], linux)
      <3>1. creds[First] = [u |-> Ids(id), g |-> creds[First].g, caps |-> (id = 0), keep |-> FALSE]
        BY <2>2 DEF NewConfig
      <3>2. /\ linux.r = id /\ linux.e = id /\ linux.s = id /\ linux.fs = id
            /\ linux.permitted = (id = 0) /\ linux.effective = (id = 0)
        BY <2>1 DEF CredsInit
      <3> QED
        BY <3>1, <3>2 DEF Mirrors, Ids, Root
    <2> QED
      BY <2>3, <2>4 DEF LinuxInv, Exists
  <1>2. CredsInv /\ [Next]_vars => CredsInv'
    BY StepKeeps DEF Keeps
  <1>3. ASSUME CredsInv, LinuxInv, ForGood
        PROVE  creds[First].u = [r |-> linux.r, e |-> linux.e, s |-> linux.s, fs |-> linux.fs]
    <2>1. creds[First].u \in IdRecord
      BY <1>3, FirstIsTracee DEF LinuxInv, CredsInv, CredsOK, Exists, Config
    <2> QED
      BY <1>3, <2>1 DEF LinuxInv, Mirrors, IdRecord
  <1>4. CredsInv /\ LinuxInv => LikeLinux
    BY <1>3 DEF LikeLinux
  <1>5. CredsInv /\ LinuxInv /\ [Next]_vars => LinuxInv'
    BY LinuxStep
  <1> QED
    BY InitCreds, <1>1, <1>2, <1>4, <1>5, PTL DEF Spec

--------------------------------------------------------------------------------
(* ModesRestored.                                                           *)

\* One step of the walk of Restored, from the newest node to the oldest.
Walk(m, ns, f) ==
    [i \in 1..Len(ns) + 1 |-> IF i = Len(ns) + 1 THEN m ELSE Chmod(f[i + 1], ns[i][1], ns[i][2])]

\* Restored is such a walk, if there is one.
LEMMA RestoredWalks ==
    ASSUME NEW m, NEW ns, NEW g, g = Walk(m, ns, g)
    PROVE  \E f : f = Walk(m, ns, f) /\ Restored(m, ns) = f[1]
  <1> DEFINE F == CHOOSE f : f = Walk(m, ns, f)
  <1>1. F = Walk(m, ns, F)
    OBVIOUS
  <1>2. Restored(m, ns) = F[1]
    BY ZenonT(30) DEF Restored, Walk
  <1> QED
    BY ZenonT(30), <1>1, <1>2

\* The collectors of a tracee have no node, one, or two.
LEMMA RestoredNone == ASSUME NEW m PROVE Restored(m, <<>>) = m
  <1> DEFINE g == [i \in 1..1 |-> m]
  <1>1. Len(<<>>) = 0
    OBVIOUS
  <1>2. g = Walk(m, <<>>, g)
    BY <1>1 DEF Walk
  <1>3. PICK f : f = Walk(m, <<>>, f) /\ Restored(m, <<>>) = f[1]
    BY <1>2, RestoredWalks
  <1> QED
    BY SMTT(30), <1>1, <1>3 DEF Walk

\* One node: its mode is given back, if it can be reached.
LEMMA RestoredOne ==
    ASSUME NEW m, NEW x PROVE Restored(m, <<x>>) = Chmod(m, x[1], x[2])
  <1> DEFINE ns == <<x>>
             g == [i \in 1..2 |-> IF i = 2 THEN m ELSE Chmod(m, x[1], x[2])]
  <1>1. Len(ns) = 1 /\ ns[1] = x
    OBVIOUS
  <1> HIDE DEF ns
  <1>2. g = Walk(m, ns, g)
    BY <1>1 DEF Walk
  <1>3. PICK f : f = Walk(m, ns, f) /\ Restored(m, ns) = f[1]
    BY <1>2, RestoredWalks
  <1>4. f[2] = m /\ f[1] = Chmod(f[2], x[1], x[2])
    BY SMTT(30), <1>1, <1>3 DEF Walk
  <1> QED
    BY <1>3, <1>4 DEF ns

\* Two nodes: the newer one first.
LEMMA RestoredTwo ==
    ASSUME NEW m, NEW x, NEW y
    PROVE  Restored(m, <<x, y>>) = Chmod(Chmod(m, y[1], y[2]), x[1], x[2])
  <1> DEFINE ns == <<x, y>>
             n == Chmod(m, y[1], y[2])
             g == [i \in 1..3 |-> IF i = 3 THEN m ELSE IF i = 2 THEN n ELSE Chmod(n, x[1], x[2])]
  <1>1. Len(ns) = 2 /\ ns[1] = x /\ ns[2] = y
    OBVIOUS
  <1> HIDE DEF ns
  <1>2. g = Walk(m, ns, g)
    BY <1>1 DEF Walk
  <1>3. PICK f : f = Walk(m, ns, f) /\ Restored(m, ns) = f[1]
    BY SMTT(30), <1>2, RestoredWalks
  <1>4. f[3] = m /\ f[2] = Chmod(f[3], y[1], y[2]) /\ f[1] = Chmod(f[2], x[1], x[2])
    BY SMTT(30), <1>1, <1>3 DEF Walk
  <1> QED
    BY <1>3, <1>4 DEF ns

\* A mode for every node.
Modes == [Node -> Mode]

\* Short sequences are sequences.
LEMMA ShortSeqs ==
    ASSUME NEW S, NEW x \in S, NEW y \in S
    PROVE  <<x>> \in Seq(S) /\ <<x, y>> \in Seq(S) /\ Append(<<x>>, y) = <<x, y>>
  <1> DEFINE s == Append(<<x>>, y)
  <1>1. <<x>> \in Seq(S) /\ <<x, y>> \in Seq(S)
    OBVIOUS
  <1>2. s \in Seq(S) /\ Len(s) = 2 /\ s[1] = x /\ s[2] = y
    OBVIOUS
  <1>3. s = [i \in 1..2 |-> s[i]] /\ <<x, y>> = [i \in 1..2 |-> <<x, y>>[i]]
    BY <1>2
  <1>4. \A i \in 1..2 : s[i] = <<x, y>>[i]
    BY <1>2
  <1> HIDE DEF s
  <1>5. s = <<x, y>>
    BY <1>3, <1>4
  <1> QED
    BY <1>1, <1>5 DEF s

\* Nor are they empty.
LEMMA ShortNotEmpty ==
    ASSUME NEW x, NEW y PROVE <<x>> # <<>> /\ <<x, y>> # <<>> /\ Append(<<>>, x) = <<x>>
  OBVIOUS

\* From modes m and nodes ns the call leads to the modes w the guests gave: when the kernel has
\* carried it out, if it is a chmod(2) that can be.
Leads(m, ns, w, op, p, new) ==
    /\ IF op = "chmod" /\ Reach(m, p)
       THEN Restored([m EXCEPT ![p] = new], ns) = [w EXCEPT ![p] = new]
       ELSE Restored(m, ns) = w
    /\ ns = <<>> => m = w

\* The collector is empty when get_tracee() has returned.
Emptied(w) == [m |-> w, ns |-> <<>>]

\* HOST_PATH of a path gives way to what it needs, and remembers what it has to restore.
LEMMA OverriddenLeads ==
    ASSUME NEW t, NEW w \in Modes, NEW op \in {"use", "stat", "chmod"}, NEW p \in Node,
           NEW new \in Mode, NEW a, a = Overridden(t, Emptied(w), p, op, new)
    PROVE  /\ a.m \in Modes
           /\ a.ns \in Seq(Node \X Mode)
           /\ Leads(a.m, a.ns, w, op, p, new)
  <1> DEFINE none == Emptied(w)
             way == override_permissions(none, Dir, p = Dir, op, new)
             opened == [w EXCEPT ![Dir] = "open"]
             given == IF p = Dir /\ op = "chmod" THEN new ELSE "shut"
  <1>1. CASE a = none
    <2>1. a.m = w /\ a.ns = <<>>
      BY <1>1 DEF Emptied
    <2>2. Restored(w, <<>>) = w /\ Restored([w EXCEPT ![p] = new], <<>>) = [w EXCEPT ![p] = new]
      BY RestoredNone
    <2>3. <<>> \in Seq(Node \X Mode)
      OBVIOUS
    <2> QED
      BY <2>1, <2>2, <2>3 DEF Leads
  <1>2. way = none \/ (w[Dir] = "shut" /\ way = [m |-> opened, ns |-> <<<<Dir, given>>>>])
    BY SMTT(30) DEF override_permissions, Modes, Mode, Node, Dir, File, Reach, Emptied
  <1>3. none.m = w /\ none.ns = <<>>
    BY DEF Emptied
  <1>4. opened \in Modes /\ opened[Dir] = "open"
    BY DEF Modes, Mode, Node
  <1>5. \A x \in Mode : <<Dir, x>> \in Node \X Mode /\ <<File, x>> \in Node \X Mode
    BY DEF Node
  <1>6. "shut" \in Mode
    BY DEF Mode
  <1> HIDE DEF way, none, opened, given
  <1>7. CASE a = way /\ way # none
    <2>1. /\ w[Dir] = "shut" /\ a.m = opened
          /\ a.ns = <<<<Dir, given>>>>
      BY <1>2, <1>7
    <2>2. \A m \in Modes, x \in Mode : Restored(m, <<<<Dir, x>>>>) = [m EXCEPT ![Dir] = x]
      BY RestoredOne DEF Chmod, Reach
    <2>3. CASE p = Dir /\ op = "chmod"
      <3>1. a.ns = <<<<Dir, new>>>>
        BY <2>1, <2>3 DEF given
      <3>2. [[opened EXCEPT ![Dir] = new] EXCEPT ![Dir] = new] = [w EXCEPT ![Dir] = new]
        BY ZenonT(30) DEF Modes, opened
      <3>3. [opened EXCEPT ![Dir] = new] \in Modes
        BY ZenonT(30), <1>4 DEF Modes
      <3>4. a.ns \in Seq(Node \X Mode)
        <4>1. <<Dir, new>> \in Node \X Mode
          BY ZenonT(30), <1>5
        <4> QED
          BY ONLY <3>1, <4>1, ShortSeqs
      <3>5. a.ns # <<>>
        BY <3>1, ShortNotEmpty
      <3> QED
        <4>1. Restored([opened EXCEPT ![Dir] = new], a.ns) = [w EXCEPT ![Dir] = new]
          BY ZenonT(30), <2>2, <3>1, <3>2, <3>3
        <4> QED
          BY <1>4, <2>1, <2>3, <3>4, <3>5, <4>1 DEF Leads, Reach
    <2>4. CASE ~(p = Dir /\ op = "chmod")
      <3>1. a.ns = <<<<Dir, "shut">>>>
        BY <2>1, <2>4 DEF given
      <3>2. [opened EXCEPT ![Dir] = "shut"] = w
        BY ZenonT(30), <2>1 DEF Modes, opened
      <3>3. op = "chmod" =>
               /\ p = File
               /\ [[opened EXCEPT ![File] = new] EXCEPT ![Dir] = "shut"] = [w EXCEPT ![File] = new]
        BY <2>1, <2>4 DEF Modes, Node, Dir, File, opened
      <3>4. [opened EXCEPT ![File] = new] \in Modes
        BY ZenonT(30), <1>4 DEF Modes
      <3>5. a.ns \in Seq(Node \X Mode)
        <4>1. <<Dir, "shut">> \in Node \X Mode
          BY ZenonT(30), <1>5, <1>6
        <4> QED
          BY ONLY <3>1, <4>1, ShortSeqs
      <3>6. a.ns # <<>>
        BY <3>1, ShortNotEmpty
      <3>7. Restored(opened, a.ns) = w
        BY <1>4, <1>6, <2>2, <3>1, <3>2
      <3>8. op = "chmod" => Restored([opened EXCEPT ![p] = new], a.ns) = [w EXCEPT ![p] = new]
        BY ZenonT(30), <1>6, <2>2, <3>1, <3>3, <3>4
      <3> QED
        BY <1>4, <2>1, <3>5, <3>6, <3>7, <3>8 DEF Leads
    <2> QED
      BY <2>3, <2>4
  <1>8. CASE p = File /\ a = override_permissions(way, File, TRUE, op, new) /\ a # way
    <2> DEFINE x == IF op = "chmod" THEN new ELSE "shut"
               last == <<File, x>>
    <2>1. way.m \in Modes /\ way.m[File] = w[File]
      BY SMTT(30), <1>2, <1>3, <1>4 DEF Modes, Mode, Node, Dir, File, opened
    <2>2. /\ way.m[Dir] = "open" /\ w[File] = "shut"
          /\ a = [m |-> [way.m EXCEPT ![File] = "open"], ns |-> Append(way.ns, last)]
      BY <1>8, <2>1 DEF override_permissions, Reach, Modes, Mode, Node, Dir, File
    <2>3. a.m \in Modes /\ a.m[Dir] = "open" /\ a.ns = Append(way.ns, last)
      BY SMTT(30), <2>1, <2>2 DEF Modes, Mode, Node, Dir, File
    <2>4. op = "chmod" =>
             [a.m EXCEPT ![File] = new] \in Modes /\ [a.m EXCEPT ![File] = new][Dir] = "open"
      BY <2>3 DEF Modes, Node, Dir, File
    <2>5. \A m \in Modes : m[Dir] = "open" => Chmod(m, File, x) = [m EXCEPT ![File] = x]
      BY DEF Chmod, Reach
    <2>6. CASE way = none
      <3>1. last \in Node \X Mode
        BY <1>5 DEF Mode
      <3>2. a.ns = <<last>>
        BY ZenonT(30), <1>3, <2>3, <2>6, ShortNotEmpty
      <3>3. \A m \in Modes : m[Dir] = "open" => Restored(m, a.ns) = [m EXCEPT ![File] = x]
        <4>1. \A m : Restored(m, <<last>>) = Chmod(m, File, x)
          BY RestoredOne
        <4> QED
          BY <2>5, <3>2, <4>1
      <3>4. a.m = [w EXCEPT ![File] = "open"]
        BY SMTT(30), <1>3, <2>2, <2>6
      <3>5. [a.m EXCEPT ![File] = x] = (IF op = "chmod" THEN [w EXCEPT ![File] = new] ELSE w)
        BY ZenonT(30), <2>2, <3>4 DEF Modes
      <3>6. [[a.m EXCEPT ![File] = new] EXCEPT ![File] = new] = [w EXCEPT ![File] = new]
        BY ZenonT(30), <3>4 DEF Modes
      <3>7. a.ns \in Seq(Node \X Mode)
        BY <3>1, <3>2, ShortSeqs
      <3>8. a.ns # <<>>
        BY <3>2, ShortNotEmpty
      <3> QED
        BY ZenonT(30), <1>8, <2>3, <2>4, <3>3, <3>5, <3>6, <3>7, <3>8 DEF Leads, Reach
    <2>7. CASE way # none
      <3>1. w[Dir] = "shut" /\ way = [m |-> opened, ns |-> <<<<Dir, "shut">>>>]
        BY <1>2, <1>8, <2>7 DEF Dir, File, given
      <3>2. last \in Node \X Mode /\ <<Dir, "shut">> \in Node \X Mode
        BY <1>5 DEF Mode
      <3>3. a.ns = <<<<Dir, "shut">>, last>>
        <4>1. way.ns = <<<<Dir, "shut">>>>
          BY <3>1
        <4> HIDE DEF last
        <4>2. Append(<<<<Dir, "shut">>>>, last) = <<<<Dir, "shut">>, last>>
          BY ZenonT(30), <3>2, ShortSeqs
        <4> QED
          BY <2>3, <4>1, <4>2
      <3>4. \A m \in Modes : m[Dir] = "open" =>
               Restored(m, a.ns) = [[m EXCEPT ![File] = x] EXCEPT ![Dir] = "shut"]
        <4> TAKE m \in Modes
        <4> HAVE m[Dir] = "open"
        <4>1. Restored(m, a.ns) = Chmod(Chmod(m, File, x), Dir, "shut")
          <5> DEFINE first == <<Dir, "shut">>
          <5>1. first[1] = Dir /\ first[2] = "shut" /\ last[1] = File /\ last[2] = x
            OBVIOUS
          <5>2. a.ns = <<first, last>>
            BY <3>3
          <5> HIDE DEF first, last, x
          <5>3. Restored(m, <<first, last>>) = Chmod(Chmod(m, last[1], last[2]), first[1], first[2])
            BY RestoredTwo
          <5> QED
            BY <5>1, <5>2, <5>3
        <4> QED
          BY <2>5, <4>1 DEF Chmod, Reach
      <3>5. a.m = [[w EXCEPT ![Dir] = "open"] EXCEPT ![File] = "open"]
        BY SMTT(30), <2>2, <3>1 DEF opened
      <3>6. [[a.m EXCEPT ![File] = x] EXCEPT ![Dir] = "shut"]
            = (IF op = "chmod" THEN [w EXCEPT ![File] = new] ELSE w)
        BY ZenonT(30), <2>2, <3>1, <3>5 DEF Modes, Node, Dir, File
      <3>7. [[[a.m EXCEPT ![File] = new] EXCEPT ![File] = new] EXCEPT ![Dir] = "shut"]
            = [w EXCEPT ![File] = new]
        BY ZenonT(30), <2>2, <3>1, <3>5 DEF Modes, Node, Dir, File
      <3>8. a.ns \in Seq(Node \X Mode)
        BY <3>3, <3>2, ShortSeqs
      <3>9. a.ns # <<>>
        BY <3>3, ShortNotEmpty
      <3> QED
        BY ZenonT(30), <1>8, <2>3, <2>4, <3>4, <3>6, <3>7, <3>8, <3>9 DEF Leads, Reach
    <2> QED
      BY <2>6, <2>7
  <1> QED
    BY ZenonT(30), <1>1, <1>7, <1>8 DEF Overridden, Node, way, none

\* A file system call in progress.
FileCall == [op : {"use", "stat", "chmod"}, path : Node, new : Mode, res : {"pending", "ok", "EACCES"}]

\* The guests for which modes are restored.
Kept == "fake_permissions" \in guest \/ (Apart /\ "crashes" \notin guest)

\* With --fake-permissions no mode is changed but by the guests.
NoNodes == (\A t \in Tracee : nodes[t] = <<>>) /\ mode = wanted

\* Otherwise at most one tracee is in a call, and its nodes lead back to what the guests gave.
OneCall ==
    /\ \A t \in Tracee : call[t] = Idle => nodes[t] = <<>>
    /\ \A t, u \in Tracee : call[t] # Idle /\ call[u] # Idle => t = u
    /\ \A t \in Tracee : call[t] # Idle =>
          Leads(mode, nodes[t], wanted, IF call[t].res = "pending" THEN call[t].op ELSE "none",
                call[t].path, call[t].new)
    /\ (\A t \in Tracee : call[t] = Idle) => mode = wanted

\* The types, in the form that is inductive.
ModeTypes ==
    /\ mode \in Modes /\ wanted \in Modes
    /\ call \in [Tracee -> {Idle} \cup FileCall]
    /\ nodes \in [Tracee -> Seq(Node \X Mode)]

\* The invariant: guests that overlap, and a PRoot that is killed, are left out.
ModesInv ==
    Kept => ModeTypes /\ IF "fake_permissions" \in guest THEN NoNodes ELSE OneCall

\* The invariant holds at first.
LEMMA InitModes == Init => ModesInv
  <1> SUFFICES ASSUME Init PROVE ModesInv
    OBVIOUS
  <1>1. mode \in Modes /\ wanted = mode
    BY DEF Init, ModesInit, Modes, Mode
  <1>2. /\ nodes \in [Tracee -> Seq(Node \X Mode)] /\ \A t \in Tracee : nodes[t] = <<>>
        /\ call \in [Tracee -> {Idle} \cup FileCall] /\ \A t \in Tracee : call[t] = Idle
    BY SMTT(30) DEF Init, ModesInit
  <1> QED
    BY <1>1, <1>2 DEF ModesInv, ModeTypes, NoNodes, OneCall

\* An idle tracee has no nodes; if all are idle the modes are those the guests gave.
LEMMA IdleHasNone ==
    ASSUME ModesInv, Kept, NEW t \in Tracee, call[t] = Idle
    PROVE  /\ nodes[t] = <<>>
           /\ (\A u \in Tracee : call[u] = Idle) => mode = wanted
  BY DEF ModesInv, NoNodes, OneCall

\* One tracee is in a call, and all the others are idle.
LEMMA StillOneCall ==
    ASSUME OneCall, NEW t \in Tracee, call'[t] # Idle,
           \A u \in Tracee \ {t} : call[u] = Idle /\ call'[u] = Idle /\ nodes'[u] = nodes[u],
           Leads(mode', nodes'[t], wanted', IF call'[t].res = "pending" THEN call'[t].op ELSE "none",
                 call'[t].path, call'[t].new)
    PROVE  OneCall'
  <1>1. \A u \in Tracee : call'[u] = Idle => nodes'[u] = <<>>
    BY DEF OneCall
  <1>2. \A u, v \in Tracee : call'[u] # Idle /\ call'[v] # Idle => u = v
    OBVIOUS
  <1>3. \A u \in Tracee : call'[u] # Idle => u = t
    OBVIOUS
  <1> QED
    BY <1>1, <1>2, <1>3 DEF OneCall

\* The entry of a call.
LEMMA EnterKeeps ==
    ASSUME ModesInv, Kept, NEW t \in Tracee, NEW op \in {"use", "stat", "chmod"}, NEW p \in Node,
           NEW new \in Mode, Enter(t, op, p, new)
    PROVE  ModesInv'
  <1> DEFINE a == Overridden(t, Emptied(mode), p, op, new)
             c == [op |-> op, path |-> p, new |-> new, res |-> "pending"]
  <1>1. Restored(mode, nodes[t]) = mode
    BY IdleHasNone, RestoredNone DEF Enter
  <1>2. /\ call[t] = Idle /\ UNCHANGED <<guest, wanted>>
        /\ "overlap" \in guest \/ \A u \in Tracee : call[u] = Idle
        /\ mode' = a.m /\ nodes' = [nodes EXCEPT ![t] = a.ns] /\ call' = [call EXCEPT ![t] = c]
    BY <1>1 DEF Enter, Emptied
  <1>3. c \in FileCall /\ c # Idle /\ c.res = "pending" /\ c.op = op /\ c.path = p /\ c.new = new
    BY DEF FileCall, Idle
  <1> HIDE DEF c, a
  <1>4. a.m \in Modes /\ a.ns \in Seq(Node \X Mode) /\ Leads(a.m, a.ns, mode, op, p, new)
    BY ZenonT(30), OverriddenLeads DEF a, ModesInv, ModeTypes
  <1>5. /\ call'[t] = c /\ \A u \in Tracee \ {t} : call'[u] = call[u]
        /\ nodes'[t] = a.ns /\ \A u \in Tracee \ {t} : nodes'[u] = nodes[u]
        /\ ModeTypes'
    BY <1>2, <1>3, <1>4 DEF ModesInv, ModeTypes
  <1>6. CASE "fake_permissions" \in guest
    <2>1. a = Emptied(mode) /\ NoNodes
      BY <1>6 DEF a, Overridden, ModesInv
    <2>2. a.m = mode /\ a.ns = <<>>
      BY <2>1 DEF Emptied
    <2>3. NoNodes'
      BY <1>2, <1>5, <2>1, <2>2 DEF NoNodes
    <2> QED
      BY <1>2, <1>5, <1>6, <2>3 DEF ModesInv
  <1>7. CASE "fake_permissions" \notin guest
    <2>1. OneCall /\ (\A u \in Tracee : call[u] = Idle) /\ mode = wanted
      BY <1>2, <1>7, IdleHasNone DEF ModesInv, Kept, Apart
    <2>2. Leads(mode, nodes[t], wanted, op, p, new)'
      BY <1>2, <1>4, <1>5, <2>1
    <2>3. OneCall'
      BY <1>3, <1>5, <2>1, <2>2, StillOneCall
    <2> QED
      BY <1>2, <1>5, <1>7, <2>3 DEF ModesInv
  <1> QED
    BY <1>6, <1>7

\* The kernel carries out a chmod(2) PRoot has foreseen, and no other call changes a mode.
LEMMA KernelKeeps ==
    ASSUME ModesInv, Kept, NEW t \in Tracee, Kernel(t)
    PROVE  ModesInv'
  <1> DEFINE c == call[t]
             passes == Reach(mode, c.path) /\ (c.op = "use" => mode[c.path] = "open")
             d == [c EXCEPT !.res = IF passes THEN "ok" ELSE "EACCES"]
  <1>1. c # Idle /\ c.res = "pending" /\ UNCHANGED <<guest, nodes>> /\ c \in FileCall
    BY DEF Kernel, ModesInv, ModeTypes
  <1>2. call' = [call EXCEPT ![t] = d]
    BY DEF Kernel
  <1>3. d \in FileCall /\ d # Idle /\ d.res # "pending" /\ d.path = c.path /\ d.new = c.new
    BY <1>1 DEF FileCall, Idle
  <1>4. CASE passes /\ c.op = "chmod"
    <2>1. mode' = [mode EXCEPT ![c.path] = c.new] /\ wanted' = [wanted EXCEPT ![c.path] = c.new]
      BY <1>4 DEF Kernel
    <2> HIDE DEF d
    <2>2. ModeTypes' /\ call'[t] = d /\ \A u \in Tracee \ {t} : call'[u] = call[u]
      BY <1>1, <1>2, <1>3, <2>1 DEF ModesInv, ModeTypes, Modes, FileCall
    <2>3. CASE "fake_permissions" \in guest
      BY <1>1, <2>1, <2>2, <2>3 DEF ModesInv, NoNodes
    <2>4. CASE "fake_permissions" \notin guest
      <3>1. OneCall /\ Leads(mode, nodes[t], wanted, "chmod", c.path, c.new)
        BY <1>1, <1>4, <2>4 DEF ModesInv, OneCall
      <3>2. Leads(mode', nodes[t], wanted', "none", c.path, c.new)
        BY ZenonT(30), <1>4, <2>1, <3>1 DEF Leads
      <3>3. \A u \in Tracee \ {t} : call[u] = Idle
        BY <1>1, <3>1 DEF OneCall
      <3>4. OneCall'
        BY <1>1, <1>3, <2>2, <3>1, <3>2, <3>3, StillOneCall
      <3> QED
        BY <1>1, <2>2, <2>4, <3>4 DEF ModesInv
    <2> QED
      BY <2>3, <2>4
  <1>5. CASE ~(passes /\ c.op = "chmod")
    <2>1. UNCHANGED <<mode, wanted>> /\ (c.op = "chmod" => ~Reach(mode, c.path))
      BY <1>5 DEF Kernel
    <2> HIDE DEF d
    <2>2. ModeTypes' /\ call'[t] = d /\ \A u \in Tracee \ {t} : call'[u] = call[u]
      BY <1>1, <1>2, <1>3, <2>1 DEF ModesInv, ModeTypes
    <2>3. CASE "fake_permissions" \in guest
      BY <1>1, <2>1, <2>2, <2>3 DEF ModesInv, NoNodes
    <2>4. CASE "fake_permissions" \notin guest
      <3>1. OneCall /\ Leads(mode, nodes[t], wanted, c.op, c.path, c.new)
        BY <1>1, <2>4 DEF ModesInv, OneCall
      <3>2. Leads(mode, nodes[t], wanted, "none", c.path, c.new)
        BY <2>1, <3>1 DEF Leads
      <3>3. \A u \in Tracee \ {t} : call[u] = Idle
        BY <1>1, <3>1 DEF OneCall
      <3>4. OneCall'
        BY <1>1, <1>3, <2>1, <2>2, <3>1, <3>2, <3>3, StillOneCall
      <3> QED
        BY <1>1, <2>2, <2>4, <3>4 DEF ModesInv
    <2> QED
      BY <2>3, <2>4
  <1> QED
    BY <1>4, <1>5

\* The destructors, at the exit of the call, restore what the guests gave.
LEMMA LeaveKeeps ==
    ASSUME ModesInv, Kept, NEW t \in Tracee, Leave(t)
    PROVE  ModesInv'
  <1>1. /\ call[t] # Idle /\ call[t].res # "pending" /\ UNCHANGED <<guest, wanted>>
        /\ mode' = Restored(mode, nodes[t]) /\ nodes' = [nodes EXCEPT ![t] = <<>>]
        /\ call' = [call EXCEPT ![t] = Idle]
    BY DEF Leave
  <1>2. Restored(mode, nodes[t]) = wanted
    <2>1. CASE "fake_permissions" \in guest
      BY <2>1, RestoredNone DEF ModesInv, NoNodes
    <2>2. CASE "fake_permissions" \notin guest
      BY ZenonT(30), <1>1, <2>2 DEF ModesInv, OneCall, Leads
    <2> QED
      BY <2>1, <2>2
  <1>3. <<>> \in Seq(Node \X Mode)
    OBVIOUS
  <1>4. /\ nodes'[t] = <<>> /\ \A u \in Tracee \ {t} : nodes'[u] = nodes[u]
        /\ call'[t] = Idle /\ \A u \in Tracee \ {t} : call'[u] = call[u]
        /\ ModeTypes'
    BY <1>1, <1>2, <1>3 DEF ModesInv, ModeTypes
  <1>5. CASE "fake_permissions" \in guest
    <2>1. NoNodes'
      BY <1>1, <1>2, <1>4, <1>5 DEF ModesInv, NoNodes
    <2> QED
      BY <1>1, <1>4, <1>5, <2>1 DEF ModesInv
  <1>6. CASE "fake_permissions" \notin guest
    <2>1. OneCall /\ \A u \in Tracee : call'[u] = Idle
      BY <1>1, <1>4, <1>6 DEF ModesInv, OneCall
    <2>2. OneCall'
      BY <1>1, <1>2, <1>4, <2>1 DEF OneCall
    <2> QED
      BY <1>1, <1>4, <1>6, <2>2 DEF ModesInv
  <1> QED
    BY <1>5, <1>6

\* Every step keeps it.
LEMMA ModesStep ==
    ASSUME ModesInv, [Next]_vars
    PROVE  ModesInv'
  <1> SUFFICES ASSUME Kept' PROVE ModesInv'
    BY DEF ModesInv
  <1>1. UNCHANGED guest
    BY CredsFrame, ModesFrame DEF Next, vars
  <1>2. Kept
    BY <1>1 DEF Kept, Apart
  <1>3. ASSUME UNCHANGED modeVars PROVE ModesInv'
    BY <1>1, <1>3 DEF modeVars, ModesInv, Kept, Apart, ModeTypes, NoNodes, OneCall
  <1>4. ASSUME NEW t \in Tracee, NEW u \in Tracee, Lookup(t, u) PROVE FALSE
    BY <1>2, <1>4 DEF Lookup, Kept, Apart, ModesInv, NoNodes
  <1>5. ASSUME Crash PROVE ModesInv'
    <2>1. "fake_permissions" \in guest /\ NoNodes /\ ModeTypes
      BY <1>2, <1>5 DEF Crash, Kept, ModesInv
    <2>2. <<>> \in Seq(Node \X Mode)
      OBVIOUS
    <2>3. NoNodes' /\ ModeTypes'
      BY <1>5, <2>1, <2>2 DEF Crash, NoNodes, ModeTypes
    <2> QED
      BY <1>1, <2>1, <2>3 DEF ModesInv
  <1>6. CASE ModesNext
    <2>1. ASSUME NEW t \in Tracee, NEW op \in {"use", "stat"}, NEW p \in Node, Enter(t, op, p, "open")
          PROVE  ModesInv'
      <3>1. "open" \in Mode /\ op \in {"use", "stat", "chmod"}
        BY DEF Mode
      <3> QED
        BY <1>2, <2>1, <3>1, EnterKeeps
    <2>2. ASSUME NEW t \in Tracee, NEW p \in Node, NEW new \in Mode, Enter(t, "chmod", p, new)
          PROVE  ModesInv'
      BY <1>2, <2>2, EnterKeeps
    <2>3. ASSUME NEW t \in Tracee, Kernel(t) \/ Leave(t)
          PROVE  ModesInv'
      BY <1>2, <2>3, KernelKeeps, LeaveKeeps
    <2> QED
      BY <1>4, <1>5, <1>6, <2>1, <2>2, <2>3 DEF ModesNext
  <1> QED
    BY <1>3, <1>6 DEF Next, vars

\* With no node left to restore the host has the modes the guests gave, as long as no two
\* tracees are in file system calls at once and PRoot is not killed; with --fake-permissions
\* it always has them.
THEOREM ModesAreRestored == Spec => []ModesRestored
  <1>1. ASSUME ModesInv PROVE ModesRestored
    <2> SUFFICES ASSUME Kept, \A t \in Tracee : nodes[t] = <<>>
                 PROVE  mode = wanted
      BY DEF ModesRestored, Kept
    <2>1. CASE "fake_permissions" \in guest
      BY <1>1, <2>1 DEF ModesInv, NoNodes
    <2>2. CASE "fake_permissions" \notin guest
      BY ZenonT(30), <1>1, <2>2 DEF ModesInv, OneCall, Leads
    <2> QED
      BY <2>1, <2>2
  <1>2. ModesInv /\ [Next]_vars => ModesInv'
    BY ModesStep
  <1> QED
    BY <1>1, <1>2, InitModes, PTL DEF Spec

================================================================================
