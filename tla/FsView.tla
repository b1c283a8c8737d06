------------------------------- MODULE FsView -------------------------------
(***************************************************************************)
(* What a tracee of PRoot sees of the file system: its name-space of       *)
(* bindings, its rootfs and its working directory, and the operations that *)
(* change them: the start, mount(2), umount(2), pivot_root(2), chroot(2),  *)
(* chdir(2), fchdir(2), rename(2), clone(2) and the end of a tracee.       *)
(*                                                                         *)
(* A tracee refers to a FileSystemNameSpace ("fs": a working directory and *)
(* two binding lists), and the lists are shared by several of those        *)
(* ("ns"): CLONE_FS shares the former, a plain clone the latter.           *)
(*                                                                         *)
(* The tree of the host is that of directories and links; "lost" and       *)
(* "inside" remember which directory a process is in under Linux.          *)
(***************************************************************************)
EXTENDS Canon

CONSTANTS Tracees, Spaces,   \* tracees; both file-system and binding name-spaces
          None,
          Worlds,            \* what the host holds at the start, and the
                             \*   bindings of the command line: [tree, config]
          UserPaths,         \* paths the guest passes to calls
          Lookups,           \* and to calls that only look them up
          Binds, Pivots, Renames, \* and for calls of two paths: [old, new, mode]
          Special,           \* the host directory of a mount of "proc", "sysfs"...
          Scratch,           \* where create_temp_directory() makes one for "tmpfs"
          Probes,            \* guest paths the properties look at
          Guests             \* what the guest does: [habits, changes], where
                             \*   "clones" creates tracees, "fails" to (with
                             \*   CLONE_NEWNS), "moves" changes the working
                             \*   directory, "opens" directories, "exits";
                             \*   "changes" bounds mounts, unmounts, pivots,
                             \*   chroots and renames

VARIABLES tree,     \* the host: a set of nodes [id, at, to]
          ns,       \* the lists of bindings of a name-space
          fs,       \* working directory and name-space of bindings
          tracee,   \* the fs of a tracee, and clone_stripped_newns
          fd,       \* the directory a tracee has open
          inside,   \* the node a file-system name-space's process is in
          lost,     \* file-system name-spaces another process led astray
          started,  \* the bindings of the command line
          who,      \* one of Guests
          temp,     \* the file-system name-space that owns Scratch
          changes   \* operations so far

vars == <<tree, ns, fs, tracee, fd, inside, lost, started, who, temp, changes>>

Live == {t \in Tracees : tracee[t] # None}
View(t) == ns[fs[tracee[t].fs].ns]
Cwd(t) == fs[tracee[t].fs].cwd

Fresh(used) == CHOOSE i \in Ids : i \notin used /\ \A j \in Ids : j < i => j \in used

IdsOf(v) == {b.id : b \in Elements(v.guest) \cup Elements(v.host)}

(* insort_binding3(): a new binding, read-write unless a mode is given.    *)
insort_binding3_with_mode(v, host, guest, mode, used) ==
    insort_binding2(v, [id |-> Fresh(used \cup IdsOf(v)), host |-> host,
                        guest |-> guest, mode |-> mode])
insort_binding3(v, host, guest, used) ==
    insort_binding3_with_mode(v, host, guest, "rw", used)

Fold(F(_, _), v, list) ==
    LET f[i \in 0..Len(list)] == IF i = 0 THEN v ELSE F(f[i - 1], list[i])
    IN f[Len(list)]

-----------------------------------------------------------------------------
(* The start: new_binding() keeps the command line in the list "pending",  *)
(* initialize_bindings() takes it from its end ("/" first), canonicalizes  *)
(* the guest path of each and inserts it in both lists.                    *)

Pending(config) ==
    Fold(LAMBDA v, c : insort_binding3(v, c.host, c.guest, {}),
         NoBindings, config).guest

(* The final component is followed unless the host path is a directory.    *)
initialize_binding(tr, v, b) ==
    LET g == IF b.guest = << >> THEN Found(b.guest)
             ELSE canonicalize(v, tr, << >>, UserPath(TRUE, b.guest),
                               Kind(tr, b.host) # "dir")
    IN IF g.error # "none" THEN v
       ELSE insort_binding2(v, [b EXCEPT !.guest = g.path])

initialize_bindings(tr, pending) ==
    Fold(LAMBDA v, b : initialize_binding(tr, v, b), NoBindings,
         [i \in DOMAIN pending |-> pending[Len(pending) + 1 - i]])

NodeAt(tr, p) == (CHOOSE n \in Nodes(tr, p) : TRUE).id
Exists(tr, id) == \E n \in tr : n.id = id
At(tr, id) == (CHOOSE n \in tr : n.id = id).at

Init ==
    \E world \in Worlds, first \in Tracees, s \in Spaces :
        LET tr == world.tree
            v == initialize_bindings(tr, Pending(world.config))
        IN /\ \A t \in Tracees : first <= t
           /\ \A i \in Spaces : s <= i
           /\ tree = tr
           /\ ns = [i \in Spaces |-> IF i = s THEN v ELSE None]
           /\ fs = [i \in Spaces |-> IF i = s THEN [cwd |-> << >>, ns |-> s] ELSE None]
           /\ tracee = [t \in Tracees |->
                           IF t = first THEN [fs |-> s, newns |-> FALSE] ELSE None]
           /\ fd = [t \in Tracees |-> None]
           /\ inside = [i \in Spaces |-> IF i = s THEN NodeAt(tr, get_root(v)) ELSE None]
           /\ lost = {}
           /\ started = Elements(v.guest)
           /\ who \in Guests
           /\ temp = None
           /\ changes = 0

-----------------------------------------------------------------------------
(* The directory a path designates.                                        *)

HostOf(v, p) == substitute_binding(v, "GUEST", p)

(* A file-system name-space whose working directory is the one Linux would *)
(* have it in.                                                             *)
InPlace(tr, v, f, i) == Exists(tr, i) /\ HostOf(v, f.cwd) = At(tr, i)

(* After a change of the bindings or of the tree by somebody, the          *)
(* name-spaces that are led astray (other than "own").                     *)
Astray(tr, spaces, views, own) ==
    {i \in Spaces \ own : spaces[i] # None /\ ~InPlace(tr, views[spaces[i].ns], spaces[i], inside[i])}

Changes == changes < who.changes /\ changes' = changes + 1

(* The lists of the tracee's name-space become v.                          *)
Rebind(t, v) ==
    /\ ns' = [ns EXCEPT ![fs[tracee[t].fs].ns] = v]
    /\ lost' = lost \cup Astray(tree', fs, ns', {})
    /\ UNCHANGED <<fs, tracee, fd, inside, started, who>>

-----------------------------------------------------------------------------
(* mount(2): a binding to the source, to a host directory, or to a new     *)
(* directory.  A mount that cannot be emulated is pretended.               *)

Mount(t, host, target, mode) ==
    LET g == guest_canonicalize(View(t), tree, Cwd(t), target)
    IN /\ g.error = "none"
       /\ Rebind(t, insort_binding3_with_mode(View(t), host, g.path, mode, {}))

BindMount(t, source, target, mode) ==
    /\ t \in Live /\ Changes
    /\ UNCHANGED <<tree, temp>>
    /\ LET h == translate_path(View(t), tree, Cwd(t), source, TRUE)
       IN h.error = "none" /\ Mount(t, chop_finality(h.path), target, mode)

SpecialMount(t, target) ==
    /\ t \in Live /\ Changes
    /\ UNCHANGED <<tree, temp>>
    /\ Mount(t, Special, target, "rw")

TmpfsMount(t, target) ==
    /\ t \in Live /\ Changes
    /\ Nodes(tree, Scratch) = {}
    /\ tree' = tree \cup {[id |-> Scratch, at |-> Scratch, to |-> NotLink]}
    /\ temp' = tracee[t].fs
    /\ Mount(t, Scratch, target, "rw")

(* umount(2): never of the rootfs, and only of what is bound exactly there.*)
Unmounted(v, g) ==
    LET b == get_binding(v, "GUEST", g)
    IN IF g # << >> /\ b.guest = g THEN remove_binding_from_all_lists(v, b) ELSE v

Umount(t, target) ==
    /\ t \in Live /\ Changes
    /\ UNCHANGED <<tree, temp>>
    /\ LET g == guest_canonicalize(View(t), tree, Cwd(t), target)
       IN g.error = "none" /\ Rebind(t, Unmounted(View(t), g.path))

-----------------------------------------------------------------------------
(* pivot_root(2).  The old rootfs is put at "put" as seen from the new     *)
(* one, if it is below it; the finality of "put" is not chopped.           *)

PutAfter(new, put) ==
    IF Prefix(new, put) THEN SubSeq(put, Len(new) + 1, Len(put)) ELSE None

(* One binding of the snapshot: one below the new rootfs moves with it,    *)
(* any other stays and is shown below put_old as well.                     *)
Pivoted(v, b, new, put, used) ==
    IF b.guest = << >> THEN v
    ELSE IF new # << >> /\ Prefix(new, b.guest)
    THEN remove_binding_from_all_lists(
           insort_binding3(v, b.host, SubSeq(b.guest, Len(new) + 1, Len(b.guest)), used), b)
    ELSE IF put # None /\ ~Covers(put, b.guest)
    THEN insort_binding3(v, b.host, put \o b.guest, used)
    ELSE v

emulate_pivot_root(v, host, new, put) ==
    LET root == get_binding(v, "GUEST", << >>)
        used == IdsOf(v)
        switched == insort_binding3(remove_binding_from_all_lists(v, root),
                                    host, << >>, used)
        exposed == IF put = None THEN switched
                   ELSE insort_binding3(switched, root.host, put, used)
    IN Fold(LAMBDA w, b : Pivoted(w, b, new, put, used), exposed, v.guest)

PivotRoot(t, new, put) ==
    /\ t \in Live /\ Changes
    /\ UNCHANGED <<tree, temp>>
    /\ LET h == translate_path(View(t), tree, Cwd(t), new, TRUE)
           g == guest_canonicalize(View(t), tree, Cwd(t), new)
           p == canonicalize(View(t), tree, g.path, put, TRUE)
       IN /\ h.error = "none" /\ g.error = "none" /\ p.error = "none"
          /\ Rebind(t, emulate_pivot_root(View(t), chop_finality(h.path), g.path,
                                          PutAfter(g.path, p.path)))

-----------------------------------------------------------------------------
(* The working directory.  chdir(2) looks "path/." up, so that it exists   *)
(* and is a directory; what is kept is its guest path as found from the    *)
(* host path.  fchdir(2) starts from the host path of the descriptor.      *)

Enter(t, host, node) ==
    LET g == detranslate_path(View(t), host)
    IN /\ g.error = "none"
       /\ fs' = [fs EXCEPT ![tracee[t].fs].cwd = chop_finality(g.path)]
       /\ inside' = [inside EXCEPT ![tracee[t].fs] = node]

(* A directory that something was mounted over since it was opened has no  *)
(* guest path.                                                             *)
Hidden(v, host) == HostOf(v, detranslate_path(v, host).path) # host

Chdir(t, upath) ==
    /\ t \in Live /\ "moves" \in who.habits
    /\ LET h == translate_path(View(t), tree, Cwd(t),
                              [upath EXCEPT !.comps = Append(@, ".")], TRUE)
       IN /\ h.error = "none" /\ Kind(tree, chop_finality(h.path)) = "dir"
          /\ Enter(t, h.path, NodeAt(tree, chop_finality(h.path)))
    /\ lost' = lost \ {tracee[t].fs}
    /\ UNCHANGED <<tree, ns, tracee, fd, started, who, temp, changes>>

Open(t, upath) ==
    /\ t \in Live /\ "opens" \in who.habits
    /\ LET h == translate_path(View(t), tree, Cwd(t), upath, TRUE)
       IN /\ h.error = "none" /\ Kind(tree, chop_finality(h.path)) = "dir"
          /\ fd' = [fd EXCEPT ![t] = NodeAt(tree, chop_finality(h.path))]
    /\ UNCHANGED <<tree, ns, fs, tracee, inside, lost, started, who, temp, changes>>

Fchdir(t) ==
    /\ t \in Live /\ fd[t] # None /\ Exists(tree, fd[t])
    /\ LET base == detranslate_path(View(t), At(tree, fd[t]))
           h == translate_path(View(t), tree, base.path, UserPath(FALSE, <<".">>), TRUE)
       IN /\ base.error = "none" /\ h.error = "none"
          /\ Kind(tree, chop_finality(h.path)) = "dir"
          /\ Enter(t, h.path, fd[t])
    /\ lost' = IF Hidden(View(t), At(tree, fd[t])) THEN lost \cup {tracee[t].fs}
               ELSE lost \ {tracee[t].fs}
    /\ UNCHANGED <<tree, ns, tracee, fd, started, who, temp, changes>>

(* rename(2) of a directory: the kernel moves it (external), and the exit  *)
(* handler renames the working directory of this tracee, if it is inside.  *)
Moved(tr, old, new) ==
    {[n EXCEPT !.at = IF Covers(old, @) THEN substitute_path_prefix(@, old, new) ELSE @] :
        n \in tr}

KeptCwd(v, cwd, old, new) == cwd

RenamedCwd(v, cwd, old, new) ==
    LET o == detranslate_path(v, old)
        n == detranslate_path(v, new)
    IN IF o.error = "none" /\ n.error = "none" /\ Covers(o.path, cwd)
       THEN substitute_path_prefix(cwd, o.path, n.path) ELSE cwd

(* renameat2(2) has no exit handler; and the kernel knows nothing of the   *)
(* bindings below what it moves.  Guests do not rename what is a mount     *)
(* point for them.                                                         *)
Follows(v, call, old) ==
    call = "rename" /\ ~\E b \in Elements(v.guest) : Covers(old, b.guest)

MountPoint(v, p) == \E b \in Elements(v.guest) : b.guest = p

Rename(t, call, old, new) ==
    /\ t \in Live /\ Changes
    /\ LET g == canonicalize(View(t), tree, Cwd(t), old, FALSE)
           o == translate_path(View(t), tree, Cwd(t), old, FALSE)
           n == translate_path(View(t), tree, Cwd(t), new, FALSE)
       IN /\ o.error = "none" /\ n.error = "none" /\ ~MountPoint(View(t), g.path)
          /\ Kind(tree, o.path) = "dir" /\ Kind(tree, n.path) = "missing"
          /\ Kind(tree, pop_component(n.path)) = "dir" /\ ~Covers(o.path, n.path)
          /\ tree' = Moved(tree, o.path, n.path)
          /\ fs' = IF call = "rename"
                   THEN [fs EXCEPT ![tracee[t].fs].cwd =
                            RenamedCwd(View(t), @, o.path, n.path)]
                   ELSE fs
          /\ lost' = lost \cup Astray(tree', fs', ns, IF Follows(View(t), call, g.path)
                                                     THEN {tracee[t].fs} ELSE {})
    /\ UNCHANGED <<ns, tracee, fd, inside, started, who, temp>>

-----------------------------------------------------------------------------
(* chroot(2), for a fake root: by the exit handler ("exit"), or by that of *)
(* SIGSYS.  Only the latter has the guest path to compare the bindings     *)
(* with, as it was passed; the former compares them with an uninitialized  *)
(* variable, so that a binding may be seen or not.                         *)

BelowNewRoot(v, upath) ==
    \E b \in Elements(v.guest) :
        b.guest # << >> /\ upath.abs /\ Prefix(upath.comps, b.guest)

SeenBelow(v, upath, by) ==
    IF by = "sigsys" THEN {BelowNewRoot(v, upath)}
    ELSE {FALSE} \cup {b.guest # << >> : b \in Elements(v.guest)}

(* The directory of a "tmpfs" is removed with the file-system name-space   *)
(* that mounted it, though others share its bindings.                      *)
Freed(others) ==
    /\ temp' = IF temp \in others THEN temp ELSE None
    /\ tree' = IF temp \in others \cup {None} THEN tree
               ELSE {n \in tree : ~Covers(Scratch, n.at)}

(* A name-space of its own, whatever the tracee shared before.             *)
NewRoot(t, host, cwd) ==
    LET v == insort_binding3(NoBindings, host, << >>, {})
        g == detranslate_path(v, cwd)
        kept == g.error = "none" /\ host # << >>
        old == tracee[t].fs
        others == {tracee[u].fs : u \in Live \ {t}}
        spaces == [i \in Spaces |-> IF i \in others THEN fs[i] ELSE None]
        used == {spaces[i].ns : i \in others}
    IN \E i \in Spaces \ others, j \in Spaces \ used :
        /\ \A k \in Spaces \ others : i <= k
        /\ \A k \in Spaces \ used : j <= k
        /\ ns' = [k \in Spaces |-> IF k = j THEN v ELSE IF k \in used THEN ns[k] ELSE None]
        /\ fs' = [spaces EXCEPT ![i] = [cwd |-> IF kept THEN chop_finality(g.path) ELSE << >>,
                                        ns |-> j]]
        /\ tracee' = [tracee EXCEPT ![t].fs = i]
        /\ inside' = [k \in Spaces |->
                         IF k = i THEN (IF kept THEN inside[old] ELSE NodeAt(tree, host))
                         ELSE IF k \in others THEN inside[k] ELSE None]
        /\ Freed(others)
        /\ lost' = (lost \cap others) \cup Astray(tree', fs', ns', {i})
                    \cup {k \in {i} : kept /\ (old \in lost \/ ~InPlace(tree, View(t), fs[old], inside[old]))}

(* A new rootfs that goes with the old name-space: no binding can be made  *)
(* for it, and initialize_bindings() stops PRoot by an assertion.          *)
Doomed(t, root) ==
    /\ temp = tracee[t].fs /\ \A u \in Live \ {t} : tracee[u].fs # temp
    /\ Covers(Scratch, root)

Chroot(t, upath, by) ==
    /\ t \in Live /\ Changes
    /\ LET h == translate_path(View(t), tree, Cwd(t), upath, TRUE)
           root == chop_finality(h.path)
           c == translate_path(View(t), tree, << >>, UserPath(TRUE, Cwd(t)), TRUE)
       IN /\ h.error = "none" /\ Kind(tree, root) = "dir"
          /\ root # get_root(View(t)) /\ FALSE \in SeenBelow(View(t), upath, by)
          /\ ~Doomed(t, root) /\ c.error = "none"
          /\ NewRoot(t, root, c.path)
    /\ UNCHANGED <<fd, started, who>>

-----------------------------------------------------------------------------
(* clone(2).  A CLONE_NEWNS is stripped from the flags and remembered; it  *)
(* is forgotten once a child was attached.                                 *)

NewnsFails(t) ==
    /\ t \in Live /\ "fails" \in who.habits /\ ~tracee[t].newns
    /\ tracee' = [tracee EXCEPT ![t].newns = TRUE]
    /\ UNCHANGED <<tree, ns, fs, fd, inside, lost, started, who, temp, changes>>

CopiedToHead(v) ==
    LET Reversed(list) == [i \in DOMAIN list |-> list[Len(list) + 1 - i]]
    IN [guest |-> Reversed(v.guest), host |-> Reversed(v.host)]

Copied(v) == Fold(LAMBDA w, b : insort_binding3(w, b.host, b.guest, {}), NoBindings, v.guest)

ShareFs(t, c) ==
    /\ tracee' = [tracee EXCEPT ![t].newns = FALSE,
                                ![c] = [fs |-> tracee[t].fs, newns |-> FALSE]]
    /\ UNCHANGED <<ns, fs, inside, lost>>

CopyFs(t, c, newns) ==
    \E i, j \in Spaces :
        /\ fs[i] = None /\ \A k \in Spaces : fs[k] = None => i <= k
        /\ IF newns THEN ns[j] = None /\ \A k \in Spaces : ns[k] = None => j <= k
                    ELSE j = fs[tracee[t].fs].ns
        /\ ns' = IF newns THEN [ns EXCEPT ![j] = Copied(View(t))] ELSE ns
        /\ fs' = [fs EXCEPT ![i] = [cwd |-> Cwd(t), ns |-> j]]
        /\ inside' = [inside EXCEPT ![i] = inside[tracee[t].fs]]
        /\ lost' = IF tracee[t].fs \in lost THEN lost \cup {i} ELSE lost
        /\ tracee' = [tracee EXCEPT ![t].newns = FALSE,
                                    ![c] = [fs |-> i, newns |-> FALSE]]

Clone(t, c, flags) ==
    /\ t \in Live /\ c \in Tracees \ Live /\ "clones" \in who.habits
    /\ IF "FS" \in flags THEN ShareFs(t, c)
       ELSE CopyFs(t, c, tracee[t].newns \/ "NEWNS" \in flags)
    /\ fd' = [fd EXCEPT ![c] = fd[t]]
    /\ UNCHANGED <<tree, started, who, temp, changes>>

Exit(t) ==
    LET others == {tracee[u].fs : u \in Live \ {t}}
        used == {fs[i].ns : i \in others}
    IN /\ t \in Live /\ others # {} /\ "exits" \in who.habits
       /\ tracee' = [tracee EXCEPT ![t] = None]
       /\ fd' = [fd EXCEPT ![t] = None]
       /\ fs' = [i \in Spaces |-> IF i \in others THEN fs[i] ELSE None]
       /\ ns' = [i \in Spaces |-> IF i \in used THEN ns[i] ELSE None]
       /\ inside' = [i \in Spaces |-> IF i \in others THEN inside[i] ELSE None]
       /\ Freed(others)
       /\ lost' = (lost \cap others) \cup Astray(tree', fs', ns', {})
       /\ UNCHANGED <<started, who, changes>>

-----------------------------------------------------------------------------
Next ==
    \E t \in Tracees :
        \/ \E p \in Binds : BindMount(t, p.old, p.new, p.mode)
        \/ \E p \in Pivots : PivotRoot(t, p.new, p.old)
        \/ \E p \in Renames : Rename(t, p.mode, p.old, p.new)
        \/ \E p \in UserPaths :
              \/ SpecialMount(t, p) \/ TmpfsMount(t, p) \/ Umount(t, p)
              \/ \E by \in {"exit", "sigsys"} : Chroot(t, p, by)
              \/ Chdir(t, p) \/ Open(t, p)
        \/ Fchdir(t)
        \/ NewnsFails(t)
        \/ \E c \in Tracees : \E flags \in {{}, {"FS"}, {"NEWNS"}} : Clone(t, c, flags)
        \/ Exit(t)

Spec == Init /\ [][Next]_vars

-----------------------------------------------------------------------------
Used == {i \in Spaces : ns[i] # None}

TypeOK ==
    /\ \A i \in Spaces : ns[i] # None => ns[i] \in Bindings
    /\ \A i \in Spaces : fs[i] # None =>
           /\ fs[i].cwd \in Seq(Names) /\ fs[i].ns \in Used
           /\ i \notin lost => \E n \in tree : n.id = inside[i] /\ n.to = NotLink
    /\ \A t \in Live : fs[tracee[t].fs] # None /\ tracee[t].newns \in BOOLEAN
    /\ lost \subseteq {i \in Spaces : fs[i] # None}
    /\ changes \in 0..who.changes

(* Whatever is mounted, unmounted, pivoted and cloned, in every name-space *)
(* a binding comes before those that contain it, in both lists, so that    *)
(* get_binding() finds the deepest one.                                    *)
DeepestFirst == \A i \in Used : NestedFirst(ns[i])

(* Both lists of a name-space have the same bindings, one for a guest path,*)
(* and end with the rootfs, as get_root() asserts.                         *)
ListsAgree == \A i \in Used : SameOnBothSides(ns[i]) /\ RootIsLast(ns[i])

(* A guest path that is used as the key of a binding has lost its final    *)
(* "/." (guest_canonicalize() says that this is what makes it a key).      *)
Keyed(v) == \A b \in Elements(v.guest) : ~\E i \in DOMAIN b.guest : b.guest[i] = "."

KeysAreChopped == \A i \in Used : Keyed(ns[i])

(* translate_path() finds what Linux finds with the same mounts, errors    *)
(* included, if at most MaxLinks links are followed and none is a link     *)
(* that PRoot means to interpret by itself; a relative path, if the path   *)
(* of the working directory is still there.                                *)
ResolvesLikeLinux ==
    \A t \in Live, p \in Lookups, deref \in BOOLEAN :
        LET l == LinuxResolves(View(t), tree, Cwd(t), p, deref)
            h == translate_path(View(t), tree, Cwd(t), p, deref)
            there == \A k \in 1..Len(Cwd(t)) :
                        Kind(tree, HostOf(View(t), SubSeq(Cwd(t), 1, k))) = "dir"
        IN Keyed(View(t)) /\ l.links <= MaxLinks /\ ~l.odd /\ (p.abs \/ there) =>
             /\ h.error = l.error
             /\ l.error = "none" => chop_finality(h.path) = Mounted(View(t), l.path)

(* The binding of a link's host path that detranslate_path() asserts to    *)
(* exist does exist.                                                       *)
ReferrerIsBound ==
    \A i \in Used, p \in Probes :
        LET h == HostOf(ns[i], p)
        IN ~belongs_to_guestfs(ns[i], h) => get_binding(ns[i], "HOST", h) # NoBinding

(* The working directory, kept as a guest path, designates the directory   *)
(* the process is in under Linux, through chdir, fchdir, clones and its    *)
(* own renames, unless somebody led it astray by changing the bindings or  *)
(* by a rename, and unless a host directory is visible at two places.      *)
Apart(v) == \A b, c \in Elements(v.guest) : b # c => ~Covers(b.host, c.host)

CwdNamesItsDirectory ==
    \A i \in Spaces \ lost :
        fs[i] # None /\ Apart(ns[fs[i].ns]) /\ Keyed(ns[fs[i].ns])
            => InPlace(tree, ns[fs[i].ns], fs[i], inside[i])

(* umount(2) of what has just been mounted where nothing was bound brings  *)
(* both lists back ("This is the inverse of emulate_mount()").             *)
UmountUndoesMount ==
    \A i \in Used, p, q \in Probes :
        (\A b \in Elements(ns[i].guest) : b.guest # q) =>
            Unmounted(insort_binding3(ns[i], p, q, {}), q) = ns[i]

(* After pivot_root(2), what was below the new rootfs is at its place from *)
(* the root, unless a binding of the old rootfs stays there; and the old   *)
(* rootfs is found below put_old, the new one excepted, unless something   *)
(* was bound there already.  (Of a working directory that was led astray,  *)
(* translate_path() and guest_canonicalize() may disagree.)                *)
Kept(v, new, p) ==
    \E b \in Elements(v.guest) : b.guest # << >> /\ ~Prefix(new, b.guest) /\ Covers(b.guest, p)

Taken(v, put) == \E b \in Elements(v.guest) : Covers(put, b.guest)

PivotMoves ==
    [][\A t \in {u \in Live : tracee[u].fs \notin lost}, p \in Pivots :
         ns' # ns /\ PivotRoot(t, p.new, p.old) /\ Keyed(View(t)') =>
           LET v == View(t)
               new == guest_canonicalize(v, tree, Cwd(t), p.new).path
               put == PutAfter(new, canonicalize(v, tree, new, p.old, TRUE).path)
           IN \A x \in Probes :
                /\ (put = None \/ ~Covers(put, x)) /\ ~Kept(v, new, x)
                      => HostOf(View(t)', x) = HostOf(v, new \o x)
                /\ put # None /\ ~Taken(v, new \o put) /\ ~Covers(put, x) /\ ~Covers(new, x)
                      => HostOf(View(t)', put \o x) = HostOf(v, x)]_vars

(* A child sees at first what its parent sees, in its own copy of the      *)
(* bindings too.                                                           *)
ChildSeesTheSame ==
    [][\A t \in Live, c \in Tracees \ Live, flags \in SUBSET {"FS", "NEWNS"} :
         Clone(t, c, flags) =>
           /\ Cwd(c)' = Cwd(t)
           /\ \A x \in Probes : HostOf(View(c)', x) = HostOf(View(t), x)
           /\ Apart(View(t)) => \A x \in Probes :
                detranslate_path(View(c)', HostOf(View(t), x))
                    = detranslate_path(View(t), HostOf(View(t), x))]_vars

(* Bindings of the command line are not removed by umount(2) ("Bindings    *)
(* put in place at PRoot startup [...] are NOT removed").                  *)
StartupBindingsStay ==
    [][\A t \in Tracees, p \in UserPaths :
         Umount(t, p) => \A b \in started : b \in Elements(View(t).guest)
                                             => b \in Elements(View(t)'.guest)]_vars

(* A tracee that changes its rootfs gets one: initialize_bindings() asserts*)
(* that there is one to start from.                                        *)
NewRootExists ==
    \A t \in Live, p \in UserPaths :
        LET h == translate_path(View(t), tree, Cwd(t), p, TRUE)
        IN h.error = "none" /\ Kind(tree, chop_finality(h.path)) = "dir"
             /\ chop_finality(h.path) # get_root(View(t)) /\ ~BelowNewRoot(View(t), p)
               => ~Doomed(t, chop_finality(h.path))

(* What a binding shows is not taken away while it is bound: the directory *)
(* made for a "tmpfs" lasts as long as its binding.                        *)
TmpfsStays ==
    \A i \in Used : \A b \in Elements(ns[i].guest) :
        b.host = Scratch => Kind(tree, Scratch) = "dir"

(* Tracees that share the file system information (CLONE_FS) go on sharing *)
(* it ("Any call to chroot(2) [...] also affects the other process").      *)
FsStaysShared ==
    [][\A t, c \in Tracees : t \in Live /\ c \in Live /\ tracee[t].fs = tracee[c].fs
         /\ tracee[t]' # None /\ tracee[c]' # None => tracee[t].fs' = tracee[c].fs']_vars

(* Only a child whose clone asked for CLONE_NEWNS has its own bindings.    *)
PlainClonesShare ==
    [][\A t, c \in Tracees : Clone(t, c, {}) => fs[tracee[c].fs].ns' = fs[tracee[t].fs].ns]_vars

(* A read-only binding stays read-only in the copy made for a child.       *)
ModesAreCopied ==
    [][\A t, c \in Tracees : Clone(t, c, {"NEWNS"}) =>
         \A b \in Elements(View(t).guest) : b.mode = "ro" =>
             \E d \in Elements(View(c)'.guest) : d.guest = b.guest /\ d.mode = "ro"]_vars
=============================================================================
