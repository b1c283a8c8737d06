------------------------------- MODULE Canon -------------------------------
(***************************************************************************)
(* Path resolution of PRoot: canonicalize() (path/canon.c), and            *)
(* translate_path() and detranslate_path() (path/path.c), over the         *)
(* bindings of a name-space and the tree of the host; and how Linux        *)
(* resolves the same path with the same mounts, as the reference.          *)
(*                                                                         *)
(* A tree is a set of nodes [id, at, to]: a directory when "to" is NotLink,*)
(* otherwise a symbolic link.  What a caller or a link names is a user     *)
(* path [abs, comps], whose components include "." and "..".  A canonical  *)
(* path keeps a final "." (FINAL_DOT) until chop_finality(); a final "/",  *)
(* which compare_paths() ignores, is left out.                             *)
(*                                                                         *)
(* Not modelled: the links of /proc that PRoot generates (path/proc.c),    *)
(* the glue of missing mount points, extensions and access modes, names    *)
(* that are too long.                                                      *)
(***************************************************************************)
EXTENDS Bindings

CONSTANTS NotLink,  \* of a node that is a directory
          MaxLinks  \* 3: recursion_level of canonicalize() may not exceed it

UserPath(abs, comps) == [abs |-> abs, comps |-> comps]

Found(path) == [path |-> path, error |-> "none"]
Error(e) == [path |-> << >>, error |-> e]

-----------------------------------------------------------------------------
(* The host.                                                               *)

Nodes(tree, p) == {n \in tree : n.at = p}

(* lstat() by the tracer.                                                  *)
Kind(tree, p) == IF \E n \in Nodes(tree, p) : n.to = NotLink THEN "dir"
                 ELSE IF Nodes(tree, p) # {} THEN "link" ELSE "missing"

Referee(tree, p) == (CHOOSE n \in Nodes(tree, p) : TRUE).to

pop_component(p) == IF p = << >> THEN p ELSE SubSeq(p, 1, Len(p) - 1)

-----------------------------------------------------------------------------
(* detranslate_path() of an absolute host path: of what a system call      *)
(* returned, or (Referee) of what the link at host path "referrer" says.   *)

Stripped(ns, p) == SubSeq(p, Len(get_root(ns)) + 1, Len(p))

detranslate_path(ns, p) ==
    IF get_binding(ns, "HOST", p) # NoBinding
    THEN Found(substitute_binding(ns, "HOST", p))
    ELSE IF belongs_to_guestfs(ns, p) THEN Found(Stripped(ns, p)) ELSE Error("EPERM")

(* Links of a binding into itself are shown as the guest sees them.        *)
SameBinding(ns, p, referrer) ==
    /\ ~belongs_to_guestfs(ns, referrer)
    /\ get_binding(ns, "HOST", p) # NoBinding
    /\ get_binding(ns, "HOST", p).host = get_binding(ns, "HOST", referrer).host

detranslate_referee(ns, to, referrer) ==
    IF ~to.abs THEN to
    ELSE UserPath(TRUE,
           IF SameBinding(ns, to.comps, referrer)
           THEN substitute_binding(ns, "HOST", to.comps)
           ELSE IF belongs_to_guestfs(ns, to.comps) THEN Stripped(ns, to.comps)
                ELSE to.comps)

-----------------------------------------------------------------------------
(* The loop of canonicalize(): "path" is the guest path so far, "followed" *)
(* counts the links of this level of recursion.  A component that is not   *)
(* the last has to be a directory, or a link to one.                       *)

Step(path, followed) == [path |-> path, error |-> "none", followed |-> followed]
Fails(error) == [path |-> << >>, error |-> error, followed |-> 0]

HostKind(ns, tree, path) == Kind(tree, substitute_binding(ns, "GUEST", path))

\* After a link: "referee" is what canonicalize() of what it says returned.
Followed(ns, tree, referee, final, followed) ==
    IF referee.error # "none" THEN Fails(referee.error)
    ELSE IF ~final /\ HostKind(ns, tree, referee.path) = "missing" THEN Fails("ENOENT")
    ELSE Step(referee.path, followed + 1)

LinkAt(ns, tree, host) == detranslate_referee(ns, Referee(tree, host), host)

RECURSIVE Walk(_, _, _, _, _, _, _)
RECURSIVE FromStep(_, _, _, _, _, _)
RECURSIVE Referred(_, _, _, _, _)

Referred(ns, tree, path, to, level) ==
    Walk(ns, tree, IF to.abs THEN << >> ELSE path, to.comps, TRUE, 0, level)

FromStep(ns, tree, step, rest, deref, level) ==
    IF step.error # "none" THEN Error(step.error)
    ELSE Walk(ns, tree, step.path, rest, deref, step.followed, level)

Walk(ns, tree, path, rest, deref, followed, level) ==
    IF rest = << >> THEN Found(path)
    ELSE LET final == Len(rest) = 1
             next == Append(path, Head(rest))
             level1 == level + followed + 1
         IN FromStep(ns, tree,
              CASE Head(rest) = "." -> Step(path, followed)
                [] Head(rest) = ".." -> Step(pop_component(path), followed)
                [] OTHER ->
                   IF HostKind(ns, tree, next) = "missing" /\ ~final THEN Fails("ENOENT")
                   ELSE IF HostKind(ns, tree, next) # "link" \/ (final /\ ~deref)
                   THEN Step(next, followed)
                   ELSE IF level1 > MaxLinks THEN Fails("ELOOP")
                   ELSE Followed(ns, tree,
                          Referred(ns, tree, path,
                            LinkAt(ns, tree, substitute_binding(ns, "GUEST", next)), level1),
                          final, followed),
              Tail(rest), deref, level)

EndsInDot(p) == p # << >> /\ p[Len(p)] = "."

canonicalize_level1(ns, tree, base, upath, deref) ==
    Walk(ns, tree, IF upath.abs THEN << >> ELSE base, upath.comps, deref, 0, 1)

\* A path that ends in "." keeps it.
WithFinality(g, comps) ==
    IF g.error = "none" /\ EndsInDot(comps) THEN Found(Append(g.path, ".")) ELSE g

canonicalize(ns, tree, base, upath, deref) ==
    WithFinality(Walk(ns, tree, IF upath.abs THEN << >> ELSE base, upath.comps, deref, 0, 0),
                 upath.comps)

chop_finality(p) == IF EndsInDot(p) THEN SubSeq(p, 1, Len(p) - 1) ELSE p

\* The host path of a guest path, if there is one.
Substituted(ns, g) ==
    IF g.error # "none" THEN g ELSE Found(substitute_binding(ns, "GUEST", g.path))

(* translate_path(): the base is joined to the path, then canonicalized.   *)
translate_path(ns, tree, base, upath, deref) ==
    Substituted(ns, canonicalize(ns, tree, << >>,
        UserPath(TRUE, IF upath.abs THEN upath.comps ELSE base \o upath.comps), deref))

Chopped(g) == [g EXCEPT !.path = chop_finality(g.path)]

(* guest_canonicalize() of a mount point, and of a rootfs to be.           *)
guest_canonicalize(ns, tree, cwd, upath) == Chopped(canonicalize(ns, tree, cwd, upath, TRUE))

-----------------------------------------------------------------------------
(* The reference: Linux looks a path up in the deepest mount that covers   *)
(* it, and puts what a link says before the rest of the path.              *)

Deepest(ns, p) ==
    CHOOSE b \in Elements(ns.guest) :
        /\ Covers(b.guest, p)
        /\ \A c \in Elements(ns.guest) : Covers(c.guest, p) => Len(c.guest) <= Len(b.guest)

Mounted(ns, p) == substitute_path_prefix(p, Deepest(ns, p).guest, Deepest(ns, p).host)

(* "odd": met an absolute link of a binding, or one that names the rootfs  *)
(* by its host path, which PRoot interprets in its own way.  Linux follows *)
(* 40 links; the reference gives up once there are more than PRoot allows. *)
RECURSIVE LinuxWalk(_, _, _, _, _, _, _)
LinuxWalk(ns, tree, path, rest, deref, links, odd) ==
    IF rest = << >>
    THEN [path |-> path, error |-> "none", links |-> links, odd |-> odd]
    ELSE LET next == Append(path, Head(rest))
             host == Mounted(ns, next)
             to == Referee(tree, host)
         IN CASE Head(rest) = "." -> LinuxWalk(ns, tree, path, Tail(rest), deref, links, odd)
              [] Head(rest) = ".." ->
                 LinuxWalk(ns, tree, pop_component(path), Tail(rest), deref, links, odd)
              [] OTHER ->
                 IF Kind(tree, host) = "missing" /\ Len(rest) > 1
                 THEN [path |-> << >>, error |-> "ENOENT", links |-> links, odd |-> odd]
                 ELSE IF Kind(tree, host) # "link" \/ (Len(rest) = 1 /\ ~deref)
                 THEN LinuxWalk(ns, tree, next, Tail(rest), deref, links, odd)
                 ELSE IF links > MaxLinks
                 THEN [path |-> << >>, error |-> "unknown", links |-> links, odd |-> odd]
                 ELSE LinuxWalk(ns, tree, IF to.abs THEN << >> ELSE path,
                                to.comps \o Tail(rest), deref, links + 1,
                                odd \/ (to.abs /\ detranslate_referee(ns, to, host) # to))

LinuxResolves(ns, tree, base, upath, deref) ==
    LinuxWalk(ns, tree, IF upath.abs THEN << >> ELSE base, upath.comps, deref, 0, FALSE)
=============================================================================
