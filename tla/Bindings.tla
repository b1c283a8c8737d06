------------------------------ MODULE Bindings ------------------------------
(***************************************************************************)
(* The bindings of a file-system name-space of PRoot (path/binding.c): the *)
(* two lists that translate guest paths to host paths and back.            *)
(*                                                                         *)
(* A path is the sequence of its components, "/" is the empty one.  A      *)
(* binding has an identity ("id", its address), because one that was       *)
(* replaced may have the value of another.  "guest" is the list sorted for *)
(* guest paths, "host" the one sorted for host paths.                      *)
(***************************************************************************)
EXTENDS Integers, Sequences, FiniteSets

CONSTANTS Names,    \* components of paths
          Ids,      \* identities of bindings
          NoBinding \* the null pointer

ASSUME BindingsAssumption == NoBinding \notin [id : Ids, host : Seq(Names),
                                guest : Seq(Names), mode : {"rw", "ro"}]

Binding == [id : Ids, host : Seq(Names), guest : Seq(Names), mode : {"rw", "ro"}]

Bindings == [guest : Seq(Binding), host : Seq(Binding)]

NoBindings == [guest |-> << >>, host |-> << >>]

Elements(list) == {list[i] : i \in DOMAIN list}

-----------------------------------------------------------------------------
(* Comparison of paths: PATH1_IS_PREFIX is strict.                         *)

Prefix(p, q) == Len(p) < Len(q) /\ \A i \in DOMAIN p : p[i] = q[i]

Covers(p, q) == p = q \/ Prefix(p, q)

substitute_path_prefix(path, old, new) ==
    new \o SubSeq(path, Len(old) + 1, Len(path))

Side(b, side) == IF side = "GUEST" THEN b.guest ELSE b.host

-----------------------------------------------------------------------------
(* Insertion and removal.                                                  *)

Removed(list, n) ==
    [i \in 1..Len(list) - 1 |-> IF i < n THEN list[i] ELSE list[i + 1]]

Without(list, b) ==
    IF b \in Elements(list)
    THEN Removed(list, CHOOSE i \in DOMAIN list : list[i] = b) ELSE list

remove_from_guest(ns, b) == [ns EXCEPT !.guest = Without(@, b)]

remove_binding_from_all_lists(ns, b) ==
    [guest |-> Without(ns.guest, b), host |-> Without(ns.host, b)]

(* Where the bindings are that the new one contains; on the host side also *)
(* those of the same path (on the guest side such a one is replaced).      *)
Contained(list, side, b) ==
    {i \in DOMAIN list : Covers(Side(b, side), Side(list[i], side))}

Inserted(list, n, b) ==
    [i \in 1..Len(list) + 1 |-> IF i < n THEN list[i]
                                ELSE IF i = n THEN b ELSE list[i - 1]]

(* After the last binding it contains, otherwise first: "next" starts as   *)
(* the first binding of the list, so that the deepest container is never   *)
(* looked for.                                                             *)
insort_binding(list, side, b) ==
    LET below == Contained(list, side, b)
        last == CHOOSE i \in below : \A j \in below : j <= i
    IN Inserted(list, IF below = {} THEN 1 ELSE last + 1, b)

(* A binding of the same guest path gives its place to the new one and     *)
(* leaves both lists.                                                      *)
insort_binding2(ns, b) ==
    LET same == {x \in Elements(ns.guest) : x.guest = b.guest}
        old == CHOOSE x \in same : TRUE
    IN IF same = {}
       THEN [guest |-> insort_binding(ns.guest, "GUEST", b),
             host |-> insort_binding(ns.host, "HOST", b)]
       ELSE [guest |-> [i \in DOMAIN ns.guest |->
                           IF ns.guest[i].guest = b.guest THEN b ELSE ns.guest[i]],
             host |-> insort_binding(Without(ns.host, old), "HOST", b)]

-----------------------------------------------------------------------------
(* Lookup.                                                                 *)

(* The host path of the rootfs: that of the last binding of the list.      *)
get_root(ns) == ns.guest[Len(ns.guest)].host

belongs_to_guestfs(ns, p) == Covers(get_root(ns), p)

First(list, side, p) ==
    LET hits == {i \in DOMAIN list : Covers(Side(list[i], side), p)}
    IN IF hits = {} THEN NoBinding
       ELSE list[CHOOSE i \in hits : \A j \in hits : i <= j]

(* A host path of the rootfs is that of no other binding, unless the       *)
(* rootfs is "/".                                                          *)
get_binding(ns, side, p) ==
    IF side = "GUEST" THEN First(ns.guest, side, p)
    ELSE IF get_root(ns) # << >> /\ belongs_to_guestfs(ns, p) THEN NoBinding
         ELSE First(ns.host, side, p)

(* The path on the other side; of a guest path there always is one.        *)
substitute_binding(ns, side, p) ==
    LET b == get_binding(ns, side, p)
    IN substitute_path_prefix(p, Side(b, side),
                              IF side = "GUEST" THEN b.host ELSE b.guest)

-----------------------------------------------------------------------------
(* What the lists promise.                                                 *)

(* On neither side does a binding come after one that contains it: the     *)
(* first match of get_binding() is the deepest ("nested" bindings are      *)
(* deterministic, says insort_binding()).                                  *)
Sorted(list, side) ==
    \A i, j \in DOMAIN list :
        Prefix(Side(list[i], side), Side(list[j], side)) => j < i

NestedFirst(ns) == Sorted(ns.guest, "GUEST") /\ Sorted(ns.host, "HOST")

(* Both lists hold the same bindings, each once, and no two of them have   *)
(* the same guest path ("only the last binding is active").                *)
OneEach(list) == \A i, j \in DOMAIN list : list[i] = list[j] => i = j

SameOnBothSides(ns) ==
    /\ Elements(ns.guest) = Elements(ns.host)
    /\ OneEach(ns.host)
    /\ \A i, j \in DOMAIN ns.guest : ns.guest[i].guest = ns.guest[j].guest => i = j

(* The rootfs is the last binding, as get_root() asserts.                  *)
RootIsLast(ns) == ns.guest # << >> /\ ns.guest[Len(ns.guest)].guest = << >>
=============================================================================
