------------------------------ MODULE MCFsView ------------------------------
(***************************************************************************)
(* A rootfs /r with a directory, one in it, and two links; a host directory*)
(* /h with a directory and a link; PRoot is started with that rootfs alone,*)
(* with /h bound at /a, and with /h bound at /l and at /a/b.               *)
(***************************************************************************)
EXTENDS FsView

Dir(p) == [id |-> p, at |-> p, to |-> NotLink]
Link(p, abs, comps) == [id |-> p, at |-> p, to |-> UserPath(abs, comps)]

Dirs == {Dir(p) : p \in {<< >>, <<"r">>, <<"r", "a">>, <<"r", "a", "b">>, <<"h">>, <<"h", "b">>}}

Rel == Link(<<"r", "l">>, FALSE, <<"a">>)
Abs == Link(<<"r", "l">>, TRUE, <<"a">>)
Loop == Link(<<"r", "l">>, FALSE, <<"l">>)
Up == Link(<<"h", "l">>, FALSE, <<"..", "l">>)
Within == Link(<<"h", "l">>, TRUE, <<"h", "b">>)

Root == [host |-> <<"r">>, guest |-> << >>]
AtA == [host |-> <<"h">>, guest |-> <<"a">>]
AtB == [host |-> <<"h">>, guest |-> <<"a", "b">>]
AtL == [host |-> <<"h">>, guest |-> <<"l">>]

World(links, config) == [tree |-> Dirs \cup links, config |-> config]

MCWorlds == {World({Abs}, <<Root>>), World({Loop, Within}, <<AtA, Root>>),
             World({Rel, Up}, <<Root, AtL, AtB>>)}

MCUserPaths == {UserPath(TRUE, << >>), UserPath(TRUE, <<"a">>), UserPath(FALSE, <<"b">>),
                UserPath(TRUE, <<"l", "b">>), UserPath(FALSE, <<".">>)}

MCLookups == MCUserPaths \cup {UserPath(TRUE, <<"l", "..", "l", "..", "l", "b">>)}

A == UserPath(TRUE, <<"a">>)
B == UserPath(FALSE, <<"b">>)
Here == UserPath(FALSE, <<".">>)
Linked == UserPath(TRUE, <<"l", "b">>)
Two(old, new, mode) == [old |-> old, new |-> new, mode |-> mode]

MCBinds == {Two(A, B, "ro"), Two(Here, A, "rw")}
MCPivots == {Two(B, A, "rw"), Two(Here, A, "rw"), Two(Linked, Here, "rw")}
MCRenames == {Two(A, UserPath(TRUE, <<"b">>), "rename"), Two(B, UserPath(TRUE, <<"b">>), "rename"),
              Two(A, UserPath(TRUE, <<"b">>), "renameat2")}

MCGuests == {[habits |-> {"moves", "opens"}, changes |-> 1],
             [habits |-> {"moves"}, changes |-> 2],
             [habits |-> {"clones", "exits", "fails"}, changes |-> 1],
             [habits |-> {"clones"}, changes |-> 2],
             [habits |-> {"clones", "moves"}, changes |-> 1]}

MCSpecial == <<"h">>
MCScratch == <<"t">>

MCProbes == {<< >>, <<"a">>, <<"a", "b">>, <<"b">>, <<"l">>}
=============================================================================
