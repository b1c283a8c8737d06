------------------------------- MODULE HardLinks -------------------------------
(***************************************************************************)
(* What link(2), unlink(2), rename(2) and the calls that create files      *)
(* promise about hard links: a name leads to one file, and a file goes     *)
(* away only when no name leads to it any more.                            *)
(***************************************************************************)
EXTENDS Integers

CONSTANTS Name,       \* the names the guests use
          Inode       \* the files

VARIABLES names,      \* the file each name leads to, NoFile, or SymLink
          data        \* the files that exist

vars == <<names, data>>

NoFile == 0
SymLink == -1

HLTypeOK ==
    /\ names \in [Name -> Inode \union {NoFile, SymLink}]
    /\ data \subseteq Inode

\* The files of d that no name leads to any more may be deleted, the others not.
Kept(d) ==
    /\ data' \in SUBSET d
    /\ \A i \in d \ data' : \A n \in Name : names'[n] # i

Init == names = [n \in Name |-> NoFile] /\ data = {}

Create(n) ==
    /\ names[n] = NoFile
    /\ \E i \in Inode \ data :
          /\ names' = [names EXCEPT ![n] = i]
          /\ Kept(data \union {i})

Symlink(n) ==
    /\ names[n] = NoFile
    /\ names' = [names EXCEPT ![n] = SymLink]
    /\ UNCHANGED data

Link(old, new) ==
    /\ names[old] # NoFile /\ names[new] = NoFile
    /\ names' = [names EXCEPT ![new] = names[old]]
    /\ UNCHANGED data

\* linkat(2) of a file without a name: under PRoot it takes the place of
\* whatever the name led to.
Replace(n) ==
    \E i \in Inode \ data :
       /\ names' = [names EXCEPT ![n] = i]
       /\ Kept(data \union {i})

Unlink(n) ==
    /\ names[n] # NoFile
    /\ names' = [names EXCEPT ![n] = NoFile]
    /\ Kept(data)

\* Two names of the same file are left alone by rename(2).
Rename(old, new) ==
    /\ names[old] # NoFile
    /\ old # new
    /\ names[old] = names[new] => names[old] = SymLink
    /\ names' = [names EXCEPT ![new] = names[old], ![old] = NoFile]
    /\ Kept(data)

Exchange(old, new) ==
    /\ names[old] # NoFile /\ names[new] # NoFile
    /\ names' = [names EXCEPT ![new] = names[old], ![old] = names[new]]
    /\ UNCHANGED data

\* Files without names are deleted.
Reclaim ==
    /\ UNCHANGED names
    /\ Kept(data)

Next ==
    \/ \E n \in Name : Create(n) \/ Symlink(n) \/ Replace(n) \/ Unlink(n)
    \/ \E old, new \in Name : Link(old, new) \/ Rename(old, new) \/ Exchange(old, new)
    \/ Reclaim

Spec == Init /\ [][Next]_vars

================================================================================
