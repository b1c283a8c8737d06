---------------------------- MODULE MCLink2Symlink -----------------------------
(***************************************************************************)
(* Instances of Link2Symlink for TLC: two names whose links are made with  *)
(* the same prefix, and a third one.                                       *)
(***************************************************************************)
EXTENDS Link2Symlink

CONSTANTS t1, t2, n1, n2, n3, b1, b2

MCTracee == {t1, t2}
MCName == {n1, n2, n3}
MCBase == (n1 :> b1) @@ (n2 :> b1) @@ (n3 :> b2)

MCGuests == {{"renames", "overlap"},
             {"overlap", "rejects"},
             {"renames", "flags", "symlinks", "eacces"},
             {"renames", "tmpfiles"},
             {"crashes"},
             {"races"},
             {"enospc", "tmpfiles"}}
EnospcGuests == {{"enospc"}}

MCSymmetry == Permutations({t1, t2}) \union Permutations({n1, n2})

================================================================================
