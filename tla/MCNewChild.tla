----------------------------- MODULE MCNewChild -----------------------------
(***************************************************************************)
(* Instances of NewChild for TLC: three tasks of which one is killed, and  *)
(* four, so that two creators wait for their children at once.             *)
(***************************************************************************)
EXTENDS NewChild

MCGuests == {[flags |-> {"fork", "vfork", "thread"}, tasks |-> 3, kills |-> 1],
             [flags |-> {"vfork", "thread"}, tasks |-> 4, kills |-> 0]}
=============================================================================
