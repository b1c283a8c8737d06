-------------------------- MODULE PtraceEmuProofs ---------------------------
(***************************************************************************)
(* Theorems about the emulation of ptrace(2) and wait(2), for any number   *)
(* of processes and any guests.                                            *)
(*                                                                         *)
(* Sound is inductive by itself: what PRoot has freed is nobody's ptracer, *)
(* parent or ptracee, and nb_ptracees counts.  Settled, on top of it, says *)
(* that an event is pending for stopped ptracees only, and never for one   *)
(* that waits; it is what makes the assertions hold and what makes a wait  *)
(* find the events that are there.                                         *)
(***************************************************************************)
EXTENDS PtraceEmu, FiniteSetTheorems, TLAPS

\* Time limits of the provers, for every leaf below.
USE ZenonT(30), SMTT(30)

\* What is gone is out of the fields of the others, and who waits is stopped.
Removed ==
    /\ stopped \cap gone = {}
    /\ \A q \in Proc :
          /\ ptracer[q] # NULL => q \notin gone /\ ptracer[q] \notin gone /\ ptracer[q] # q
          /\ q \notin gone /\ parent[q] # NULL => parent[q] \notin gone /\ parent[q] # q
          /\ zombies[q] \subseteq gone /\ notified[q] \subseteq gone
          /\ kwait[q].result \in gone \cup {NULL}
          /\ wait_pid[q] # NULL => q \in stopped
          /\ kwait[q].at # "no" => q \notin stopped /\ "kernel_waits" \in guest

Sound == TypeOK /\ Removed /\ PtraceesCounted

\* An event is pending for a ptracee that is stopped and does not itself wait.
Pending == proot_pending \cup {x \in Proc : event[x] # "none"}

Settled == \A q \in Pending : q \in stopped /\ wait_pid[q] = NULL

PtraceInv ==
    /\ Sound
    /\ "restart_unwaited" \notin guest => Settled
    /\ NoLostWakeup
    /\ guest \cap {"restart_unwaited", "orphan_traceme"} = {} => NoAbort

-----------------------------------------------------------------------------
(***************************************************************************)
(* Counting                                                                *)
(***************************************************************************)

LEMMA SubsetsFinite ==
    ASSUME NEW S \in SUBSET Proc
    PROVE  IsFiniteSet(S) /\ Cardinality(S) \in Nat
BY ProcAssumption, FS_Subset, FS_CardinalityType

\* One ptracee more, one ptracee less.
LEMMA OneMore ==
    ASSUME NEW S \in SUBSET Proc, NEW q \in Proc, q \notin S
    PROVE  Cardinality(S \cup {q}) = Cardinality(S) + 1
BY SubsetsFinite, FS_AddElement

LEMMA OneLess ==
    ASSUME NEW S \in SUBSET Proc, NEW q \in S
    PROVE  Cardinality(S \ {q}) = Cardinality(S) - 1 /\ Cardinality(S) # 0
<1>1. IsFiniteSet(S) /\ Cardinality(S) \in Nat
  BY SubsetsFinite
<1>2. Cardinality(S \ {q}) = Cardinality(S) - 1
  BY <1>1, FS_RemoveElement
<1>3. Cardinality(S) # 0
  BY <1>1, FS_EmptySet
<1> QED
  BY <1>2, <1>3

\* attach_to_ptracer() adds q to the ptracees of p and leaves those of the others alone.
LEMMA AttachCounts ==
    ASSUME Sound, NEW q \in Proc, NEW p \in Proc, q \notin gone, p \notin gone, p # q,
           ptracer[q] = NULL, attach_to_ptracer(q, p), UNCHANGED <<gone, zombies>>
    PROVE  /\ ptracer' \in [Proc -> Proc \cup {NULL}] /\ nb_ptracees' \in [Proc -> Nat]
           /\ proot_pending' \subseteq Proc /\ event' \in [Proc -> {"none", "signal", "sysexit"}]
           /\ started' \subseteq Proc /\ ignore' \subseteq Proc
           /\ PtraceesCounted'
<1>1. /\ ptracer \in [Proc -> Proc \cup {NULL}] /\ nb_ptracees \in [Proc -> Nat]
      /\ zombies \in [Proc -> SUBSET Proc]
      /\ event \in [Proc -> {"none", "signal", "sysexit"}]
      /\ proot_pending \subseteq Proc /\ started \subseteq Proc /\ ignore \subseteq Proc
  BY DEF Sound, TypeOK
<1>2. /\ ptracer' = [ptracer EXCEPT ![q] = p] /\ nb_ptracees' = [nb_ptracees EXCEPT ![p] = @ + 1]
      /\ event' = [event EXCEPT ![q] = "none"] /\ proot_pending' = proot_pending \ {q}
      /\ started' = started \ {q} /\ ignore' = ignore \ {q}
  BY DEF attach_to_ptracer
<1>3. /\ ptracer' \in [Proc -> Proc \cup {NULL}] /\ nb_ptracees' \in [Proc -> Nat]
      /\ proot_pending' \subseteq Proc /\ event' \in [Proc -> {"none", "signal", "sysexit"}]
      /\ started' \subseteq Proc /\ ignore' \subseteq Proc
  BY SMTT(30), <1>1, <1>2
<1>4. ASSUME NEW x \in Proc, x \notin gone
      PROVE  nb_ptracees'[x] = Cardinality(Ptracees(x)') + Cardinality(zombies[x])
  <2>1. nb_ptracees[x] = Cardinality(Ptracees(x)) + Cardinality(zombies[x])
    BY <1>4 DEF Sound, PtraceesCounted
  <2>2. Ptracees(x) \in SUBSET Proc /\ zombies[x] \in SUBSET Proc
    BY <1>1 DEF Ptracees
  <2>3. Cardinality(Ptracees(x)) \in Nat /\ Cardinality(zombies[x]) \in Nat
    BY <2>2, SubsetsFinite
  <2>4. CASE x = p
    <3>1. Ptracees(x)' = Ptracees(x) \cup {q}
      BY <1>1, <1>2, <2>4 DEF Ptracees
    <3>2. q \notin Ptracees(x)
      BY <2>4, ProcAssumption DEF Ptracees
    <3>3. Cardinality(Ptracees(x)') = Cardinality(Ptracees(x)) + 1
      BY <2>2, <3>1, <3>2, OneMore
    <3>4. nb_ptracees'[x] = nb_ptracees[x] + 1
      BY <1>1, <1>2, <2>4
    <3> QED
      BY <2>1, <2>3, <3>3, <3>4
  <2>5. CASE x # p
    <3>1. Ptracees(x)' = Ptracees(x)
      BY <1>1, <1>2, <2>5, ProcAssumption DEF Ptracees
    <3>2. nb_ptracees'[x] = nb_ptracees[x]
      BY <1>1, <1>2, <2>5
    <3> QED
      BY <2>1, <3>1, <3>2
  <2> QED
    BY <2>4, <2>5
<1>5. PtraceesCounted'
  BY <1>4 DEF PtraceesCounted
<1> QED
  BY <1>3, <1>5

\* detach_from_ptracer() takes q from the ptracees of p, which were counted.
LEMMA DetachCounts ==
    ASSUME Sound, NEW q \in Proc, NEW p \in Proc, ptracer[q] = p,
           ptracer' = [ptracer EXCEPT ![q] = NULL],
           nb_ptracees' = [nb_ptracees EXCEPT ![p] = @ - 1], UNCHANGED <<gone, zombies>>
    PROVE  /\ ptracer' \in [Proc -> Proc \cup {NULL}] /\ nb_ptracees' \in [Proc -> Nat]
           /\ nb_ptracees[p] # 0
           /\ PtraceesCounted'
<1>1. /\ ptracer \in [Proc -> Proc \cup {NULL}] /\ nb_ptracees \in [Proc -> Nat]
      /\ zombies \in [Proc -> SUBSET Proc]
  BY DEF Sound, TypeOK
<1>2. p \notin gone
  BY ProcAssumption DEF Sound, Removed
<1>3. \A x \in Proc \ gone : nb_ptracees[x] = Cardinality(Ptracees(x)) + Cardinality(zombies[x])
  BY DEF Sound, PtraceesCounted
<1>4. \A x \in Proc : /\ Ptracees(x) \in SUBSET Proc /\ zombies[x] \in SUBSET Proc
                      /\ Cardinality(Ptracees(x)) \in Nat /\ Cardinality(zombies[x]) \in Nat
  BY <1>1, SubsetsFinite DEF Ptracees
<1>5. Ptracees(p)' = Ptracees(p) \ {q} /\ q \in Ptracees(p)
  BY <1>1, ProcAssumption DEF Ptracees
<1>6. Cardinality(Ptracees(p)') = Cardinality(Ptracees(p)) - 1 /\ Cardinality(Ptracees(p)) # 0
  BY <1>4, <1>5, OneLess
<1>7. nb_ptracees[p] # 0
  BY <1>2, <1>3, <1>4, <1>6
<1>8. ptracer' \in [Proc -> Proc \cup {NULL}] /\ nb_ptracees' \in [Proc -> Nat]
  BY SMTT(30), <1>1, <1>7
<1>9. ASSUME NEW x \in Proc, x \notin gone
      PROVE  nb_ptracees'[x] = Cardinality(Ptracees(x)') + Cardinality(zombies[x])
  <2>1. CASE x = p
    BY SMTT(30), <1>1, <1>2, <1>3, <1>4, <1>6, <2>1
  <2>2. CASE x # p
    <3>1. Ptracees(x)' = Ptracees(x)
      BY <1>1, <2>2, ProcAssumption DEF Ptracees
    <3> QED
      BY <1>1, <1>3, <1>9, <2>2, <3>1
  <2> QED
    BY <2>1, <2>2
<1>10. PtraceesCounted'
  BY <1>9 DEF PtraceesCounted
<1> QED
  BY <1>7, <1>8, <1>10

\* update_wait_status() takes z from the zombies of p, which were counted.
LEMMA ZombieCounts ==
    ASSUME Sound, NEW p \in Proc, p \notin gone, NEW z \in zombies[p], TakeZombie(p, z),
           UNCHANGED <<gone, ptracer>>
    PROVE  /\ zombies' \in [Proc -> SUBSET Proc] /\ nb_ptracees' \in [Proc -> Nat]
           /\ nb_ptracees[p] # 0
           /\ PtraceesCounted'
<1>1. /\ nb_ptracees \in [Proc -> Nat] /\ zombies \in [Proc -> SUBSET Proc]
  BY DEF Sound, TypeOK
<1>2. /\ zombies' = [zombies EXCEPT ![p] = @ \ {z}]
      /\ nb_ptracees' = [nb_ptracees EXCEPT ![p] = @ - 1]
  BY DEF TakeZombie
<1>3. \A x \in Proc \ gone : nb_ptracees[x] = Cardinality(Ptracees(x)) + Cardinality(zombies[x])
  BY DEF Sound, PtraceesCounted
<1>4. \A x \in Proc : /\ Ptracees(x)' = Ptracees(x) /\ zombies[x] \in SUBSET Proc
                      /\ Cardinality(Ptracees(x)) \in Nat /\ Cardinality(zombies[x]) \in Nat
  BY <1>1, SubsetsFinite DEF Ptracees
<1>5. zombies'[p] = zombies[p] \ {z}
  BY <1>1, <1>2
<1>6. Cardinality(zombies'[p]) = Cardinality(zombies[p]) - 1 /\ Cardinality(zombies[p]) # 0
  BY <1>4, <1>5, OneLess
<1>7. nb_ptracees[p] # 0
  BY <1>3, <1>4, <1>6
<1>8. zombies' \in [Proc -> SUBSET Proc] /\ nb_ptracees' \in [Proc -> Nat]
  BY SMTT(30), <1>1, <1>2, <1>7
<1>9. ASSUME NEW x \in Proc, x \notin gone
      PROVE  nb_ptracees'[x] = Cardinality(Ptracees(x)') + Cardinality(zombies'[x])
  <2>1. CASE x = p
    BY SMTT(30), <1>1, <1>2, <1>3, <1>4, <1>6, <2>1
  <2>2. CASE x # p
    BY <1>1, <1>2, <1>3, <1>4, <1>9, <2>2
  <2> QED
    BY <2>1, <2>2
<1>10. PtraceesCounted'
  BY <1>9 DEF PtraceesCounted
<1> QED
  BY <1>7, <1>8, <1>10

\* The end of q takes it from the ptracees of its ptracer, to count it among the zombies or
\* no more; the ptracees of q, free now, are counted by nobody.
LEMMA ExitCounts ==
    ASSUME Sound, NEW q \in Proc, ExitEvent(q)
    PROVE  /\ ptracer' \in [Proc -> Proc \cup {NULL}] /\ nb_ptracees' \in [Proc -> Nat]
           /\ zombies' \in [Proc -> SUBSET Proc]
           /\ ptracer[q] # NULL => nb_ptracees[ptracer[q]] # 0
           /\ PtraceesCounted'
<1>1. /\ ptracer \in [Proc -> Proc \cup {NULL}] /\ nb_ptracees \in [Proc -> Nat]
      /\ zombies \in [Proc -> SUBSET Proc]
  BY DEF Sound, TypeOK
<1>2. /\ q \notin gone
      /\ ptracer[q] # NULL => ptracer[q] \in Proc \ gone /\ ptracer[q] # q
      /\ \A x \in Proc : zombies[x] \subseteq gone
  BY <1>1, ZenonT(30) DEF Sound, Removed, ExitEvent
<1> DEFINE p == ptracer[q]
           told == p # NULL /\ Waiting(p, q)
<1>3. /\ gone' = gone \cup {q}
      /\ ptracer' = [x \in Proc |-> IF x \in Ptracees(q) \cup {q} THEN NULL ELSE ptracer[x]]
      /\ nb_ptracees' = [x \in Proc |-> IF told /\ x = p THEN nb_ptracees[x] - 1 ELSE nb_ptracees[x]]
      /\ zombies' = [x \in Proc |-> IF x = q THEN {} ELSE IF x = p /\ ~told THEN zombies[x] \cup {q}
                                                          ELSE zombies[x]]
  BY ZenonT(30) DEF ExitEvent, Zombified
<1>4. \A x \in Proc \ gone : nb_ptracees[x] = Cardinality(Ptracees(x)) + Cardinality(zombies[x])
  BY DEF Sound, PtraceesCounted
<1>5. \A x \in Proc : /\ Ptracees(x) \in SUBSET Proc /\ zombies[x] \in SUBSET Proc
                      /\ Cardinality(Ptracees(x)) \in Nat /\ Cardinality(zombies[x]) \in Nat
  BY <1>1, SubsetsFinite DEF Ptracees
<1> HIDE DEF told
<1>6. p # NULL => nb_ptracees[p] # 0
  <2> SUFFICES ASSUME p # NULL PROVE nb_ptracees[p] # 0
    OBVIOUS
  <2>1. q \in Ptracees(p) /\ p \in Proc \ gone
    BY <1>2 DEF Ptracees
  <2>2. Cardinality(Ptracees(p)) # 0
    BY <1>5, <2>1, OneLess
  <2> QED
    BY SMTT(30), <1>4, <1>5, <2>1, <2>2
<1>7. told => p \in Proc /\ p # NULL
  BY <1>2 DEF told
<1>8. ptracer' \in [Proc -> Proc \cup {NULL}] /\ zombies' \in [Proc -> SUBSET Proc]
  BY <1>1, <1>3
<1>9. nb_ptracees' \in [Proc -> Nat]
  BY SMTT(30), <1>1, <1>3, <1>6, <1>7
<1>10. ASSUME NEW x \in Proc, x \notin gone, x # q
       PROVE  nb_ptracees'[x] = Cardinality(Ptracees(x)') + Cardinality(zombies'[x])
  <2>1. Ptracees(x)' = Ptracees(x) \ {q}
    BY SMTT(30), <1>1, <1>3, <1>10, ProcAssumption DEF Ptracees
  <2>2. CASE x = p
    <3>1. q \in Ptracees(x)
      BY <2>2 DEF Ptracees
    <3>2. Cardinality(Ptracees(x)') = Cardinality(Ptracees(x)) - 1
      BY <1>5, <2>1, <3>1, OneLess
    <3>3. CASE told
      <4>1. nb_ptracees'[x] = nb_ptracees[x] - 1 /\ zombies'[x] = zombies[x]
        BY <1>3, <1>10, <2>2, <3>3
      <4> QED
        BY <1>4, <1>5, <1>10, <3>2, <4>1
    <3>4. CASE ~told
      <4>1. nb_ptracees'[x] = nb_ptracees[x] /\ zombies'[x] = zombies[x] \cup {q}
        BY <1>3, <1>10, <2>2, <3>4
      <4>2. Cardinality(zombies'[x]) = Cardinality(zombies[x]) + 1
        BY <1>2, <1>5, <4>1, OneMore
      <4> QED
        BY SMTT(30), <1>4, <1>5, <1>10, <3>2, <4>1, <4>2
    <3> QED
      BY <3>3, <3>4
  <2>3. CASE x # p
    <3>1. Ptracees(x)' = Ptracees(x)
      BY <2>1, <2>3 DEF Ptracees
    <3>2. nb_ptracees'[x] = nb_ptracees[x] /\ zombies'[x] = zombies[x]
      BY <1>3, <1>10, <2>3
    <3> QED
      BY <1>4, <1>10, <3>1, <3>2
  <2> QED
    BY <2>2, <2>3
<1>11. PtraceesCounted'
  BY <1>3, <1>10 DEF PtraceesCounted
<1> QED
  BY <1>6, <1>8, <1>9, <1>11

-----------------------------------------------------------------------------
(***************************************************************************)
(* Sound is inductive                                                      *)
(***************************************************************************)

LEMMA SoundInit == Init => Sound
<1> SUFFICES ASSUME Init PROVE Sound
  OBVIOUS
<1>1. TypeOK
  BY ProcAssumption DEF Init, TypeOK, NoKwait
<1>2. Removed
  BY ProcAssumption DEF Init, Removed, NoKwait
<1>3. \A p \in Proc : Ptracees(p) = {} /\ zombies[p] = {} /\ nb_ptracees[p] = 0
  BY ProcAssumption DEF Init, Ptracees
<1>4. Cardinality({}) = 0
  BY FS_EmptySet
<1>5. PtraceesCounted
  BY SMTT(30), <1>3, <1>4 DEF PtraceesCounted
<1> QED
  BY <1>1, <1>2, <1>5 DEF Sound

LEMMA TracemeSound ==
    ASSUME Sound, UNCHANGED guest, NEW q \in Proc, Traceme(q)
    PROVE  Sound'
<1>1. TypeOK /\ Removed /\ PtraceesCounted
  BY DEF Sound
<1>2. q \notin gone /\ UNCHANGED <<guest, parent, dead, gone, stopped, zombies, wait_pid, kwait, notified>>
  BY <1>1, ZenonT(30) DEF Traceme, Runs, TypeOK
<1>3. CASE parent[q] = NULL
  <2>1. UNCHANGED <<ptracer, proot_pending, event, started, ignore, nb_ptracees, waits_in>> /\ aborted' = TRUE
    BY <1>3 DEF Traceme
  <2> QED
    BY SMTT(30), <1>1, <1>2, <2>1 DEF Sound, TypeOK, Removed, PtraceesCounted, Ptracees
<1>4. CASE parent[q] # NULL
  <2>1. /\ attach_to_ptracer(q, parent[q]) /\ ptracer[q] = NULL /\ UNCHANGED aborted
        /\ waits_in' = [waits_in EXCEPT ![parent[q]] =
                            IF @ = "WAITS_IN_KERNEL" THEN "WAITS_IN_PROOT" ELSE @]
    BY <1>4 DEF Traceme
  <2>2. parent[q] \in Proc \ gone /\ parent[q] # q
    BY SMTT(30), <1>1, <1>2, <1>4 DEF TypeOK, Removed
  <2>3. /\ ptracer' \in [Proc -> Proc \cup {NULL}] /\ nb_ptracees' \in [Proc -> Nat]
        /\ proot_pending' \subseteq Proc /\ event' \in [Proc -> {"none", "signal", "sysexit"}]
        /\ started' \subseteq Proc /\ ignore' \subseteq Proc
        /\ PtraceesCounted'
    BY <1>2, <2>1, <2>2, AttachCounts
  <2>4. TypeOK'
    BY <1>1, <1>2, <2>1, <2>3 DEF TypeOK
  <2>5. ptracer' = [ptracer EXCEPT ![q] = parent[q]] /\ ptracer \in [Proc -> Proc \cup {NULL}]
    BY <1>1, <2>1 DEF attach_to_ptracer, TypeOK
  <2>6. Removed'
    BY <1>1, <1>2, <2>2, <2>5 DEF Removed
  <2> QED
    BY <2>3, <2>4, <2>6 DEF Sound
<1> QED
  BY <1>3, <1>4

LEMMA AttachSound ==
    ASSUME Sound, UNCHANGED guest, NEW p \in Proc, NEW q \in Proc, Attach(p, q)
    PROVE  Sound'
<1>1. TypeOK /\ Removed /\ PtraceesCounted
  BY DEF Sound
<1>2. /\ p \notin gone /\ q \notin gone /\ p # q /\ ptracer[q] = NULL /\ attach_to_ptracer(q, p)
      /\ UNCHANGED <<guest, parent, dead, gone, stopped, zombies, wait_pid, waits_in, kwait, notified, aborted>>
  BY <1>1, ZenonT(30) DEF Attach, Runs, TypeOK
<1>3. /\ ptracer' \in [Proc -> Proc \cup {NULL}] /\ nb_ptracees' \in [Proc -> Nat]
      /\ proot_pending' \subseteq Proc /\ event' \in [Proc -> {"none", "signal", "sysexit"}]
      /\ started' \subseteq Proc /\ ignore' \subseteq Proc
      /\ PtraceesCounted'
  BY <1>2, AttachCounts
<1>4. TypeOK'
  BY <1>1, <1>2, <1>3 DEF TypeOK
<1>5. ptracer' = [ptracer EXCEPT ![q] = p] /\ ptracer \in [Proc -> Proc \cup {NULL}]
  BY <1>1, <1>2 DEF attach_to_ptracer, TypeOK
<1>6. Removed'
  BY <1>1, <1>2, <1>5 DEF Removed
<1> QED
  BY <1>3, <1>4, <1>6 DEF Sound

LEMMA RestartSound ==
    ASSUME Sound, UNCHANGED guest, NEW p \in Proc, NEW q \in Proc, Restart(p, q)
    PROVE  Sound'
<1>1. TypeOK /\ Removed /\ PtraceesCounted
  BY DEF Sound
<1>2. /\ UNCHANGED <<guest, parent, dead, gone, ptracer, event, started, nb_ptracees, zombies, wait_pid,
                     waits_in, kwait, notified, aborted>>
      /\ ignore' = ignore \cup {q} \/ ignore' = ignore \ {q}
      /\ proot_pending' = proot_pending \ {q}
      /\ stopped' = IF wait_pid[q] = NULL THEN stopped \ {q} ELSE stopped
  BY DEF Restart
<1>3. TypeOK'
  BY <1>1, <1>2 DEF TypeOK
<1>4. Removed'
  BY <1>1, <1>2 DEF Removed
<1>5. PtraceesCounted'
  BY <1>1, <1>2 DEF PtraceesCounted, Ptracees
<1> QED
  BY <1>3, <1>4, <1>5 DEF Sound

LEMMA DetachSound ==
    ASSUME Sound, UNCHANGED guest, NEW p \in Proc, NEW q \in Proc, Detach(p, q)
    PROVE  Sound' /\ ~aborted'
<1>1. TypeOK /\ Removed /\ PtraceesCounted
  BY DEF Sound
<1>2. /\ UNCHANGED <<guest, parent, dead, gone, event, started, ignore, zombies, wait_pid, waits_in,
                     kwait, notified>>
      /\ ptracer[q] = p
      /\ ptracer' = [ptracer EXCEPT ![q] = NULL]
      /\ nb_ptracees' = [nb_ptracees EXCEPT ![p] = @ - 1]
      /\ aborted' = (nb_ptracees[p] = 0)
      /\ proot_pending' = proot_pending \ {q}
      /\ stopped' = IF wait_pid[q] = NULL THEN stopped \ {q} ELSE stopped
  BY DEF Detach, StoppedPtracee
<1>3. /\ ptracer' \in [Proc -> Proc \cup {NULL}] /\ nb_ptracees' \in [Proc -> Nat]
      /\ nb_ptracees[p] # 0 /\ PtraceesCounted'
  BY <1>2, DetachCounts
<1>4. ~aborted'
  BY <1>2, <1>3, ZenonT(30)
<1>5. TypeOK'
  BY <1>1, <1>2, <1>3 DEF TypeOK
<1>6. Removed'
  BY <1>1, <1>2 DEF Removed, TypeOK
<1> QED
  BY <1>3, <1>4, <1>5, <1>6 DEF Sound

\* What translate_wait_exit() changes stays sound, whoever calls it, and its assertion holds.
LEMMA WaitExitSound ==
    ASSUME Sound, UNCHANGED <<guest, parent, dead, gone, ptracer, proot_pending, started, ignore>>,
           NEW p \in Proc, p \notin gone, NEW target \in Proc \cup {ANY},
           translate_wait_exit(p, target),
           waits_in' \in [Proc -> {"DOESNT_WAIT", "WAITS_IN_KERNEL", "WAITS_IN_PROOT"}],
           kwait' \in {kwait, [kwait EXCEPT ![p] = NoKwait]}, kwait'[p].at = "no"
    PROVE  Sound' /\ (aborted' => aborted)
<1>1. TypeOK /\ Removed /\ PtraceesCounted
  BY DEF Sound
<1>2. /\ kwait' \in [Proc -> [at : {"no", "in", "back"}, target : Proc \cup {ANY}, result : Proc \cup {NULL}]]
      /\ \A x \in Proc : kwait'[x] = kwait[x] \/ (kwait'[x].result = NULL /\ kwait'[x].at = "no")
  BY SMTT(30), <1>1 DEF TypeOK, NoKwait
<1>3. ASSUME NEW z \in WaitableZombies(p, target), TakeZombie(p, z)
      PROVE  Sound' /\ ~aborted'
  <2>1. z \in zombies[p] /\ z \in gone /\ z \in Proc
    BY <1>1 DEF WaitableZombies, Removed, TypeOK
  <2>2. /\ zombies' \in [Proc -> SUBSET Proc] /\ nb_ptracees' \in [Proc -> Nat]
        /\ nb_ptracees[p] # 0 /\ PtraceesCounted'
    BY <1>3, <2>1, ZombieCounts
  <2>3. /\ zombies' = [zombies EXCEPT ![p] = @ \ {z}] /\ notified' = [notified EXCEPT ![p] = @ \cup {z}]
        /\ aborted' = (nb_ptracees[p] = 0) /\ UNCHANGED <<event, stopped, wait_pid>>
    BY <1>3 DEF TakeZombie
  <2>4. ~aborted'
    BY <2>2, <2>3, ZenonT(30)
  <2>5. TypeOK'
    BY SMTT(30), <1>1, <1>2, <2>1, <2>2, <2>3 DEF TypeOK
  <2>6. \A x \in Proc : zombies'[x] \subseteq gone /\ notified'[x] \subseteq gone
    BY SMTT(30), <1>1, <2>1, <2>3 DEF TypeOK, Removed
  <2>7. Removed'
    BY <1>1, <1>2, <2>3, <2>6 DEF Removed
  <2> QED
    BY <2>2, <2>4, <2>5, <2>7 DEF Sound
<1>4. ASSUME NEW q \in WaitableStops(p, target), TakeStop(p, q)
      PROVE  Sound' /\ aborted' = aborted
  <2>1. /\ event' = [event EXCEPT ![q] = "none"]
        /\ UNCHANGED <<zombies, nb_ptracees, aborted, notified, stopped, wait_pid>>
    BY <1>4 DEF TakeStop
  <2>2. TypeOK'
    BY <1>1, <1>2, <2>1 DEF TypeOK
  <2>3. Removed'
    BY <1>1, <1>2, <2>1 DEF Removed
  <2>4. PtraceesCounted'
    BY <1>1, <2>1 DEF PtraceesCounted, Ptracees
  <2> QED
    BY <2>1, <2>2, <2>3, <2>4 DEF Sound
<1>5. ASSUME UNCHANGED <<zombies, nb_ptracees, aborted, notified, event>>,
             \/ wait_pid' = [wait_pid EXCEPT ![p] = target] /\ stopped' = stopped \cup {p}
             \/ UNCHANGED <<wait_pid, stopped>>
      PROVE  Sound' /\ aborted' = aborted
  <2>1. TypeOK'
    BY SMTT(30), <1>1, <1>2, <1>5 DEF TypeOK
  <2>2. \A x \in Proc : /\ wait_pid'[x] # NULL => x \in stopped'
                        /\ x \in stopped' => x \in stopped \/ x = p
    BY SMTT(30), <1>1, <1>5 DEF TypeOK, Removed
  <2>3. stopped' \cap gone = {}
    BY SMTT(30), <1>1, <1>5 DEF Removed
  <2>4. Removed'
    BY <1>1, <1>2, <1>5, <2>2, <2>3 DEF Removed
  <2>5. PtraceesCounted'
    BY <1>1, <1>5 DEF PtraceesCounted, Ptracees
  <2> QED
    BY <1>5, <2>1, <2>4, <2>5 DEF Sound
<1>6. CASE \E z \in WaitableZombies(p, target) : TakeZombie(p, z)
  BY <1>3, <1>6, ZenonT(30)
<1>7. CASE \E q \in WaitableStops(p, target) : TakeStop(p, q)
  BY <1>4, <1>7, ZenonT(30)
<1>8. CASE Block(p, target)
  BY <1>5, <1>8, ZenonT(30) DEF Block
<1>9. CASE ReturnAtOnce(p, target)
  BY <1>5, <1>9, ZenonT(30) DEF ReturnAtOnce
<1> QED
  BY <1>6, <1>7, <1>8, <1>9, ZenonT(30) DEF translate_wait_exit

LEMMA WaitInPRootSound ==
    ASSUME Sound, UNCHANGED guest, NEW p \in Proc, NEW target \in Proc \cup {ANY}, WaitInPRoot(p, target)
    PROVE  Sound' /\ (aborted' => aborted)
<1>1. TypeOK
  BY DEF Sound
<1>2. /\ p \notin gone /\ kwait[p].at = "no" /\ translate_wait_exit(p, target)
      /\ waits_in' = [waits_in EXCEPT ![p] = "DOESNT_WAIT"]
      /\ UNCHANGED <<guest, parent, dead, gone, ptracer, proot_pending, started, ignore, kwait>>
  BY <1>1, ZenonT(30) DEF WaitInPRoot, Runs, TypeOK
<1>3. waits_in' \in [Proc -> {"DOESNT_WAIT", "WAITS_IN_KERNEL", "WAITS_IN_PROOT"}]
  BY <1>1, <1>2 DEF TypeOK
<1> QED
  BY <1>2, <1>3, WaitExitSound

LEMMA WaitInKernelSound ==
    ASSUME Sound, UNCHANGED guest, NEW p \in Proc, NEW target \in Proc \cup {ANY}, WaitInKernel(p, target)
    PROVE  Sound'
<1>1. TypeOK /\ Removed /\ PtraceesCounted
  BY DEF Sound
<1>2. /\ "kernel_waits" \in guest /\ p \notin stopped
      /\ waits_in' = [waits_in EXCEPT ![p] = "WAITS_IN_KERNEL"]
      /\ kwait' = [kwait EXCEPT ![p] = [at |-> "in", target |-> target, result |-> NULL]]
      /\ UNCHANGED <<guest, parent, dead, gone, stopped, ptracer, proot_pending, event, started, ignore,
                     nb_ptracees, zombies, wait_pid, notified, aborted>>
  BY ZenonT(30) DEF WaitInKernel, Runs
<1>3. TypeOK'
  BY <1>1, <1>2 DEF TypeOK
<1>4. \A x \in Proc : kwait'[x] = kwait[x] \/ (x = p /\ kwait'[x].result = NULL)
  BY <1>1, <1>2 DEF TypeOK
<1>5. Removed'
  BY <1>1, <1>2, <1>4 DEF Removed
<1>6. PtraceesCounted'
  BY <1>1, <1>2 DEF PtraceesCounted, Ptracees
<1> QED
  BY <1>3, <1>5, <1>6 DEF Sound

LEMMA KernelWaitReturnsSound ==
    ASSUME Sound, UNCHANGED guest, NEW p \in Proc, KernelWaitReturns(p)
    PROVE  Sound'
<1>1. TypeOK /\ Removed /\ PtraceesCounted
  BY DEF Sound
<1>2. PICK r \in gone \cup {NULL} : kwait' = [kwait EXCEPT ![p].at = "back", ![p].result = r]
  BY ZenonT(30) DEF KernelWaitReturns
<1>3. /\ kwait[p].at = "in"
      /\ UNCHANGED <<guest, parent, dead, gone, stopped, ptracer, proot_pending, event, started, ignore,
                     nb_ptracees, zombies, wait_pid, waits_in, notified, aborted>>
  BY ZenonT(30) DEF KernelWaitReturns
<1>4. /\ kwait' \in [Proc -> [at : {"no", "in", "back"}, target : Proc \cup {ANY}, result : Proc \cup {NULL}]]
      /\ \A x \in Proc : kwait'[x] = kwait[x] \/ (x = p /\ kwait'[x].result = r)
  <2>1. /\ kwait \in [Proc -> [at : {"no", "in", "back"}, target : Proc \cup {ANY}, result : Proc \cup {NULL}]]
        /\ r \in Proc \cup {NULL}
    BY <1>1 DEF TypeOK
  <2> DEFINE w == [kwait[p] EXCEPT !.at = "back", !.result = r]
  <2>2. /\ w \in [at : {"no", "in", "back"}, target : Proc \cup {ANY}, result : Proc \cup {NULL}]
        /\ w.result = r
    BY <2>1
  <2>3. kwait' = [kwait EXCEPT ![p] = w]
    BY <1>2, <2>1
  <2> HIDE DEF w
  <2> QED
    BY <2>1, <2>2, <2>3
<1>5. TypeOK'
  BY <1>1, <1>3, <1>4 DEF TypeOK
<1>6. p \notin stopped /\ "kernel_waits" \in guest
  BY <1>1, <1>3 DEF Removed
<1>7. Removed'
  BY <1>1, <1>3, <1>4, <1>6 DEF Removed
<1>8. PtraceesCounted'
  BY <1>1, <1>3 DEF PtraceesCounted, Ptracees
<1> QED
  BY <1>5, <1>7, <1>8 DEF Sound

LEMMA KernelWaitExitSound ==
    ASSUME Sound, UNCHANGED guest, NEW p \in Proc, KernelWaitExit(p)
    PROVE  Sound' /\ (aborted' => aborted)
<1>1. TypeOK /\ Removed /\ PtraceesCounted
  BY DEF Sound
<1>2. /\ p \notin gone /\ kwait[p].target \in Proc \cup {ANY} /\ kwait[p].result \in gone \cup {NULL}
      /\ kwait' = [kwait EXCEPT ![p] = NoKwait]
      /\ UNCHANGED <<guest, parent, dead, gone, ptracer, proot_pending, started, ignore>>
  BY <1>1 DEF KernelWaitExit, TypeOK, Removed
<1>3. /\ kwait' \in [Proc -> [at : {"no", "in", "back"}, target : Proc \cup {ANY}, result : Proc \cup {NULL}]]
      /\ \A x \in Proc : kwait'[x] = kwait[x] \/ (kwait'[x].result = NULL /\ kwait'[x].at = "no")
      /\ kwait'[p].at = "no"
  BY <1>1, <1>2 DEF TypeOK, NoKwait
<1>4. CASE waits_in[p] = "WAITS_IN_PROOT"
  <2>1. waits_in' = [waits_in EXCEPT ![p] = "DOESNT_WAIT"] /\ translate_wait_exit(p, kwait[p].target)
    BY <1>4, ZenonT(30) DEF KernelWaitExit
  <2>2. waits_in' \in [Proc -> {"DOESNT_WAIT", "WAITS_IN_KERNEL", "WAITS_IN_PROOT"}]
    BY <1>1, <2>1 DEF TypeOK
  <2> QED
    BY <1>2, <1>3, <2>1, <2>2, WaitExitSound
<1>5. CASE waits_in[p] # "WAITS_IN_PROOT"
  <2>1. /\ notified' = [notified EXCEPT ![p] = @ \cup ({kwait[p].result} \ {NULL})]
        /\ UNCHANGED <<waits_in, zombies, nb_ptracees, aborted, event, wait_pid, stopped>>
    BY <1>5 DEF KernelWaitExit
  <2>2. TypeOK'
    BY SMTT(30), <1>1, <1>2, <1>3, <2>1 DEF TypeOK
  <2>3. \A x \in Proc : notified'[x] \subseteq gone
    BY <1>1, <1>2, <2>1 DEF TypeOK, Removed
  <2>4. Removed'
    BY <1>1, <1>2, <1>3, <2>1, <2>3 DEF Removed
  <2>5. PtraceesCounted'
    BY <1>1, <1>2, <2>1 DEF PtraceesCounted, Ptracees
  <2> QED
    BY <2>1, <2>2, <2>4, <2>5 DEF Sound
<1> QED
  BY <1>4, <1>5

\* A stop of a ptracee that runs, of either kind.
LEMMA NotifySound ==
    ASSUME Sound, NEW q \in Proc, Runs(q), ptracer[q] # NULL, NEW k \in {"signal", "sysexit"},
           NotifyPtracer(ptracer[q], q, k), proot_pending' \subseteq Proc, started' \subseteq Proc,
           UNCHANGED <<guest, parent, dead, gone, ptracer, ignore, nb_ptracees, zombies, waits_in, kwait,
                       notified, aborted>>
    PROVE  Sound'
<1>1. TypeOK /\ Removed /\ PtraceesCounted
  BY DEF Sound
<1>2. q \notin gone /\ q \notin stopped /\ kwait[q].at = "no" /\ ptracer[q] \in Proc /\ ptracer[q] # q
  BY SMTT(30), <1>1 DEF Runs, TypeOK, Removed
<1>3. /\ \/ event' = [event EXCEPT ![q] = "none"]
         \/ event' = [event EXCEPT ![q] = k]
      /\ \/ /\ wait_pid' = [wait_pid EXCEPT ![ptracer[q]] = NULL]
            /\ stopped' = stopped \/ stopped' = (stopped \ {ptracer[q]}) \cup {q}
         \/ wait_pid' = wait_pid /\ stopped' = stopped \cup {q}
  BY DEF NotifyPtracer
<1>4. TypeOK'
  BY SMTT(30), <1>1, <1>2, <1>3 DEF TypeOK
<1>5. \A x \in Proc : wait_pid'[x] # NULL => x \in stopped'
  BY SMTT(30), <1>1, <1>2, <1>3 DEF TypeOK, Removed
<1>6. stopped' \subseteq stopped \cup {q}
  BY <1>3
<1>7. Removed'
  BY SMTT(30), <1>1, <1>2, <1>5, <1>6 DEF Removed
<1>8. PtraceesCounted'
  BY <1>1 DEF PtraceesCounted, Ptracees
<1> QED
  BY <1>4, <1>7, <1>8 DEF Sound

LEMMA StopsSound ==
    ASSUME Sound, UNCHANGED guest, NEW q \in Proc, SignalStop(q) \/ SysexitStop(q)
    PROVE  Sound' /\ aborted' = aborted
<1>1. proot_pending \subseteq Proc /\ started \subseteq Proc
  BY DEF Sound, TypeOK
<1>2. PICK k \in {"signal", "sysexit"} : NotifyPtracer(ptracer[q], q, k)
  BY ZenonT(30) DEF SignalStop, SysexitStop
<1>3. /\ Runs(q) /\ ptracer[q] # NULL
      /\ UNCHANGED <<guest, parent, dead, gone, ptracer, ignore, nb_ptracees, zombies, waits_in, kwait,
                     notified, aborted>>
  BY ZenonT(30) DEF SignalStop, SysexitStop
<1>4. /\ started' = started \cup {q} \/ started' = started
      /\ proot_pending' = proot_pending \cup {q} \/ proot_pending' = proot_pending
  BY ZenonT(30) DEF SignalStop, SysexitStop
<1>5. proot_pending' \subseteq Proc /\ started' \subseteq Proc
  BY <1>1, <1>4
<1> QED
  BY <1>2, <1>3, <1>5, NotifySound

LEMMA DiesSound ==
    ASSUME Sound, UNCHANGED guest, NEW q \in Proc, Dies(q)
    PROVE  Sound' /\ aborted' = aborted
<1>1. TypeOK'
  BY DEF Sound, TypeOK, Dies
<1>2. Removed'
  BY DEF Sound, Removed, Dies
<1>3. PtraceesCounted'
  BY DEF Sound, PtraceesCounted, Ptracees, Dies
<1> QED
  BY <1>1, <1>2, <1>3 DEF Sound, Dies

LEMMA ExitEventSound ==
    ASSUME Sound, UNCHANGED guest, NEW q \in Proc, ExitEvent(q)
    PROVE  Sound'
<1>1. TypeOK /\ Removed /\ PtraceesCounted
  BY DEF Sound
<1>2. /\ ptracer' \in [Proc -> Proc \cup {NULL}] /\ nb_ptracees' \in [Proc -> Nat]
      /\ zombies' \in [Proc -> SUBSET Proc] /\ PtraceesCounted'
  BY ExitCounts
<1> DEFINE p == ptracer[q]
           told == p # NULL /\ Waiting(p, q)
           free == Ptracees(q)
           lost == Released(q) \cup {q} \cup (IF told /\ p \notin dead THEN {p} ELSE {})
<1>3. /\ q \in dead \ gone /\ gone' = gone \cup {q}
      /\ parent' = [c \in Proc |-> IF parent[c] = q /\ c \notin gone THEN NULL ELSE parent[c]]
      /\ ptracer' = [x \in Proc |-> IF x \in free \cup {q} THEN NULL ELSE ptracer[x]]
      /\ zombies' = [x \in Proc |-> IF x = q THEN {} ELSE IF x = p /\ ~told THEN zombies[x] \cup {q}
                                                          ELSE zombies[x]]
      /\ notified' = [x \in Proc |-> IF told /\ x = p THEN notified[x] \cup {q} ELSE notified[x]]
      /\ wait_pid' = [x \in Proc |-> IF x = q \/ (told /\ x = p) THEN NULL ELSE wait_pid[x]]
      /\ event' = [x \in Proc |-> IF x \in free \cup {q} THEN "none" ELSE event[x]]
      /\ proot_pending' = proot_pending \ (free \cup {q})
      /\ started' = started \ (free \cup {q})
      /\ ignore' = ignore \ (free \cup {q})
      /\ kwait' = [kwait EXCEPT ![q] = NoKwait]
      /\ UNCHANGED <<dead, waits_in>>
  BY ZenonT(30) DEF ExitEvent, Zombified
<1>4. stopped' = stopped \ lost
  BY DEF ExitEvent
<1>5. aborted' \in BOOLEAN
  BY ZenonT(30) DEF ExitEvent
<1>6. \A x \in Proc : wait_pid[x] # NULL /\ x # q /\ ~(told /\ x = p) => x \notin lost
  BY DEF Released
<1>7. \A x \in Proc : x \notin free => ptracer[x] # q
  BY DEF Ptracees
<1> HIDE DEF told, free, lost
<1>8. /\ kwait' \in [Proc -> [at : {"no", "in", "back"}, target : Proc \cup {ANY}, result : Proc \cup {NULL}]]
      /\ \A x \in Proc : kwait'[x] = kwait[x] \/ (kwait'[x].result = NULL /\ kwait'[x].at = "no")
  BY <1>1, <1>3 DEF TypeOK, NoKwait
<1>9. TypeOK'
  <2>1. /\ parent' \in [Proc -> Proc \cup {NULL}] /\ notified' \in [Proc -> SUBSET Proc]
        /\ wait_pid' \in [Proc -> Proc \cup {NULL, ANY}]
        /\ event' \in [Proc -> {"none", "signal", "sysexit"}]
    BY <1>1, <1>3 DEF TypeOK
  <2>2. /\ gone' \subseteq dead' /\ stopped' \subseteq Proc /\ proot_pending' \subseteq Proc
        /\ started' \subseteq Proc /\ ignore' \subseteq Proc
    BY <1>1, <1>3, <1>4 DEF TypeOK
  <2> QED
    BY <1>1, <1>2, <1>3, <1>5, <1>8, <2>1, <2>2 DEF TypeOK
<1>10. Removed'
  <2>1. stopped' \cap gone' = {}
    <3>1. q \in lost
      BY DEF lost
    <3> QED
      BY SMTT(30), <1>1, <1>3, <1>4, <3>1 DEF Removed
  <2> SUFFICES ASSUME NEW x \in Proc
               PROVE  /\ ptracer'[x] # NULL => x \notin gone' /\ ptracer'[x] \notin gone' /\ ptracer'[x] # x
                      /\ x \notin gone' /\ parent'[x] # NULL => parent'[x] \notin gone' /\ parent'[x] # x
                      /\ zombies'[x] \subseteq gone' /\ notified'[x] \subseteq gone'
                      /\ kwait'[x].result \in gone' \cup {NULL}
                      /\ wait_pid'[x] # NULL => x \in stopped'
                      /\ kwait'[x].at # "no" => x \notin stopped' /\ "kernel_waits" \in guest'
    BY <2>1 DEF Removed
  <2>2. ptracer'[x] # NULL => x \notin gone' /\ ptracer'[x] \notin gone' /\ ptracer'[x] # x
    BY <1>1, <1>3, <1>7 DEF Removed
  <2>3. x \notin gone' /\ parent'[x] # NULL => parent'[x] \notin gone' /\ parent'[x] # x
    BY <1>1, <1>3 DEF Removed
  <2>4. zombies'[x] \subseteq gone' /\ notified'[x] \subseteq gone'
    BY <1>1, <1>3 DEF Removed
  <2>5. kwait'[x].result \in gone' \cup {NULL}
    BY <1>1, <1>3, <1>8 DEF Removed
  <2>6. wait_pid'[x] # NULL => x \in stopped'
    BY <1>1, <1>3, <1>4, <1>6 DEF Removed
  <2>7. kwait'[x].at # "no" => x \notin stopped' /\ "kernel_waits" \in guest'
    BY <1>1, <1>4, <1>8 DEF Removed
  <2> QED
    BY <2>2, <2>3, <2>4, <2>5, <2>6, <2>7
<1> QED
  BY <1>2, <1>9, <1>10 DEF Sound

LEMMA SoundNext ==
    ASSUME Sound, [Next]_vars
    PROVE  Sound'
<1>1. CASE UNCHANGED vars
  <2>1. TypeOK'
    BY <1>1 DEF Sound, TypeOK, vars
  <2>2. Removed'
    BY <1>1 DEF Sound, Removed, vars
  <2>3. PtraceesCounted'
    BY <1>1 DEF Sound, PtraceesCounted, Ptracees, vars
  <2> QED
    BY <2>1, <2>2, <2>3 DEF Sound
<1>2. CASE Next
  BY <1>2, TracemeSound, AttachSound, RestartSound, DetachSound, WaitInPRootSound, WaitInKernelSound,
     KernelWaitReturnsSound, KernelWaitExitSound, StopsSound, DiesSound, ExitEventSound, ZenonT(30)
     DEF Next, Step
<1> QED
  BY <1>1, <1>2

-----------------------------------------------------------------------------
(***************************************************************************)
(* Events are pending for the stopped                                      *)
(***************************************************************************)

\* The same with the set written out.
LEMMA SettledIs ==
    ASSUME Sound
    PROVE  Settled <=> \A x \in Proc : x \in proot_pending \/ event[x] # "none" =>
                                         x \in stopped /\ wait_pid[x] = NULL
BY DEF Sound, TypeOK, Settled, Pending

\* Nobody who runs, or is in the kernel's wait, has an event pending or is waited for.
LEMMA RunsFacts ==
    ASSUME Sound, NEW p \in Proc, p \notin stopped
    PROVE  /\ wait_pid[p] = NULL
           /\ Settled => p \notin proot_pending /\ event[p] = "none"
<1>1. wait_pid[p] = NULL
  BY DEF Sound, Removed
<1>2. Settled => p \notin proot_pending /\ event[p] = "none"
  BY SettledIs
<1> QED
  BY <1>1, <1>2

\* translate_wait_exit() is called for a process that is not stopped.
LEMMA WaiterRuns ==
    ASSUME Sound, NEW p \in Proc, NEW target \in Proc \cup {ANY}, WaitInPRoot(p, target) \/ KernelWaitExit(p)
    PROVE  p \notin stopped /\ p \notin gone
<1>1. CASE WaitInPRoot(p, target)
  BY <1>1, ZenonT(30) DEF WaitInPRoot, Runs, Sound, TypeOK
<1>2. CASE KernelWaitExit(p)
  BY <1>2 DEF KernelWaitExit, Sound, Removed, TypeOK
<1> QED
  BY <1>1, <1>2

\* What a wait(2) changes of events and stops: one event less, or one that waits more.
LEMMA WaitExitMoves ==
    ASSUME NEW p \in Proc, NEW target \in Proc \cup {ANY}, translate_wait_exit(p, target)
    PROVE  \/ UNCHANGED <<event, stopped, wait_pid>>
           \/ /\ \E q \in Proc : event' = [event EXCEPT ![q] = "none"]
              /\ UNCHANGED <<stopped, wait_pid, zombies>>
           \/ /\ UNCHANGED <<event, zombies>> /\ stopped' = stopped \cup {p}
              /\ wait_pid' = [wait_pid EXCEPT ![p] = target]
              /\ nb_ptracees[p] # 0 /\ WaitableZombies(p, target) = {} /\ WaitableStops(p, target) = {}
<1>1. \A q \in WaitableStops(p, target) : q \in Proc
  BY DEF WaitableStops, Ptracees
<1> QED
  BY <1>1, ZenonT(30) DEF translate_wait_exit, TakeZombie, TakeStop, Block, ReturnAtOnce

\* The fields Settled is about, after each action.
LEMMA SettledNext ==
    ASSUME Sound, Settled, "restart_unwaited" \notin guest, [Next]_vars
    PROVE  Settled'
<1>1. /\ event \in [Proc -> {"none", "signal", "sysexit"}] /\ ptracer \in [Proc -> Proc \cup {NULL}]
      /\ wait_pid \in [Proc -> Proc \cup {NULL, ANY}]
      /\ \A x \in Proc : wait_pid[x] # NULL => x \in stopped
  BY DEF Sound, TypeOK, Removed
<1>2. \A x \in Proc : x \in proot_pending \/ event[x] # "none" => x \in stopped /\ wait_pid[x] = NULL
  BY SettledIs
<1>3. SUFFICES \A x \in Proc : x \in proot_pending' \/ event'[x] # "none" =>
                                  x \in stopped' /\ wait_pid'[x] = NULL
  <2>1. Sound'
    BY SoundNext
  <2>2. proot_pending' \subseteq Proc
    BY <2>1 DEF Sound, TypeOK
  <2> QED
    BY <1>3, <2>2 DEF Settled, Pending
<1>4. CASE UNCHANGED vars
  BY <1>2, <1>4 DEF vars
<1>5. ASSUME NEW q \in Proc, Traceme(q) \/ \E p \in Proc : Attach(p, q)
      PROVE  \A x \in Proc : x \in proot_pending' \/ event'[x] # "none" => x \in stopped' /\ wait_pid'[x] = NULL
  <2>1. UNCHANGED <<stopped, wait_pid>>
    BY <1>5 DEF Traceme, Attach
  <2>2. \/ UNCHANGED <<event, proot_pending>>
        \/ event' = [event EXCEPT ![q] = "none"] /\ proot_pending' = proot_pending \ {q}
    BY <1>5 DEF Traceme, Attach, attach_to_ptracer
  <2> QED
    BY <1>1, <1>2, <2>1, <2>2
<1>6. ASSUME NEW p \in Proc, NEW q \in Proc, Restart(p, q) \/ Detach(p, q)
      PROVE  \A x \in Proc : x \in proot_pending' \/ event'[x] # "none" => x \in stopped' /\ wait_pid'[x] = NULL
  <2>1. /\ event[q] = "none" /\ UNCHANGED <<event, wait_pid>> /\ proot_pending' = proot_pending \ {q}
        /\ stopped' = IF wait_pid[q] = NULL THEN stopped \ {q} ELSE stopped
    BY <1>6 DEF Restart, Detach, StoppedPtracee
  <2> QED
    BY <1>2, <2>1
<1>7. ASSUME NEW p \in Proc, NEW target \in Proc \cup {ANY}, WaitInPRoot(p, target) \/ KernelWaitExit(p)
      PROVE  \A x \in Proc : x \in proot_pending' \/ event'[x] # "none" => x \in stopped' /\ wait_pid'[x] = NULL
  <2>1. p \notin stopped /\ proot_pending' = proot_pending
    BY <1>7, WaiterRuns DEF WaitInPRoot, KernelWaitExit
  <2>2. PICK t \in Proc \cup {ANY} : translate_wait_exit(p, t) \/ UNCHANGED <<event, stopped, wait_pid>>
    <3>1. kwait[p].target \in Proc \cup {ANY}
      BY DEF Sound, TypeOK
    <3> QED
      BY <1>7, <3>1, ZenonT(30) DEF WaitInPRoot, KernelWaitExit
  <2>3. \/ UNCHANGED <<event, stopped, wait_pid>>
        \/ (\E q \in Proc : event' = [event EXCEPT ![q] = "none"]) /\ UNCHANGED <<stopped, wait_pid>>
        \/ UNCHANGED event /\ stopped' = stopped \cup {p} /\ wait_pid' = [wait_pid EXCEPT ![p] = t]
    BY <2>2, WaitExitMoves
  <2> QED
    BY <1>1, <1>2, <2>1, <2>3
<1>8. ASSUME NEW p \in Proc, \/ \E target \in Proc \cup {ANY} : WaitInKernel(p, target)
                             \/ KernelWaitReturns(p) \/ Dies(p)
      PROVE  UNCHANGED <<event, proot_pending, stopped, wait_pid>>
  BY <1>8, ZenonT(30) DEF WaitInKernel, KernelWaitReturns, Dies
<1>9. ASSUME NEW q \in Proc, SignalStop(q) \/ SysexitStop(q)
      PROVE  \A x \in Proc : x \in proot_pending' \/ event'[x] # "none" => x \in stopped' /\ wait_pid'[x] = NULL
  <2> DEFINE p == ptracer[q]
  <2>1. q \notin stopped /\ p \in Proc /\ p # q
    BY <1>1, <1>9 DEF SignalStop, SysexitStop, Runs, Sound, Removed
  <2>2. wait_pid[q] = NULL
    BY <1>1, <2>1
  <2>3. CASE Waiting(p, q)
    <3>1. /\ wait_pid' = [wait_pid EXCEPT ![p] = NULL] /\ event' = [event EXCEPT ![q] = "none"]
          /\ stopped' = IF p \in dead THEN stopped ELSE (stopped \ {p}) \cup {q}
          /\ proot_pending' = proot_pending \/ (p \notin dead /\ proot_pending' = proot_pending \cup {q})
      BY <1>9, <2>3 DEF SignalStop, SysexitStop, NotifyPtracer
    <3>2. p \notin proot_pending /\ event[p] = "none"
      BY <1>2, <2>1, <2>3 DEF Waiting
    <3> QED
      BY SMTT(30), <1>1, <1>2, <2>1, <2>2, <3>1, <3>2
  <2>4. CASE ~Waiting(p, q)
    <3>1. /\ \E k : event' = [event EXCEPT ![q] = k]
          /\ stopped' = stopped \cup {q} /\ wait_pid' = wait_pid
          /\ proot_pending' = proot_pending \/ proot_pending' = proot_pending \cup {q}
      BY <1>9, <2>4 DEF SignalStop, SysexitStop, NotifyPtracer
    <3> QED
      BY <1>1, <1>2, <2>1, <2>2, <3>1
  <2> QED
    BY <2>3, <2>4
<1>10. ASSUME NEW q \in Proc, ExitEvent(q)
       PROVE  \A x \in Proc : x \in proot_pending' \/ event'[x] # "none" => x \in stopped' /\ wait_pid'[x] = NULL
  <2> SUFFICES ASSUME NEW x \in Proc, x \in proot_pending' \/ event'[x] # "none"
               PROVE  x \in stopped' /\ wait_pid'[x] = NULL
    OBVIOUS
  <2>1. x \notin Ptracees(q) \cup {q} /\ (x \in proot_pending \/ event[x] # "none")
    BY <1>10 DEF ExitEvent
  <2>2. x \in stopped /\ wait_pid[x] = NULL
    BY <1>2, <2>1
  <2>3. wait_pid'[x] = NULL
    BY <1>10, <2>2 DEF ExitEvent
  <2>4. x \notin Released(q) \cup {q} /\ (x = ptracer[q] => ~Waiting(ptracer[q], q))
    BY <2>1, <2>2 DEF Released, Waiting
  <2>5. x \in stopped'
    BY <1>10, <2>2, <2>4 DEF ExitEvent
  <2> QED
    BY <2>3, <2>5
<1>11. CASE Next
  BY <1>2, <1>5, <1>6, <1>7, <1>8, <1>9, <1>10, <1>11, ZenonT(30) DEF Next, Step
<1> QED
  BY <1>4, <1>11

-----------------------------------------------------------------------------
(***************************************************************************)
(* Waits and wakeups                                                       *)
(***************************************************************************)

\* Nothing is there for p to collect, and there is a ptracee that can bring something.
NoneReady(p) ==
    /\ \A z \in zombies[p] : ~Matches(wait_pid[p], z)
    /\ \A q \in Proc : ptracer[q] = p /\ q \in stopped /\ event[q] # "none" => ~Matches(wait_pid[p], q)
    /\ \E q \in Proc : ptracer[q] = p /\ Matches(wait_pid[p], q)

Tracing == guest \cap {"kernel_waits", "restart_unwaited"} = {}

LEMMA WakeupIs ==
    NoLostWakeup <=> (Tracing => \A p \in Proc \ gone : wait_pid[p] # NULL => NoneReady(p))
BY DEF NoLostWakeup, Tracing, NoneReady, WaitableZombies, WaitableStops, Ptracees

\* A ptracer is put to wait with nothing to collect and a ptracee that matches.
LEMMA BlockReady ==
    ASSUME Sound, NEW p \in Proc, p \notin gone, NEW target \in Proc \cup {ANY},
           WaitsForPtracee(p, target), WaitableZombies(p, target) = {}
    PROVE  \E q \in Proc : ptracer[q] = p /\ Matches(target, q)
<1>1. CASE target # ANY
  BY <1>1 DEF WaitsForPtracee, Matches
<1>2. CASE target = ANY
  <2>1. zombies[p] = {}
    BY <1>2 DEF WaitableZombies, Matches
  <2>2. nb_ptracees[p] = Cardinality(Ptracees(p)) + Cardinality({}) /\ nb_ptracees[p] # 0
    BY <2>1 DEF Sound, PtraceesCounted, WaitsForPtracee
  <2>3. Ptracees(p) # {}
    BY SMTT(30), <2>2, FS_EmptySet
  <2> QED
    BY <1>2, <2>3 DEF Ptracees, Matches
<1> QED
  BY <1>1, <1>2

LEMMA WakeupNext ==
    ASSUME Sound, Settled, Tracing, NEW p \in Proc, p \notin gone', wait_pid'[p] # NULL, [Next]_vars,
           \A x \in Proc \ gone : wait_pid[x] # NULL => NoneReady(x)
    PROVE  NoneReady(p)'
<1>1. /\ event \in [Proc -> {"none", "signal", "sysexit"}] /\ ptracer \in [Proc -> Proc \cup {NULL}]
      /\ wait_pid \in [Proc -> Proc \cup {NULL, ANY}] /\ zombies \in [Proc -> SUBSET Proc]
      /\ gone \subseteq dead
      /\ \A x \in Proc : wait_pid[x] # NULL => x \in stopped
      /\ \A x \in Proc : kwait[x].at = "no"
  BY DEF Sound, TypeOK, Removed, Tracing
<1>2. \A x \in Proc : x \notin stopped => event[x] = "none"
  BY RunsFacts
\* p waited before, for the same, and what it waits among has not come nearer.
<1>3. ASSUME p \notin gone, wait_pid'[p] = wait_pid[p], zombies'[p] \subseteq zombies[p],
             \A x \in Proc : ptracer[x] = p => ptracer'[x] = p,
             \A x \in Proc : ptracer'[x] = p /\ x \in stopped' /\ event'[x] # "none" =>
                               ptracer[x] = p /\ x \in stopped /\ event[x] # "none"
      PROVE  NoneReady(p)'
  <2>1. NoneReady(p)
    BY <1>3
  <2> QED
    BY <1>3, <2>1 DEF NoneReady, Matches
<1>4. CASE UNCHANGED vars
  BY <1>3, <1>4 DEF vars
<1>5. ASSUME NEW q \in Proc, NEW t \in Proc, Traceme(q) \/ Attach(t, q)
      PROVE  NoneReady(p)'
  <2>1. UNCHANGED <<gone, stopped, wait_pid, zombies>> /\ ptracer[q] = NULL
    BY <1>5 DEF Traceme, Attach
  <2>2. \/ UNCHANGED <<ptracer, event>>
        \/ (\E t2 : ptracer' = [ptracer EXCEPT ![q] = t2]) /\ event' = [event EXCEPT ![q] = "none"]
    BY <1>5 DEF Traceme, Attach, attach_to_ptracer
  <2>3. p # NULL
    BY ProcAssumption
  <2> QED
    BY <1>1, <1>3, <2>1, <2>2, <2>3
<1>6. ASSUME NEW t \in Proc, NEW q \in Proc, Restart(t, q) \/ Detach(t, q)
      PROVE  NoneReady(p)'
  <2>1. UNCHANGED <<gone, wait_pid, event, zombies>> /\ stopped' \subseteq stopped /\ t \notin stopped
    BY <1>6 DEF Restart, Detach, StoppedPtracee, Runs
  <2>2. ptracer' = ptracer \/ (ptracer[q] = t /\ ptracer' = [ptracer EXCEPT ![q] = NULL])
    BY <1>6 DEF Restart, Detach, StoppedPtracee
  <2>3. p # NULL /\ p # t
    BY <1>1, <2>1, ProcAssumption
  <2> QED
    BY <1>1, <1>3, <2>1, <2>2, <2>3
<1>7. ASSUME NEW t \in Proc, NEW target \in Proc \cup {ANY}, WaitInPRoot(t, target)
      PROVE  NoneReady(p)'
  <2>1. /\ UNCHANGED <<gone, ptracer>> /\ WaitsForPtracee(t, target) /\ translate_wait_exit(t, target)
        /\ t \notin stopped
    BY <1>7 DEF WaitInPRoot, Runs
  <2>2. CASE /\ UNCHANGED <<event, zombies>> /\ stopped' = stopped \cup {t}
             /\ wait_pid' = [wait_pid EXCEPT ![t] = target]
             /\ WaitableZombies(t, target) = {} /\ WaitableStops(t, target) = {}
    <3>1. CASE p = t
      <4>1. wait_pid'[p] = target
        BY <1>1, <2>2, <3>1
      <4>2. \E q \in Proc : ptracer[q] = p /\ Matches(target, q)
        BY <2>1, <2>2, <3>1, BlockReady
      <4>3. \A z \in zombies[p] : ~Matches(target, z)
        BY <2>2, <3>1 DEF WaitableZombies
      <4>4. \A q \in Proc : ptracer[q] = p /\ q \in stopped /\ event[q] # "none" => ~Matches(target, q)
        BY <2>2, <3>1 DEF WaitableStops, Ptracees
      <4>5. \A q \in Proc : ptracer[q] = p /\ q \in stopped' /\ event[q] # "none" => ~Matches(target, q)
        BY <1>2, <2>1, <2>2, <4>4
      <4> QED
        BY <2>1, <2>2, <4>1, <4>2, <4>3, <4>5 DEF NoneReady, Matches
    <3>2. CASE p # t
      BY <1>1, <1>2, <1>3, <2>1, <2>2, <3>2
    <3> QED
      BY <3>1, <3>2
  <2>3. CASE /\ \E q \in Proc : event' = [event EXCEPT ![q] = "none"]
             /\ UNCHANGED <<stopped, wait_pid, zombies>>
    BY <1>1, <1>3, <2>1, <2>3
  <2>4. CASE UNCHANGED <<event, stopped, wait_pid>> /\ zombies'[p] \subseteq zombies[p]
    BY <1>3, <2>1, <2>4
  <2>5. zombies'[p] \subseteq zombies[p]
    BY <1>1, <2>1 DEF translate_wait_exit, TakeZombie, TakeStop, Block, ReturnAtOnce
  <2> QED
    BY <2>1, <2>2, <2>3, <2>4, <2>5, WaitExitMoves
<1>8. ASSUME NEW t \in Proc, Dies(t)
      PROVE  NoneReady(p)'
  BY <1>3, <1>8 DEF Dies
<1>9. ASSUME NEW q \in Proc, SignalStop(q) \/ SysexitStop(q)
      PROVE  NoneReady(p)'
  <2> DEFINE t == ptracer[q]
  <2>1. UNCHANGED <<gone, ptracer, zombies>> /\ t \in Proc
    BY <1>1, <1>9 DEF SignalStop, SysexitStop
  <2>2. CASE Waiting(t, q)
    <3>1. /\ wait_pid' = [wait_pid EXCEPT ![t] = NULL] /\ event' = [event EXCEPT ![q] = "none"]
          /\ stopped' \subseteq stopped \cup {q}
      BY <1>9, <2>2 DEF SignalStop, SysexitStop, NotifyPtracer
    <3> QED
      BY <1>1, <1>3, <2>1, <3>1
  <2>3. CASE ~Waiting(t, q)
    <3>1. /\ \E k : event' = [event EXCEPT ![q] = k]
          /\ stopped' = stopped \cup {q} /\ wait_pid' = wait_pid
      BY <1>9, <2>3 DEF SignalStop, SysexitStop, NotifyPtracer
    <3>2. NoneReady(p)
      BY <2>1, <3>1
    <3>3. ptracer[q] = p => ~Matches(wait_pid[p], q)
      BY <2>3, <3>1 DEF Waiting
    <3> QED
      BY SMTT(30), <1>1, <2>1, <3>1, <3>2, <3>3 DEF NoneReady, Matches
  <2> QED
    BY <2>2, <2>3
<1>10. ASSUME NEW q \in Proc, ExitEvent(q)
       PROVE  NoneReady(p)'
  <2>1. /\ p \notin gone /\ p # q /\ wait_pid[p] # NULL /\ wait_pid'[p] = wait_pid[p]
        /\ ~(p = ptracer[q] /\ Waiting(p, q))
    BY <1>10, ProcAssumption DEF ExitEvent
  <2>2. NoneReady(p)
    BY <2>1
  <2>3. p = ptracer[q] => ~Matches(wait_pid[p], q)
    BY <2>1 DEF Waiting
  <2>4. \A z \in zombies'[p] : z \in zombies[p] \/ (z = q /\ p = ptracer[q])
    BY <1>10, <2>1 DEF ExitEvent, Zombified
  <2>5. \A x \in Proc : /\ ptracer'[x] = p => ptracer[x] = p
                        /\ ptracer[x] = p /\ x # q => ptracer'[x] = p
                        /\ event'[x] # "none" => event[x] # "none"
    BY <1>10, <2>1, ProcAssumption DEF ExitEvent, Ptracees
  <2>6. stopped' \subseteq stopped
    BY <1>10 DEF ExitEvent
  <2> QED
    BY <2>1, <2>2, <2>3, <2>4, <2>5, <2>6 DEF NoneReady, Matches
<1>11. ASSUME NEW t \in Proc, \/ \E target \in Proc \cup {ANY} : WaitInKernel(t, target)
                              \/ KernelWaitReturns(t) \/ KernelWaitExit(t)
       PROVE  FALSE
  BY <1>1, <1>11 DEF WaitInKernel, KernelWaitReturns, KernelWaitExit, Tracing
<1>12. CASE Next
  BY <1>5, <1>6, <1>7, <1>8, <1>9, <1>10, <1>11, <1>12, ZenonT(30) DEF Next, Step
<1> QED
  BY <1>4, <1>12

-----------------------------------------------------------------------------
(***************************************************************************)
(* Assertions                                                              *)
(***************************************************************************)

LEMMA AbortNext ==
    ASSUME Sound, Settled, guest \cap {"restart_unwaited", "orphan_traceme"} = {}, NoAbort, [Next]_vars
    PROVE  NoAbort'
<1>1. ~aborted
  BY DEF NoAbort
<1>2. UNCHANGED guest
  BY DEF Next, vars
<1>3. ASSUME NEW q \in Proc, Traceme(q) PROVE ~aborted'
  BY <1>1, <1>3, ZenonT(30) DEF Traceme
<1>4. ASSUME NEW q \in Proc, ExitEvent(q) PROVE ~aborted'
  <2>1. Released(q) \ stopped = {}
    BY SettledIs DEF Released, Ptracees
  <2>2. ptracer[q] # NULL => nb_ptracees[ptracer[q]] # 0
    BY <1>4, ExitCounts
  <2>3. aborted' = (\/ Released(q) \ stopped # {}
                    \/ ((ptracer[q] # NULL /\ Waiting(ptracer[q], q)) /\ nb_ptracees[ptracer[q]] = 0))
    BY <1>4, ZenonT(30) DEF ExitEvent
  <2> QED
    BY <2>1, <2>2, <2>3, ZenonT(30)
<1>5. ASSUME NEW p \in Proc, NEW q \in Proc, Attach(p, q) \/ Restart(p, q) \/ SignalStop(q) \/ SysexitStop(q)
                \/ Dies(q) \/ KernelWaitReturns(p) \/ \E target \in Proc \cup {ANY} : WaitInKernel(p, target)
      PROVE  aborted' = aborted
  BY <1>5, ZenonT(30) DEF Attach, Restart, SignalStop, SysexitStop, Dies, KernelWaitReturns, WaitInKernel
<1>6. CASE UNCHANGED vars
  BY <1>1, <1>6 DEF vars, NoAbort
<1>7. CASE Next
  BY <1>1, <1>2, <1>3, <1>4, <1>5, <1>7, DetachSound, WaitInPRootSound, KernelWaitExitSound, ZenonT(30)
     DEF Next, Step, NoAbort
<1> QED
  BY <1>6, <1>7

-----------------------------------------------------------------------------
(***************************************************************************)
(* Theorems                                                                *)
(***************************************************************************)

LEMMA PtraceInvNext == PtraceInv /\ [Next]_vars => PtraceInv'
<1> SUFFICES ASSUME PtraceInv, [Next]_vars PROVE PtraceInv'
  OBVIOUS
<1>1. Sound /\ Sound' /\ guest' = guest
  BY SoundNext DEF PtraceInv, Next, vars
<1>2. "restart_unwaited" \notin guest => Settled /\ Settled'
  BY <1>1, SettledNext DEF PtraceInv
<1>3. NoLostWakeup'
  <2> SUFFICES ASSUME Tracing PROVE \A p \in Proc \ gone' : wait_pid'[p] # NULL => NoneReady(p)'
    BY <1>1 DEF NoLostWakeup, Tracing, NoneReady, WaitableZombies, WaitableStops, Ptracees
  <2>1. \A p \in Proc \ gone : wait_pid[p] # NULL => NoneReady(p)
    BY WakeupIs DEF PtraceInv
  <2>2. Settled
    BY <1>2 DEF Tracing
  <2> QED
    BY <1>1, <2>1, <2>2, WakeupNext
<1>4. guest \cap {"restart_unwaited", "orphan_traceme"} = {} => NoAbort'
  <2> SUFFICES ASSUME guest \cap {"restart_unwaited", "orphan_traceme"} = {} PROVE NoAbort'
    OBVIOUS
  <2>1. NoAbort /\ Settled
    BY <1>2 DEF PtraceInv
  <2> QED
    BY <1>1, <2>1, AbortNext
<1> QED
  BY <1>1, <1>2, <1>3, <1>4 DEF PtraceInv

LEMMA PtraceInvHolds == Spec => []PtraceInv
<1>1. Init => PtraceInv
  <2> SUFFICES ASSUME Init PROVE PtraceInv
    OBVIOUS
  <2>1. Settled /\ NoLostWakeup
    BY DEF Init, Settled, Pending, NoLostWakeup
  <2>2. NoAbort
    BY ZenonT(30) DEF Init, NoAbort
  <2> QED
    BY <2>1, <2>2, SoundInit DEF PtraceInv
<1> QED
  BY <1>1, PtraceInvNext, PTL DEF Spec

\* translate_wait_exit() and handle_ptracee_event(): for any number of processes, tracing each
\* other in whatever shape, a ptracer that PRoot has put to wait has nothing to collect and
\* still has a ptracee that can wake it.
THEOREM WakeupsAreKept == Spec => []NoLostWakeup
<1>1. PtraceInv => NoLostWakeup
  BY DEF PtraceInv
<1> QED
  BY <1>1, PtraceInvHolds, PTL

\* as_ptracer.nb_ptracees is the number of ptracees and of zombies not yet reported, through
\* attachments, detachments, deaths and waits in any order, for every guest.
THEOREM CountIsExact == Spec => []PtraceesCounted
<1>1. PtraceInv => PtraceesCounted
  BY DEF PtraceInv, Sound
<1> QED
  BY <1>1, PtraceInvHolds, PTL

\* The assertions of detach_from_ptracer() and of restart_tracee() hold, for guests that wait
\* for the ptracees they restart and do not ask to be traced by nobody.
THEOREM AssertionsOfPtraceHold ==
    Spec => [](guest \cap {"restart_unwaited", "orphan_traceme"} = {} => NoAbort)
<1>1. PtraceInv => (guest \cap {"restart_unwaited", "orphan_traceme"} = {} => NoAbort)
  BY DEF PtraceInv
<1> QED
  BY <1>1, PtraceInvHolds, PTL

\* remove_tracee() and update_wait_status(): the end of a ptracee is told to its ptracer at
\* once, or kept for it as a zombie, or the ptracer is gone too.
THEOREM DeathsAreReported == Spec => DeathReported
<1> DEFINE Reported ==
             \A p, q \in Proc :
                (ptracer[q] = p /\ ptracer'[q] = NULL /\ q \in gone') =>
                   (p \in gone' \/ q \in zombies'[p] \/ q \in notified'[p] \ notified[p])
<1>1. ASSUME PtraceInv, [Next]_vars PROVE [Reported]_vars
  <2> SUFFICES ASSUME Next, NEW p \in Proc, NEW q \in Proc,
                      ptracer[q] = p, ptracer'[q] = NULL, q \in gone'
               PROVE  p \in gone' \/ q \in zombies'[p] \/ q \in notified'[p] \ notified[p]
    BY <1>1
  <2>1. q \notin gone /\ p # q /\ p # NULL /\ notified[p] \subseteq gone
    BY <1>1, ProcAssumption DEF PtraceInv, Sound, Removed
  <2>2. PICK e \in Proc : ExitEvent(e)
    <3>1. gone' # gone
      BY <2>1
    <3> QED
      BY <3>1, ZenonT(30) DEF Next, Step, Traceme, Attach, Restart, Detach, WaitInPRoot, WaitInKernel,
         KernelWaitReturns, KernelWaitExit, SignalStop, SysexitStop, Dies
  <2>3. e = q
    BY <2>1, <2>2 DEF ExitEvent
  <2>4. CASE Waiting(p, q)
    BY <2>1, <2>2, <2>3, <2>4 DEF ExitEvent
  <2>5. CASE ~Waiting(p, q)
    BY <2>1, <2>2, <2>3, <2>5 DEF ExitEvent, Zombified
  <2> QED
    BY <2>4, <2>5
<1> QED
  BY <1>1, PtraceInvHolds, PTL DEF Spec, DeathReported

=============================================================================
