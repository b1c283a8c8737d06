---------------------------- MODULE TablesProofs ----------------------------
(***************************************************************************)
(* The two tables every stop is looked up in, for every size: the tracees  *)
(* with their index (TraceeTable), and the bindings in their two lists     *)
(* (Bindings).                                                             *)
(*                                                                         *)
(* The invariant of the first says where an entry can be: any entry but    *)
(* the first is in the bucket of its pid exactly as long as it is listed;  *)
(* the first one stays in the bucket of PRoot's own pid, and leaves it     *)
(* only if its pid falls in that bucket.                                   *)
(*                                                                         *)
(* The promises of the second are kept by insertion and removal, which all *)
(* of mount(2), umount(2), pivot_root(2), chroot(2) and clone(2) are made  *)
(* of: the deepest binding first, both lists the same, and the rootfs last.*)
(***************************************************************************)
EXTENDS TraceeTable, Bindings, WellFoundedInduction, TLAPS

\* Time limits of the provers, for every leaf below.
USE ZenonT(30), SMTT(30)

Running == pc \notin {"main", "launch"}

\* Before the first process is launched only the first entry exists.
StartUp ==
    /\ pc = "main" => allocated = {} /\ \A b \in Bucket : tracee_hash[b] = {}
    /\ pc = "launch" => allocated = {root}
    /\ pc # "main" => root \in allocated
    /\ ~Running => terminated = {}
    /\ pc = "launch" => tracees = {root}

Allocated ==
    /\ tracees \subseteq allocated
    /\ terminated \subseteq tracees
    /\ \A b \in Bucket : tracee_hash[b] \subseteq allocated

\* Entries other than the first: indexed under their pid while listed.
Indexed ==
    /\ \A t \in tracees \ {root} : t \in tracee_hash[tracee_hash_fn(pid[t])]
    /\ \A b \in Bucket : \A t \in tracee_hash[b] \ {root} :
           t \in tracees /\ b = tracee_hash_fn(pid[t])

\* The first entry: once it is freed it is not in the bucket of its pid.
RootMisplaced ==
    \A b \in Bucket :
        root \in tracee_hash[b] /\ root \notin tracees => b # tracee_hash_fn(pid[root])

IInv ==
    /\ TypeOK
    /\ StartUp
    /\ Allocated
    /\ Indexed
    /\ RootMisplaced
    /\ OneTraceePerPid

\* A pid always falls in some bucket (tracee_hash_fn() masks it).
LEMMA HashFnType == \A p \in Nat : tracee_hash_fn(p) \in Bucket
  BY HashSizeAssumption DEF tracee_hash_fn, Bucket

\* What get_tracee() finds is listed and has the pid asked for.
LEMMA FoundIsListed ==
  ASSUME IInv, NEW p \in Nat
  PROVE  get_tracee(p) \subseteq {t \in tracees : pid[t] = p}
  <1>1. tracee_hash_fn(p) \in Bucket
    BY HashFnType
  <1>2. ASSUME NEW t \in tracee_lookup_readonly(p) PROVE t \in tracees /\ pid[t] = p
    <2>1. t \in tracee_hash[tracee_hash_fn(p)] /\ pid[t] = p
      BY DEF tracee_lookup_readonly
    <2>2. CASE t = root
      BY <1>1, <2>1, <2>2 DEF IInv, RootMisplaced
    <2>3. CASE t # root
      BY <1>1, <2>1, <2>3 DEF IInv, Indexed
    <2> QED BY <2>2, <2>3, <2>1
  <1> QED BY <1>2 DEF get_tracee, list_walk

\* When get_tracee() finds nothing, no listed entry has that pid.
LEMMA NotFoundIsUnlisted ==
  ASSUME NEW p \in Nat, get_tracee(p) = {}
  PROVE  \A t \in tracees : pid[t] # p
  BY DEF get_tracee, list_walk, tracee_is_tracked

\* The empty table satisfies the invariant.
LEMMA InitIInv == Init => IInv
  BY SMTT(30), PidAssumption DEF Init, IInv, TypeOK, StartUp, Running, Allocated, Indexed,
     RootMisplaced, OneTraceePerPid

\* get_tracee(NULL, p, true) preserves what the invariant says of the table.
LEMMA GetOrCreateInv ==
  ASSUME IInv, Running, Running', NEW p \in Pid, NEW e \in Tracee,
         GetOrCreate(e, p), root' = root, terminated' \subseteq terminated \cup {e}
  PROVE  /\ e \in tracees' /\ tracees' \subseteq Tracee /\ allocated' \subseteq Tracee
         /\ pid' \in [Tracee -> Nat] /\ tracee_hash' \in [Bucket -> SUBSET Tracee]
         /\ StartUp' /\ Allocated' /\ Indexed' /\ RootMisplaced' /\ OneTraceePerPid'
  <1>0. p \in Nat /\ p # 0 /\ tracee_hash_fn(p) \in Bucket
    BY PidAssumption, HashFnType
  <1>1. CASE e \in get_tracee(p) /\ UNCHANGED <<allocated, pid, tracees, tracee_hash>>
    <2>1. e \in tracees
      BY <1>0, <1>1, FoundIsListed
    <2> QED BY <1>1, <2>1 DEF IInv, TypeOK, StartUp, Running, Allocated, Indexed,
            RootMisplaced, OneTraceePerPid
  <1>2. CASE get_tracee(p) = {} /\ new_tracee(e, p)
    <2>1. \A t \in tracees : pid[t] # p
      BY <1>0, <1>2, NotFoundIsUnlisted
    <2>2. /\ e \notin allocated /\ allocated' = allocated \cup {e}
          /\ tracees' = tracees \cup {e}
          /\ pid' = [pid EXCEPT ![e] = p]
          /\ tracee_hash' = [tracee_hash EXCEPT ![tracee_hash_fn(p)] = @ \cup {e}]
      BY <1>2 DEF new_tracee, tracee_hash_insert
    <2>3. e # root /\ e \notin tracees /\ \A b \in Bucket : e \notin tracee_hash[b]
      BY <2>2 DEF IInv, StartUp, Running, Allocated
    <2>4. /\ pid' \in [Tracee -> Nat] /\ pid'[e] = p
          /\ \A t \in Tracee \ {e} : pid'[t] = pid[t]
      BY <1>0, <2>2 DEF IInv, TypeOK
    <2>5. /\ tracee_hash' \in [Bucket -> SUBSET Tracee]
          /\ tracee_hash'[tracee_hash_fn(p)] = tracee_hash[tracee_hash_fn(p)] \cup {e}
          /\ \A b \in Bucket \ {tracee_hash_fn(p)} : tracee_hash'[b] = tracee_hash[b]
      BY <1>0, <2>2 DEF IInv, TypeOK
    <2>6. StartUp' /\ Allocated'
      BY <1>0, <2>2, <2>5 DEF IInv, StartUp, Running, Allocated
    <2>7. Indexed'
      <3>1. ASSUME NEW t \in tracees' \ {root} PROVE t \in tracee_hash'[tracee_hash_fn(pid'[t])]
        <4>1. CASE t = e
          BY <4>1, <2>4, <2>5
        <4>2. CASE t # e
          <5>1. t \in tracees \ {root} /\ pid'[t] = pid[t] /\ pid[t] \in Nat
            BY <4>2, <2>2, <2>4 DEF IInv, TypeOK
          <5>2. t \in tracee_hash[tracee_hash_fn(pid[t])] /\ tracee_hash_fn(pid[t]) \in Bucket
            BY <5>1, HashFnType DEF IInv, Indexed
          <5> QED BY SMTT(30), <5>1, <5>2, <2>5
        <4> QED BY <4>1, <4>2
      <3>2. ASSUME NEW b \in Bucket, NEW t \in tracee_hash'[b] \ {root}
            PROVE  t \in tracees' /\ b = tracee_hash_fn(pid'[t])
        <4>1. CASE t = e
          BY <4>1, <2>2, <2>3, <2>4, <2>5
        <4>2. CASE t # e
          <5>1. t \in tracee_hash[b]
            BY <4>2, <2>5
          <5>2. t \in Tracee
            BY <5>1 DEF IInv, TypeOK
          <5> QED BY <4>2, <5>1, <5>2, <2>2, <2>4 DEF IInv, Indexed
        <4> QED BY <4>1, <4>2
      <3> QED BY <3>1, <3>2 DEF Indexed
    <2>8. RootMisplaced'
      BY <2>2, <2>3, <2>4, <2>5 DEF IInv, RootMisplaced, TypeOK
    <2>9. OneTraceePerPid'
      BY <2>1, <2>2, <2>4 DEF IInv, OneTraceePerPid, TypeOK
    <2> QED BY <2>2, <2>4, <2>5, <2>6, <2>7, <2>8, <2>9 DEF IInv, TypeOK
  <1> QED BY <1>1, <1>2 DEF GetOrCreate

\* Each operation on the table preserves it.
LEMMA NextIInv == IInv /\ [Next]_vars => IInv'
  <1> SUFFICES ASSUME IInv, [Next]_vars PROVE IInv'
    OBVIOUS
  <1>1. CASE Main
    <2>1. /\ tracee_hash_fn(0) \in Bucket /\ tracee_hash_fn(ProotPid) \in Bucket
          /\ ProotPid \in Nat
      BY PidAssumption, HashFnType
    <2>2. \A b \in Bucket : tracee_hash'[b] \subseteq {root}
      BY <1>1, <2>1 DEF Main, tracee_hash_update, tracee_hash_insert, IInv, TypeOK, StartUp
    <2>3. pid' \in [Tracee -> Nat] /\ tracee_hash' \in [Bucket -> SUBSET Tracee]
      BY <1>1, <2>1 DEF Main, tracee_hash_update, tracee_hash_insert, IInv, TypeOK
    <2> QED BY <1>1, <2>2, <2>3 DEF Main, IInv, TypeOK, StartUp, Running, Allocated, Indexed,
            RootMisplaced, OneTraceePerPid
  <1>2. ASSUME NEW p \in Pid, launch_process(p) PROVE IInv'
    <2>1. p \in Nat
      BY PidAssumption
    <2>2. pid' \in [Tracee -> Nat] /\ \A t \in Tracee \ {root} : pid'[t] = pid[t]
      BY <1>2, <2>1 DEF launch_process, IInv, TypeOK
    <2>3. tracees = {root} /\ \A b \in Bucket : tracee_hash[b] \subseteq {root}
      BY <1>2 DEF launch_process, IInv, StartUp, Allocated
    <2> QED BY <1>2, <2>2, <2>3 DEF launch_process, IInv, TypeOK, StartUp, Running, Allocated,
            Indexed, RootMisplaced, OneTraceePerPid
  <1>3. CASE free_terminated_tracees
    <2>1. ASSUME NEW b \in Bucket, NEW t \in Tracee
          PROVE  t \in tracee_hash'[b] <=>
                     /\ t \in tracee_hash[b]
                     /\ t \in terminated => b # tracee_hash_fn(pid[t])
      <3>1. pid[t] \in Nat /\ tracee_hash_fn(pid[t]) \in Bucket
        BY HashFnType DEF IInv, TypeOK
      <3> QED BY <1>3, <3>1 DEF free_terminated_tracees, tracee_hash_remove, IInv, TypeOK
    <2>2. tracee_hash' \in [Bucket -> SUBSET Tracee]
      BY <1>3 DEF free_terminated_tracees, IInv, TypeOK
    <2>3. \A t \in tracees : t \in Tracee /\ pid[t] \in Nat /\ tracee_hash_fn(pid[t]) \in Bucket
      BY HashFnType DEF IInv, TypeOK
    <2>4. Indexed'
      BY <1>3, <2>1, <2>2, <2>3 DEF free_terminated_tracees, IInv, Indexed, Allocated, TypeOK
    <2>5. RootMisplaced'
      BY <1>3, <2>1, <2>2 DEF free_terminated_tracees, IInv, RootMisplaced, Allocated, TypeOK
    <2>6. TypeOK' /\ StartUp' /\ OneTraceePerPid'
      BY <1>3, <2>2 DEF free_terminated_tracees, IInv, TypeOK, StartUp, Running, OneTraceePerPid
    <2>7. Allocated'
      BY <1>3, <2>1, <2>2 DEF free_terminated_tracees, IInv, TypeOK, Allocated
    <2> QED BY <2>4, <2>5, <2>6, <2>7 DEF IInv
  <1>4. ASSUME NEW p \in Pid, NEW e \in Tracee, StopEvent(p, e) PROVE IInv'
    <2>1. Running /\ Running' /\ GetOrCreate(e, p) /\ root' = root
          /\ terminated' \subseteq terminated \cup {e}
      BY <1>4 DEF StopEvent, EventHandled, Running
    <2> QED BY <1>4, <2>1, GetOrCreateInv DEF IInv, TypeOK, StopEvent, EventHandled
  <1>5. ASSUME NEW p \in Pid, NEW e \in Tracee, ExitEvent(p, e) PROVE IInv'
    <2>1. Running /\ Running' /\ GetOrCreate(e, p) /\ root' = root
          /\ terminated' \subseteq terminated \cup {e}
      BY <1>5 DEF ExitEvent, EventHandled, Running
    <2> QED BY <1>5, <2>1, GetOrCreateInv DEF IInv, TypeOK, ExitEvent, EventHandled
  <1>6. ASSUME NEW p \in Pid, NEW c \in Pid, NEW e \in Tracee, ForkEvent(p, c, e) PROVE IInv'
    <2>1. Running /\ Running' /\ GetOrCreate(e, c) /\ root' = root
          /\ terminated' \subseteq terminated \cup {e}
      BY <1>6 DEF ForkEvent, EventHandled, Running
    <2> QED BY <1>6, <2>1, GetOrCreateInv DEF IInv, TypeOK, ForkEvent, EventHandled
  <1>7. ASSUME NEW p \in Pid, NEW c \in Pid, KernelFork(p, c) PROVE IInv'
    BY SMTT(30), <1>7 DEF KernelFork, table, IInv, TypeOK, StartUp, Running, Allocated, Indexed,
       RootMisplaced, OneTraceePerPid
  <1>8. CASE NoChild
    BY <1>8 DEF NoChild, table, IInv, TypeOK, StartUp, Running, Allocated, Indexed,
       RootMisplaced, OneTraceePerPid
  <1>9. CASE UNCHANGED vars
    BY <1>9 DEF vars, table, IInv, TypeOK, StartUp, Running, Allocated, Indexed,
       RootMisplaced, OneTraceePerPid
  <1> QED BY <1>1, <1>2, <1>3, <1>4, <1>5, <1>6, <1>7, <1>8, <1>9 DEF Next

\* IInv is an inductive invariant.
LEMMA Inductive == Spec => []IInv
  BY InitIInv, NextIInv, PTL DEF Spec

\* The variables keep their types in every behaviour.
THEOREM TypeCorrect == Spec => []TypeOK
  BY Inductive, PTL DEF IInv

\* No process is registered twice, in whatever order its stops, its exit
\* and the fork event of its parent are handled.
THEOREM UniqueRegistration == Spec => []OneTraceePerPid
  BY Inductive, PTL DEF IInv

\* get_tracee() never returns a freed entry, although the index can hold
\* one: the first tracee is left in a bucket its pid does not select.
THEOREM LookupIsSafe == Spec => []GetTraceeReturnsListed
  <1>1. IInv => GetTraceeReturnsListed
    BY FoundIsListed, PidAssumption DEF GetTraceeReturnsListed
  <1> QED BY <1>1, Inductive, PTL

\* The first tracee is the only entry that tracee_hash_remove() can miss.
THEOREM RemovalIsComplete == Spec => []OnlyRootDangles
  <1>1. IInv => OnlyRootDangles
    BY DEF IInv, Indexed, OnlyRootDangles
  <1> QED BY <1>1, Inductive, PTL

\* tracee_is_tracked() knows every tracee but the first.
THEOREM OthersAreTracked == Spec => []TrackedButRoot
  <1>1. IInv => TrackedButRoot
    BY DEF IInv, Indexed, TrackedButRoot, tracee_is_tracked, tracee_lookup_readonly
  <1> QED BY <1>1, Inductive, PTL

-----------------------------------------------------------------------------
(***************************************************************************)
(* Bindings                                                                *)
(***************************************************************************)

(* What paths are to each other: strict prefixes compose, and exclude each *)
(* other.                                                                  *)
LEMMA PrefixTransitive ==
    ASSUME NEW p \in Seq(Names), NEW q \in Seq(Names), NEW r \in Seq(Names),
           Prefix(p, q), Covers(q, r)
    PROVE  Prefix(p, r)
<1>1. CASE q = r
    BY <1>1
<1>2. CASE Prefix(q, r)
    <2>1. Len(p) < Len(r)
        BY <1>2 DEF Prefix
    <2>2. ASSUME NEW i \in DOMAIN p PROVE p[i] = r[i]
        <3>1. i \in DOMAIN q
            BY <2>2 DEF Prefix
        <3>2. QED
            BY <1>2, <2>2, <3>1 DEF Prefix
    <2>3. QED
        BY <2>1, <2>2 DEF Prefix
<1>3. QED
    BY <1>1, <1>2 DEF Covers

(* Both sides of a binding are paths.                                      *)
LEMMA SidePath ==
    ASSUME NEW b \in Binding, NEW side
    PROVE  Side(b, side) \in Seq(Names)
BY DEF Side, Binding

(* Removing a binding from a list leaves the order of the others.          *)
LEMMA RemovalKeepsOrder ==
    ASSUME NEW list \in Seq(Binding), NEW side, Sorted(list, side), NEW n \in DOMAIN list
    PROVE  Removed(list, n) \in Seq(Binding) /\ Sorted(Removed(list, n), side)
<1> DEFINE new == Removed(list, n)
<1>1. new \in [1..Len(list) - 1 -> Binding]
    BY DEF Removed
<1>2. new \in Seq(Binding)
    <2>1. Len(list) - 1 \in Nat
        OBVIOUS
    <2>2. QED
        BY <1>1, <2>1
<1>3. ASSUME NEW i \in DOMAIN new, NEW j \in DOMAIN new,
             Prefix(Side(new[i], side), Side(new[j], side))
      PROVE  j < i
    <2> DEFINE Old(k) == IF k < n THEN k ELSE k + 1
    <2>1. i \in 1..Len(list) - 1 /\ j \in 1..Len(list) - 1
        BY <1>1, <1>3
    <2>2. new[i] = list[Old(i)] /\ new[j] = list[Old(j)]
        BY <2>1 DEF Removed
    <2>3. Old(i) \in DOMAIN list /\ Old(j) \in DOMAIN list
        BY <2>1
    <2>4. Old(j) < Old(i)
        BY <1>3, <2>2, <2>3 DEF Sorted
    <2>5. QED
        BY <2>1, <2>4
<1>4. QED
    BY <1>2, <1>3 DEF Sorted

(* The same of remove_binding_from_all_lists(), on one list.               *)
LEMMA WithoutKeepsOrder ==
    ASSUME NEW list \in Seq(Binding), NEW side, Sorted(list, side), NEW b
    PROVE  Without(list, b) \in Seq(Binding) /\ Sorted(Without(list, b), side)
<1>1. CASE b \in Elements(list)
    <2>1. (CHOOSE i \in DOMAIN list : list[i] = b) \in DOMAIN list
        BY <1>1 DEF Elements
    <2>2. QED
        BY <1>1, <2>1, RemovalKeepsOrder DEF Without
<1>2. CASE b \notin Elements(list)
    BY <1>2 DEF Without
<1>3. QED
    BY <1>1, <1>2

(* What it is to be at the place insort_binding() chooses: behind all that *)
(* the new binding contains, before all that contain it.                   *)
Fits(list, side, n, b) ==
    /\ \A i \in DOMAIN list : Prefix(Side(b, side), Side(list[i], side)) => i < n
    /\ \A i \in DOMAIN list : Prefix(Side(list[i], side), Side(b, side)) => n <= i

(* A binding put where it fits leaves the list in order.                   *)
LEMMA InsertionKeepsOrder ==
    ASSUME NEW list \in Seq(Binding), NEW side, Sorted(list, side),
           NEW b \in Binding, NEW n \in 1..Len(list) + 1, Fits(list, side, n, b)
    PROVE  Inserted(list, n, b) \in Seq(Binding) /\ Sorted(Inserted(list, n, b), side)
<1> DEFINE new == Inserted(list, n, b)
<1>1. new \in [1..Len(list) + 1 -> Binding]
    BY DEF Inserted
<1>2. new \in Seq(Binding)
    BY <1>1
<1>3. ASSUME NEW i \in DOMAIN new, NEW j \in DOMAIN new,
             Prefix(Side(new[i], side), Side(new[j], side))
      PROVE  j < i
    <2> DEFINE Old(k) == IF k < n THEN k ELSE k - 1
    <2>1. i \in 1..Len(list) + 1 /\ j \in 1..Len(list) + 1
        BY <1>1, <1>3
    <2>2. i # n => new[i] = list[Old(i)] /\ Old(i) \in DOMAIN list
        BY <2>1 DEF Inserted
    <2>3. j # n => new[j] = list[Old(j)] /\ Old(j) \in DOMAIN list
        BY <2>1 DEF Inserted
    <2>4. new[n] = b
        BY DEF Inserted
    <2>5. CASE i # n /\ j # n
        <3>1. Old(j) < Old(i)
            BY <1>3, <2>2, <2>3, <2>5 DEF Sorted
        <3>2. QED
            BY <2>1, <2>5, <3>1
    <2>6. CASE i = n /\ j # n
        <3>1. Old(j) < n
            BY <1>3, <2>3, <2>4, <2>6 DEF Fits
        <3>2. QED
            BY <2>1, <2>6, <3>1
    <2>7. CASE i # n /\ j = n
        <3>1. n <= Old(i)
            BY <1>3, <2>2, <2>4, <2>7 DEF Fits
        <3>2. QED
            BY <2>1, <2>7, <3>1
    <2>8. CASE i = n /\ j = n
        BY <1>3, <2>4, <2>8, SidePath DEF Prefix
    <2>9. QED
        BY <2>5, <2>6, <2>7, <2>8
<1>4. QED
    BY <1>2, <1>3 DEF Sorted

(* The last of the places where something is that the new binding contains.*)
LEMMA LastExists ==
    ASSUME NEW list \in Seq(Binding), NEW side, NEW b, Contained(list, side, b) # {}
    PROVE  \E i \in Contained(list, side, b) :
               \A j \in Contained(list, side, b) : j <= i
<1> DEFINE S == Contained(list, side, b)
           T == {Len(list) - i : i \in S}
           Less == {ss \in Nat \X Nat : ss[1] < ss[2]}
<1>1. S \subseteq 1..Len(list)
    BY DEF Contained
<1>2. T \subseteq Nat /\ T # {}
    BY <1>1
<1>8. IsWellFoundedOn(Less, Nat)
    BY NatLessThanWellFounded, ZenonT(30) DEF OpToRel
<1>3. PICK m \in T : \A k \in T : ~(<<k, m>> \in Less)
    <2> HIDE DEF T, Less
    <2> QED
        BY <1>2, <1>8, WFMin
<1>4. \A k \in T : m <= k
    <2>1. ASSUME NEW k \in T PROVE m <= k
        <3>1. k \in Nat /\ m \in Nat
            BY <1>2, <1>3
        <3>2. ~(<<k, m>> \in Less)
            BY <1>3
        <3>3. ~(k < m)
            BY <3>1, <3>2
        <3>4. QED
            BY <3>1, <3>3
    <2>2. QED
        BY <2>1
<1>5. PICK i \in S : m = Len(list) - i
    OBVIOUS
<1>6. ASSUME NEW j \in S PROVE j <= i
    <2>1. m <= Len(list) - j
        BY <1>4
    <2>2. QED
        BY <1>1, <1>5, <2>1
<1>7. QED
    BY <1>6

(* insort_binding() finds a place that fits.                               *)
LEMMA InsortFits ==
    ASSUME NEW list \in Seq(Binding), NEW side, Sorted(list, side), NEW b \in Binding
    PROVE  \E n \in 1..Len(list) + 1 :
               insort_binding(list, side, b) = Inserted(list, n, b) /\ Fits(list, side, n, b)
<1> DEFINE below == Contained(list, side, b)
           last == CHOOSE i \in below : \A j \in below : j <= i
<1>1. CASE below = {}
    <2>1. insort_binding(list, side, b) = Inserted(list, 1, b)
        BY <1>1 DEF insort_binding
    <2>2. Fits(list, side, 1, b)
        BY <1>1 DEF Fits, Contained, Covers
    <2>3. QED
        BY <2>1, <2>2
<1>2. CASE below # {}
    <2>1. last \in below /\ \A j \in below : j <= last
        <3> HIDE DEF below
        <3>1. \E i \in below : \A j \in below : j <= i
            BY <1>2, LastExists DEF below
        <3>2. QED
            BY <3>1
    <2>2. insort_binding(list, side, b) = Inserted(list, last + 1, b)
        BY <1>2 DEF insort_binding
    <2> HIDE DEF last
    <2>3. last \in 1..Len(list) /\ Covers(Side(b, side), Side(list[last], side))
        BY <2>1 DEF Contained
    <2>4. ASSUME NEW i \in DOMAIN list, Prefix(Side(b, side), Side(list[i], side))
          PROVE  i < last + 1
        <3>1. i \in below
            BY <2>4 DEF Contained, Covers
        <3>2. QED
            BY <2>1, <2>3, <3>1
    <2>5. ASSUME NEW i \in DOMAIN list, Prefix(Side(list[i], side), Side(b, side))
          PROVE  last + 1 <= i
        <3>1. list[i] \in Binding /\ list[last] \in Binding
            BY <2>3
        <3>2. Prefix(Side(list[i], side), Side(list[last], side))
            BY <2>3, <2>5, <3>1, SidePath, PrefixTransitive
        <3>3. last < i
            BY <2>3, <3>2 DEF Sorted
        <3>4. QED
            BY <2>3, <3>3
    <2>6. QED
        BY <2>2, <2>3, <2>4, <2>5 DEF Fits
<1>3. QED
    BY <1>1, <1>2

(* A function on 1..n is a sequence of that length.                        *)
LEMMA LengthOf ==
    ASSUME NEW S, NEW n \in Nat, NEW f \in [1..n -> S]
    PROVE  f \in Seq(S) /\ Len(f) = n
OBVIOUS

(* Insertion adds one element, and removal takes one away.                 *)
LEMMA InsertedElements ==
    ASSUME NEW list \in Seq(Binding), NEW b \in Binding, NEW n \in 1..Len(list) + 1
    PROVE  /\ Inserted(list, n, b) \in Seq(Binding)
           /\ Len(Inserted(list, n, b)) = Len(list) + 1
           /\ Elements(Inserted(list, n, b)) = Elements(list) \cup {b}
<1> DEFINE new == Inserted(list, n, b)
<1>1. new \in [1..Len(list) + 1 -> Binding]
    BY DEF Inserted
<1>2. new \in Seq(Binding) /\ Len(new) = Len(list) + 1
    BY SMTT(30), <1>1, LengthOf
<1>3. ASSUME NEW x \in Elements(new) PROVE x \in Elements(list) \cup {b}
    BY SMTT(30), <1>1 DEF Elements, Inserted
<1>4. ASSUME NEW x \in Elements(list) PROVE x \in Elements(new)
    <2>1. PICK i \in DOMAIN list : list[i] = x
        BY DEF Elements
    <2>2. CASE i < n
        <3>1. i \in 1..Len(list) + 1 /\ new[i] = x
            BY <2>1, <2>2 DEF Inserted
        <3>2. QED
            BY <1>1, <3>1 DEF Elements
    <2>3. CASE ~(i < n)
        <3>1. i + 1 \in 1..Len(list) + 1 /\ new[i + 1] = x
            BY <2>1, <2>3 DEF Inserted
        <3>2. QED
            BY <1>1, <3>1 DEF Elements
    <2>4. QED
        BY <2>2, <2>3
<1>5. b \in Elements(new)
    <2>1. n \in 1..Len(list) + 1 /\ new[n] = b
        BY DEF Inserted
    <2>2. QED
        BY <1>1, <2>1 DEF Elements
<1>6. QED
    BY <1>2, <1>3, <1>4, <1>5

(* A list in which everything is apart ("Key" is what keeps it apart: the  *)
(* whole binding in one list, its guest path in the other).                *)
Key(x, by) == IF by = "guest" THEN x.guest ELSE x

Distinct(list, by) == \A i, j \in DOMAIN list : Key(list[i], by) = Key(list[j], by) => i = j

(* A list without duplicates has none after the insertion of a new key.    *)
LEMMA InsertedDistinct ==
    ASSUME NEW list \in Seq(Binding), NEW b \in Binding, NEW n \in 1..Len(list) + 1,
           NEW by, Distinct(list, by), \A x \in Elements(list) : Key(x, by) # Key(b, by)
    PROVE  Distinct(Inserted(list, n, b), by)
<1> DEFINE new == Inserted(list, n, b)
           Old(k) == IF k < n THEN k ELSE k - 1
<1>1. DOMAIN new = 1..Len(list) + 1
    BY DEF Inserted
<1>2. ASSUME NEW k \in DOMAIN new, k # n
      PROVE  Old(k) \in DOMAIN list /\ new[k] = list[Old(k)]
    BY <1>1, <1>2 DEF Inserted
<1>3. new[n] = b
    BY DEF Inserted
<1>4. ASSUME NEW i \in DOMAIN new, NEW j \in DOMAIN new, Key(new[i], by) = Key(new[j], by)
      PROVE  i = j
    <2>1. CASE i # n /\ j # n
        <3>1. Old(i) = Old(j)
            BY <1>2, <1>4, <2>1 DEF Distinct
        <3>2. QED
            BY <1>1, <2>1, <3>1
    <2>2. CASE i # n /\ j = n
        <3>1. list[Old(i)] \in Elements(list)
            BY <1>2, <2>2 DEF Elements
        <3>2. QED
            BY <1>2, <1>3, <1>4, <2>2, <3>1
    <2>3. CASE i = n /\ j # n
        <3>1. list[Old(j)] \in Elements(list)
            BY <1>2, <2>3 DEF Elements
        <3>2. QED
            BY <1>2, <1>3, <1>4, <2>3, <3>1
    <2>4. QED
        BY <2>1, <2>2, <2>3
<1>5. QED
    BY <1>4 DEF Distinct

(* What is left of a list without duplicates, when one binding is removed. *)
LEMMA WithoutElements ==
    ASSUME NEW list \in Seq(Binding), NEW b \in Elements(list), NEW by, Distinct(list, by)
    PROVE  /\ Without(list, b) \in Seq(Binding)
           /\ Len(Without(list, b)) = Len(list) - 1
           /\ Elements(Without(list, b)) = Elements(list) \ {b}
           /\ Distinct(Without(list, b), by)
<1> DEFINE n == CHOOSE i \in DOMAIN list : list[i] = b
           new == Removed(list, n)
           Old(k) == IF k < n THEN k ELSE k + 1
<1>1. n \in DOMAIN list /\ list[n] = b
    BY DEF Elements
<1>2. Without(list, b) = new
    BY DEF Without
<1> HIDE DEF n
<1>3. new \in [1..Len(list) - 1 -> Binding] /\ Len(list) - 1 \in Nat
    BY <1>1 DEF Removed
<1>4. new \in Seq(Binding) /\ Len(new) = Len(list) - 1
    BY <1>3, LengthOf
<1>5. ASSUME NEW k \in DOMAIN new
      PROVE  Old(k) \in DOMAIN list /\ Old(k) # n /\ new[k] = list[Old(k)]
    BY <1>1, <1>3, <1>5 DEF Removed
<1>6. ASSUME NEW x \in Elements(new) PROVE x \in Elements(list) \ {b}
    <2>1. PICK k \in DOMAIN new : new[k] = x
        BY DEF Elements
    <2>2. x = list[Old(k)] /\ Old(k) \in DOMAIN list /\ Old(k) # n
        BY <1>5, <2>1
    <2>3. x # b
        BY <1>1, <2>2 DEF Distinct
    <2>4. QED
        BY <2>2, <2>3 DEF Elements
<1>7. ASSUME NEW x \in Elements(list) \ {b} PROVE x \in Elements(new)
    <2>1. PICK i \in DOMAIN list : list[i] = x
        BY DEF Elements
    <2>2. i # n
        BY <1>1, <2>1
    <2>3. CASE i < n
        <3>1. i \in 1..Len(list) - 1 /\ new[i] = x
            BY <1>1, <2>1, <2>3 DEF Removed
        <3>2. QED
            BY <1>3, <3>1 DEF Elements
    <2>4. CASE n < i
        <3>1. i - 1 \in 1..Len(list) - 1 /\ new[i - 1] = x
            BY <1>1, <2>1, <2>4 DEF Removed
        <3>2. QED
            BY <1>3, <3>1 DEF Elements
    <2>5. QED
        BY <1>1, <2>2, <2>3, <2>4
<1>8. Distinct(new, by)
    <2>1. ASSUME NEW i \in DOMAIN new, NEW j \in DOMAIN new, Key(new[i], by) = Key(new[j], by)
          PROVE  i = j
        <3>1. Old(i) = Old(j)
            BY <1>5, <2>1 DEF Distinct
        <3>2. QED
            BY <1>1, <1>3, <2>1, <3>1
    <2>2. QED
        BY <2>1 DEF Distinct
<1>9. QED
    BY <1>2, <1>4, <1>6, <1>7, <1>8

-----------------------------------------------------------------------------
(* The promises of both lists.                                             *)
Promise(ns) == NestedFirst(ns) /\ SameOnBothSides(ns) /\ RootIsLast(ns)

(* SameOnBothSides in terms of the keys of each list ...                   *)
LEMMA PromiseDistinct ==
    ASSUME NEW ns \in Bindings, SameOnBothSides(ns)
    PROVE  Distinct(ns.guest, "guest") /\ Distinct(ns.host, "binding")
BY DEF SameOnBothSides, OneEach, Distinct, Key

(* ... and back.                                                           *)
LEMMA DistinctPromise ==
    ASSUME NEW ns, Elements(ns.guest) = Elements(ns.host),
           Distinct(ns.guest, "guest"), Distinct(ns.host, "binding")
    PROVE  SameOnBothSides(ns)
BY DEF SameOnBothSides, OneEach, Distinct, Key

(* A binding where nothing was bound.                                      *)
LEMMA NewKeepsPromise ==
    ASSUME NEW ns \in Bindings, NestedFirst(ns), SameOnBothSides(ns), NEW b \in Binding,
           \A x \in Elements(ns.guest) : x.guest # b.guest
    PROVE  LET new == insort_binding2(ns, b)
           IN /\ new \in Bindings /\ NestedFirst(new) /\ SameOnBothSides(new)
              /\ Elements(new.guest) = Elements(ns.guest) \cup {b}
              /\ new.guest = insort_binding(ns.guest, "GUEST", b)
<1> DEFINE new == insort_binding2(ns, b)
<1>1. ns.guest \in Seq(Binding) /\ ns.host \in Seq(Binding)
    BY DEF Bindings
<1>2. new = [guest |-> insort_binding(ns.guest, "GUEST", b),
             host |-> insort_binding(ns.host, "HOST", b)]
    <2>1. {x \in Elements(ns.guest) : x.guest = b.guest} = {}
        OBVIOUS
    <2>2. QED
        BY <2>1 DEF insort_binding2
<1>3. PICK n \in 1..Len(ns.guest) + 1 :
          new.guest = Inserted(ns.guest, n, b) /\ Fits(ns.guest, "GUEST", n, b)
    <2>1. Sorted(ns.guest, "GUEST") /\ new.guest = insort_binding(ns.guest, "GUEST", b)
        BY <1>2 DEF NestedFirst
    <2>2. QED
        BY <1>1, <2>1, InsortFits
<1>4. PICK m \in 1..Len(ns.host) + 1 :
          new.host = Inserted(ns.host, m, b) /\ Fits(ns.host, "HOST", m, b)
    <2>1. Sorted(ns.host, "HOST") /\ new.host = insort_binding(ns.host, "HOST", b)
        BY <1>2 DEF NestedFirst
    <2>2. QED
        BY <1>1, <2>1, InsortFits
<1>5. Sorted(new.guest, "GUEST") /\ Sorted(new.host, "HOST")
    BY <1>1, <1>3, <1>4, InsertionKeepsOrder DEF NestedFirst
<1>6. /\ new.guest \in Seq(Binding) /\ Elements(new.guest) = Elements(ns.guest) \cup {b}
      /\ new.host \in Seq(Binding) /\ Elements(new.host) = Elements(ns.host) \cup {b}
    BY SMTT(30), <1>1, <1>3, <1>4, InsertedElements
<1>7. Distinct(new.guest, "guest")
    <2>1. \A x \in Elements(ns.guest) : Key(x, "guest") # Key(b, "guest")
        BY DEF Key
    <2>2. QED
        BY <1>1, <1>3, <2>1, PromiseDistinct, InsertedDistinct
<1>8. Distinct(new.host, "binding")
    <2>1. \A x \in Elements(ns.host) : Key(x, "binding") # Key(b, "binding")
        BY DEF Key, SameOnBothSides
    <2>2. QED
        BY <1>1, <1>4, <2>1, PromiseDistinct, InsertedDistinct
<1>9. Elements(new.guest) = Elements(new.host)
    BY <1>6 DEF SameOnBothSides
<1>10. SameOnBothSides(new)
    BY <1>7, <1>8, <1>9, DistinctPromise
<1>11. new \in Bindings
    BY <1>2, <1>6 DEF Bindings
<1>12. QED
    BY SMTT(30), <1>2, <1>5, <1>6, <1>10, <1>11 DEF NestedFirst

(* A binding that replaces the one of the same guest path.                 *)
LEMMA ReplacementKeepsPromise ==
    ASSUME NEW ns \in Bindings, NestedFirst(ns), SameOnBothSides(ns), NEW b \in Binding,
           \E x \in Elements(ns.guest) : x.guest = b.guest
    PROVE  LET new == insort_binding2(ns, b)
           IN /\ new \in Bindings /\ NestedFirst(new) /\ SameOnBothSides(new)
              /\ DOMAIN new.guest = DOMAIN ns.guest
              /\ \A i \in DOMAIN ns.guest : new.guest[i].guest = ns.guest[i].guest
<1> DEFINE new == insort_binding2(ns, b)
           same == {x \in Elements(ns.guest) : x.guest = b.guest}
           old == CHOOSE x \in same : TRUE
           rest == Without(ns.host, old)
<1>1. ns.guest \in Seq(Binding) /\ ns.host \in Seq(Binding)
    BY DEF Bindings
<1>2. same # {} /\ old \in Elements(ns.guest) /\ old.guest = b.guest
    OBVIOUS
<1>3. new = [guest |-> [i \in DOMAIN ns.guest |->
                           IF ns.guest[i].guest = b.guest THEN b ELSE ns.guest[i]],
             host |-> insort_binding(rest, "HOST", b)]
    BY <1>2 DEF insort_binding2
<1> HIDE DEF old, new
<1>4. /\ DOMAIN new.guest = DOMAIN ns.guest
      /\ \A i \in DOMAIN ns.guest : /\ new.guest[i].guest = ns.guest[i].guest
                                    /\ ns.guest[i].guest # b.guest => new.guest[i] = ns.guest[i]
                                    /\ ns.guest[i].guest = b.guest => new.guest[i] = b
    BY <1>3
<1>5. new.guest \in Seq(Binding)
    <2>1. new.guest \in [1..Len(ns.guest) -> Binding]
        BY <1>1, <1>3
    <2>2. Len(ns.guest) \in Nat
        BY <1>1
    <2>3. QED
        BY <2>1, <2>2, LengthOf
<1>6. Sorted(new.guest, "GUEST")
    BY <1>4 DEF NestedFirst, Sorted, Side
<1>7. \A i, j \in DOMAIN ns.guest : ns.guest[i].guest = ns.guest[j].guest => i = j
    BY DEF SameOnBothSides
<1>8. \A x \in Elements(ns.guest) : x.guest = b.guest => x = old
    BY <1>2, <1>7 DEF Elements
<1>9. Elements(new.guest) = (Elements(ns.guest) \ {old}) \cup {b}
    <2>1. ASSUME NEW x \in Elements(new.guest) PROVE x \in (Elements(ns.guest) \ {old}) \cup {b}
        BY <1>2, <1>4 DEF Elements
    <2>2. ASSUME NEW x \in Elements(ns.guest) \ {old} PROVE x \in Elements(new.guest)
        BY <1>4, <1>8 DEF Elements
    <2>3. b \in Elements(new.guest)
        BY <1>2, <1>4 DEF Elements
    <2>4. QED
        BY <2>1, <2>2, <2>3
<1>10. /\ rest \in Seq(Binding) /\ Sorted(rest, "HOST") /\ Distinct(rest, "binding")
       /\ Elements(rest) = Elements(ns.guest) \ {old}
    <2>1. old \in Elements(ns.host) /\ Elements(ns.host) = Elements(ns.guest)
        BY <1>2 DEF SameOnBothSides
    <2>2. Distinct(ns.host, "binding") /\ Sorted(ns.host, "HOST")
        BY PromiseDistinct DEF NestedFirst
    <2>3. QED
        BY <1>1, <2>1, <2>2, WithoutElements, WithoutKeepsOrder
<1> HIDE DEF rest
<1>11. PICK m \in 1..Len(rest) + 1 :
          new.host = Inserted(rest, m, b) /\ Fits(rest, "HOST", m, b)
    BY <1>3, <1>10, InsortFits
<1>12. Sorted(new.host, "HOST") /\ new.host \in Seq(Binding)
    BY <1>10, <1>11, InsertionKeepsOrder
<1>13. Elements(new.host) = Elements(new.guest)
    BY SMTT(30), <1>9, <1>10, <1>11, InsertedElements
<1>14. Distinct(new.host, "binding")
    <2>1. \A x \in Elements(rest) : Key(x, "binding") # Key(b, "binding")
        BY <1>8, <1>10 DEF Key
    <2>2. QED
        BY <1>10, <1>11, <2>1, InsertedDistinct
<1>15. Distinct(new.guest, "guest")
    BY <1>4, <1>7 DEF Distinct, Key
<1>16. SameOnBothSides(new)
    BY <1>13, <1>14, <1>15, DistinctPromise
<1>17. new \in Bindings
    BY <1>3, <1>5, <1>12 DEF Bindings
<1>18. QED
    BY <1>4, <1>6, <1>12, <1>16, <1>17 DEF NestedFirst, new

(* A path "/" is that of the rootfs: it is before every other.             *)
LEMMA RootBefore ==
    ASSUME NEW p \in Seq(Names), p # << >>
    PROVE  Prefix(<< >>, p)
BY DEF Prefix

(* Inserting a binding, in both lists, keeps what they promise: the deepest*)
(* binding first, the same bindings on both sides with one for a guest     *)
(* path, and the rootfs last.  This is every step of mount(2).             *)
THEOREM InsertionKeepsPromise ==
    ASSUME NEW ns \in Bindings, Promise(ns), NEW b \in Binding
    PROVE  insort_binding2(ns, b) \in Bindings /\ Promise(insort_binding2(ns, b))
<1> DEFINE new == insort_binding2(ns, b)
           top == Len(ns.guest)
<1>1. ns.guest \in Seq(Binding) /\ top \in DOMAIN ns.guest /\ ns.guest[top].guest = << >>
    BY DEF Bindings, Promise, RootIsLast
<1>2. NestedFirst(ns) /\ SameOnBothSides(ns)
    BY DEF Promise
<1>3. CASE \E x \in Elements(ns.guest) : x.guest = b.guest
    <2>1. /\ new \in Bindings /\ NestedFirst(new) /\ SameOnBothSides(new)
          /\ DOMAIN new.guest = DOMAIN ns.guest
          /\ \A i \in DOMAIN ns.guest : new.guest[i].guest = ns.guest[i].guest
        BY <1>2, <1>3, ReplacementKeepsPromise
    <2>2. new.guest \in Seq(Binding)
        BY <2>1 DEF Bindings
    <2>3. Len(new.guest) = top
        BY <1>1, <2>1, <2>2
    <2>4. RootIsLast(new)
        BY <1>1, <2>1, <2>2, <2>3 DEF RootIsLast
    <2>5. QED
        BY <2>1, <2>4 DEF Promise
<1>4. CASE ~\E x \in Elements(ns.guest) : x.guest = b.guest
    <2>1. /\ new \in Bindings /\ NestedFirst(new) /\ SameOnBothSides(new)
          /\ new.guest = insort_binding(ns.guest, "GUEST", b)
        BY <1>2, <1>4, NewKeepsPromise
    <2>2. PICK n \in 1..top + 1 :
              new.guest = Inserted(ns.guest, n, b) /\ Fits(ns.guest, "GUEST", n, b)
        BY <1>1, <1>2, <2>1, InsortFits DEF NestedFirst
    <2>3. b.guest # << >> /\ b.guest \in Seq(Names)
        BY <1>1, <1>4 DEF Elements, Binding
    <2>4. n <= top
        BY <1>1, <2>2, <2>3, RootBefore DEF Fits, Side
    <2>5. Len(new.guest) = top + 1
        BY SMTT(30), <1>1, <2>2, InsertedElements
    <2>6. new.guest[top + 1] = ns.guest[top]
        BY SMTT(30), <1>1, <2>2, <2>4 DEF Inserted
    <2>7. new.guest # << >>
        BY <1>1, <2>1, <2>5 DEF Bindings
    <2>8. QED
        BY <1>1, <2>1, <2>5, <2>6, <2>7 DEF Promise, RootIsLast
<1>5. QED
    BY <1>3, <1>4

(* Removing a binding leaves an ordered pair of lists without it.          *)
LEMMA RemovalKeepsLists ==
    ASSUME NEW ns \in Bindings, NestedFirst(ns), SameOnBothSides(ns), NEW b \in Elements(ns.guest)
    PROVE  LET new == remove_binding_from_all_lists(ns, b)
           IN /\ new \in Bindings /\ NestedFirst(new) /\ SameOnBothSides(new)
              /\ Elements(new.guest) = Elements(ns.guest) \ {b}
              /\ new.guest = Without(ns.guest, b) /\ Len(new.guest) = Len(ns.guest) - 1
<1> DEFINE new == remove_binding_from_all_lists(ns, b)
<1>1. ns.guest \in Seq(Binding) /\ ns.host \in Seq(Binding) /\ b \in Elements(ns.host)
    BY DEF Bindings, SameOnBothSides
<1>2. new = [guest |-> Without(ns.guest, b), host |-> Without(ns.host, b)]
    BY DEF remove_binding_from_all_lists
<1>3. Sorted(new.guest, "GUEST") /\ Sorted(new.host, "HOST")
    BY <1>1, <1>2, WithoutKeepsOrder DEF NestedFirst
<1>4. Distinct(ns.guest, "guest") /\ Distinct(ns.host, "binding")
    BY PromiseDistinct
<1>5. /\ new.guest \in Seq(Binding) /\ Elements(new.guest) = Elements(ns.guest) \ {b}
      /\ Len(new.guest) = Len(ns.guest) - 1 /\ Distinct(new.guest, "guest")
    BY SMTT(30), <1>1, <1>2, <1>4, WithoutElements
<1>6. /\ new.host \in Seq(Binding) /\ Elements(new.host) = Elements(ns.host) \ {b}
      /\ Distinct(new.host, "binding")
    BY SMTT(30), <1>1, <1>2, <1>4, WithoutElements
<1>7. Elements(new.guest) = Elements(new.host)
    BY <1>5, <1>6 DEF SameOnBothSides
<1>8. SameOnBothSides(new)
    BY <1>5, <1>6, <1>7, DistinctPromise
<1>9. new \in Bindings
    BY <1>2, <1>5, <1>6 DEF Bindings
<1>10. QED
    BY <1>2, <1>3, <1>5, <1>8, <1>9 DEF NestedFirst

(* Removing any binding but the rootfs, as umount(2) does, keeps what the  *)
(* lists promise.                                                          *)
THEOREM RemovalKeepsPromise ==
    ASSUME NEW ns \in Bindings, Promise(ns), NEW b \in Elements(ns.guest), b.guest # << >>
    PROVE  LET new == remove_binding_from_all_lists(ns, b)
           IN new \in Bindings /\ Promise(new)
<1> DEFINE new == remove_binding_from_all_lists(ns, b)
           top == Len(ns.guest)
           n == CHOOSE i \in DOMAIN ns.guest : ns.guest[i] = b
<1>1. ns.guest \in Seq(Binding) /\ top \in DOMAIN ns.guest /\ ns.guest[top].guest = << >>
    BY DEF Bindings, Promise, RootIsLast
<1>2. /\ new \in Bindings /\ NestedFirst(new) /\ SameOnBothSides(new)
      /\ new.guest = Without(ns.guest, b) /\ Len(new.guest) = top - 1
    BY RemovalKeepsLists DEF Promise
<1>3. n \in DOMAIN ns.guest /\ ns.guest[n] = b
    BY DEF Elements
<1>4. new.guest = Removed(ns.guest, n)
    BY <1>2 DEF Without
<1> HIDE DEF n, new
<1>5. n # top /\ n \in 1..top
    BY <1>1, <1>3
<1>6. top - 1 \in 1..top - 1 /\ new.guest[top - 1] = ns.guest[top]
    BY SMTT(30), <1>1, <1>4, <1>5 DEF Removed
<1>7. new.guest # << >>
    BY <1>1, <1>2, <1>6 DEF Bindings
<1>8. RootIsLast(new)
    BY <1>1, <1>2, <1>6, <1>7 DEF RootIsLast
<1>9. QED
    BY <1>2, <1>8 DEF Promise, new

(* pivot_root(2) takes the rootfs out and puts another in: get_root() finds*)
(* the new one at the end of the list.                                     *)
THEOREM NewRootIsLast ==
    ASSUME NEW ns \in Bindings, Promise(ns), NEW old \in Elements(ns.guest), old.guest = << >>,
           NEW b \in Binding, b.guest = << >>
    PROVE  LET new == insort_binding2(remove_binding_from_all_lists(ns, old), b)
           IN new \in Bindings /\ Promise(new) /\ get_root(new) = b.host
<1> DEFINE bare == remove_binding_from_all_lists(ns, old)
           new == insort_binding2(bare, b)
<1>1. /\ bare \in Bindings /\ NestedFirst(bare) /\ SameOnBothSides(bare)
      /\ Elements(bare.guest) = Elements(ns.guest) \ {old}
    BY RemovalKeepsLists DEF Promise
<1>2. \A x \in Elements(bare.guest) : x.guest # << >>
    <2>1. \A i, j \in DOMAIN ns.guest : ns.guest[i].guest = ns.guest[j].guest => i = j
        BY DEF Promise, SameOnBothSides
    <2>2. \A x \in Elements(ns.guest) : x.guest = << >> => x = old
        BY <2>1 DEF Elements
    <2>3. QED
        BY <1>1, <2>2
<1> HIDE DEF bare
<1>3. /\ new \in Bindings /\ NestedFirst(new) /\ SameOnBothSides(new)
      /\ new.guest = insort_binding(bare.guest, "GUEST", b)
    BY <1>1, <1>2, NewKeepsPromise
<1>4. bare.guest \in Seq(Binding) /\ Sorted(bare.guest, "GUEST")
    BY <1>1 DEF Bindings, NestedFirst
<1>5. PICK n \in 1..Len(bare.guest) + 1 :
          new.guest = Inserted(bare.guest, n, b) /\ Fits(bare.guest, "GUEST", n, b)
    BY <1>3, <1>4, InsortFits
<1>6. ASSUME NEW i \in DOMAIN bare.guest PROVE i < n
    <2>1. bare.guest[i].guest # << >> /\ bare.guest[i].guest \in Seq(Names)
        <3>1. bare.guest[i] \in Elements(bare.guest)
            BY DEF Elements
        <3>2. bare.guest[i] \in Binding
            BY <1>4
        <3>3. QED
            BY <1>2, <3>1, <3>2 DEF Binding
    <2>2. QED
        BY <1>5, <2>1, RootBefore DEF Fits, Side
<1>7. n = Len(bare.guest) + 1
    <2>1. Len(bare.guest) \in DOMAIN bare.guest \/ Len(bare.guest) = 0
        BY <1>4
    <2>2. QED
        BY <1>4, <1>5, <1>6, <2>1
<1>8. Len(new.guest) = n /\ new.guest[n] = b
    <2>1. Len(new.guest) = n
        BY SMTT(30), <1>4, <1>5, <1>7, InsertedElements
    <2>2. QED
        BY SMTT(30), <1>4, <1>5, <1>7, <2>1 DEF Inserted
<1>9. new.guest # << >>
    BY <1>3, <1>7, <1>8, <1>4 DEF Bindings
<1>10. QED
    BY <1>3, <1>8, <1>9 DEF Promise, RootIsLast, get_root, bare

(* Of two paths that contain a third, one contains the other.              *)
LEMMA Comparable ==
    ASSUME NEW p \in Seq(Names), NEW q \in Seq(Names), NEW r \in Seq(Names),
           Covers(p, r), Covers(q, r)
    PROVE  Covers(p, q) \/ Prefix(q, p)
<1>1. Len(p) <= Len(r) /\ Len(q) <= Len(r)
    BY DEF Covers, Prefix
<1>2. \A i \in 1..Len(p) : p[i] = r[i]
    BY DEF Covers, Prefix
<1>3. \A i \in 1..Len(q) : q[i] = r[i]
    BY DEF Covers, Prefix
<1>4. CASE Len(p) < Len(q)
    BY SMTT(30), <1>1, <1>2, <1>3, <1>4 DEF Covers, Prefix
<1>5. CASE Len(q) < Len(p)
    BY <1>1, <1>2, <1>3, <1>5 DEF Prefix
<1>6. CASE Len(p) = Len(q)
    <2>1. p = q
        BY <1>1, <1>2, <1>3, <1>6
    <2>2. QED
        BY <2>1 DEF Covers
<1>7. QED
    BY <1>4, <1>5, <1>6

(* A set of places that is not empty has a first one.                      *)
LEMMA FirstExists ==
    ASSUME NEW n \in Nat, NEW S, S \subseteq 1..n, S # {}
    PROVE  \E i \in S : \A j \in S : i <= j
<1> DEFINE Less == {ss \in Nat \X Nat : ss[1] < ss[2]}
<1>1. IsWellFoundedOn(Less, Nat)
    BY NatLessThanWellFounded, ZenonT(30) DEF OpToRel
<1>2. S \subseteq Nat
    OBVIOUS
<1>3. PICK i \in S : \A j \in S : ~(<<j, i>> \in Less)
    <2> HIDE DEF Less
    <2> QED
        BY <1>1, <1>2, WFMin
<1>4. ASSUME NEW j \in S PROVE i <= j
    <2>1. ~(<<j, i>> \in Less)
        BY <1>3
    <2>2. i \in Nat /\ j \in Nat
        BY <1>2
    <2>3. QED
        BY <2>1, <2>2
<1>5. QED
    BY <1>4

(* get_binding() of a guest path, which takes the first match, finds the   *)
(* deepest binding that contains the path, and always finds one.           *)
THEOREM FirstIsDeepest ==
    ASSUME NEW ns \in Bindings, Promise(ns), NEW p \in Seq(Names)
    PROVE  LET b == get_binding(ns, "GUEST", p)
           IN /\ b \in Elements(ns.guest) /\ Covers(b.guest, p)
              /\ \A c \in Elements(ns.guest) : Covers(c.guest, p) => Covers(c.guest, b.guest)
<1> DEFINE list == ns.guest
           hits == {i \in DOMAIN list : Covers(list[i].guest, p)}
           m == CHOOSE i \in hits : \A j \in hits : i <= j
<1>1. list \in Seq(Binding) /\ Len(list) \in DOMAIN list /\ list[Len(list)].guest = << >>
    BY DEF Bindings, Promise, RootIsLast
<1>2. Len(list) \in hits
    BY <1>1, RootBefore DEF Covers
<1>3. m \in hits /\ \A j \in hits : m <= j
    <2>1. hits \subseteq 1..Len(list) /\ hits # {} /\ Len(list) \in Nat
        BY <1>1, <1>2
    <2> HIDE DEF hits
    <2>2. QED
        BY <2>1, FirstExists
<1>4. get_binding(ns, "GUEST", p) = list[m]
    <2>1. hits # {}
        BY <1>2
    <2>2. QED
        BY <2>1 DEF get_binding, First, Side
<1> HIDE DEF m
<1>5. m \in DOMAIN list /\ list[m] \in Binding /\ Covers(list[m].guest, p)
    BY <1>1, <1>3
<1>6. ASSUME NEW c \in Elements(list), Covers(c.guest, p) PROVE Covers(c.guest, list[m].guest)
    <2>1. PICK j \in DOMAIN list : list[j] = c
        BY DEF Elements
    <2>2. m <= j
        BY <1>3, <1>6, <2>1
    <2>3. ~Prefix(list[m].guest, c.guest)
        <3>1. Prefix(list[m].guest, list[j].guest) => j < m
            BY <1>5 DEF Promise, NestedFirst, Sorted, Side
        <3>2. QED
            BY <1>1, <1>5, <2>1, <2>2, <3>1
    <2>4. c.guest \in Seq(Names) /\ list[m].guest \in Seq(Names)
        <3>1. c \in Binding
            BY <1>1, <2>1
        <3>2. QED
            BY <1>5, <3>1 DEF Binding
    <2>5. QED
        BY <1>5, <1>6, <2>3, <2>4, Comparable
<1>7. list[m] \in Elements(list)
    BY <1>5 DEF Elements
<1>8. QED
    BY <1>4, <1>5, <1>6, <1>7

(* Taking out what was just put in gives the list back.                    *)
LEMMA RemovedInserted ==
    ASSUME NEW list \in Seq(Binding), NEW b \in Binding, b \notin Elements(list),
           NEW n \in 1..Len(list) + 1
    PROVE  Without(Inserted(list, n, b), b) = list
<1> DEFINE new == Inserted(list, n, b)
           k == CHOOSE i \in DOMAIN new : new[i] = b
<1>1. DOMAIN new = 1..Len(list) + 1 /\ new[n] = b
    BY DEF Inserted
<1>2. new \in Seq(Binding) /\ Len(new) = Len(list) + 1
    BY InsertedElements
<1>3. b \in Elements(new)
    BY <1>1 DEF Elements
<1>4. Without(new, b) = Removed(new, k)
    BY <1>3 DEF Without
<1>5. k \in DOMAIN new /\ new[k] = b
    BY <1>1
<1> HIDE DEF k
<1>6. k = n
    <2>1. CASE k < n
        <3>1. k \in DOMAIN list /\ list[k] = b
            BY <1>1, <1>5, <2>1 DEF Inserted
        <3>2. QED
            BY <3>1 DEF Elements
    <2>2. CASE n < k
        <3>1. k - 1 \in DOMAIN list /\ list[k - 1] = b
            BY <1>1, <1>5, <2>2 DEF Inserted
        <3>2. QED
            BY <3>1 DEF Elements
    <2>3. QED
        BY <1>1, <1>5, <2>1, <2>2
<1> HIDE DEF new
<1>7. Removed(new, n) = [i \in 1..Len(list) |-> IF i < n THEN new[i] ELSE new[i + 1]]
    <2>1. Len(new) - 1 = Len(list)
        BY <1>2
    <2>2. QED
        BY <2>1 DEF Removed
<1>8. ASSUME NEW i \in 1..Len(list)
      PROVE  (IF i < n THEN new[i] ELSE new[i + 1]) = list[i]
    BY DEF Inserted, new
<1>9. [i \in 1..Len(list) |-> IF i < n THEN new[i] ELSE new[i + 1]] = list
    BY <1>8
<1>10. QED
    BY <1>4, <1>6, <1>7, <1>9 DEF new

(* umount(2) of what was mounted where nothing was bound brings both lists *)
(* back as they were ("This is the inverse of emulate_mount()").           *)
THEOREM RemovalUndoesInsertion ==
    ASSUME NEW ns \in Bindings, Promise(ns), NEW b \in Binding,
           \A x \in Elements(ns.guest) : x.guest # b.guest
    PROVE  remove_binding_from_all_lists(insort_binding2(ns, b), b) = ns
<1>1. ns.guest \in Seq(Binding) /\ ns.host \in Seq(Binding)
    BY DEF Bindings
<1>2. Sorted(ns.guest, "GUEST") /\ Sorted(ns.host, "HOST")
    BY DEF Promise, NestedFirst
<1>3. b \notin Elements(ns.guest) /\ b \notin Elements(ns.host)
    BY DEF Promise, SameOnBothSides
<1>4. insort_binding2(ns, b) = [guest |-> insort_binding(ns.guest, "GUEST", b),
                                host |-> insort_binding(ns.host, "HOST", b)]
    <2>1. {x \in Elements(ns.guest) : x.guest = b.guest} = {}
        OBVIOUS
    <2>2. QED
        BY <2>1 DEF insort_binding2
<1>5. Without(insort_binding(ns.guest, "GUEST", b), b) = ns.guest
    BY SMTT(30), <1>1, <1>2, <1>3, InsortFits, RemovedInserted
<1>6. Without(insort_binding(ns.host, "HOST", b), b) = ns.host
    BY SMTT(30), <1>1, <1>2, <1>3, InsortFits, RemovedInserted
<1>7. ns = [guest |-> ns.guest, host |-> ns.host]
    BY DEF Bindings
<1>8. QED
    BY <1>4, <1>5, <1>6, <1>7 DEF remove_binding_from_all_lists
=============================================================================
