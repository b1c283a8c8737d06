--------------------------- MODULE GuestProcessProofs ---------------------------
(***************************************************************************)
(* Proofs about what the extensions keep of a guest process, for any       *)
(* number of tasks: the emulated heap, of any size, the limit on           *)
(* processes, with any options, and kill(2) and the listing of /proc under *)
(* proc_isolation.                                                         *)
(***************************************************************************)
EXTENDS Heap, ResourceLimit, ProcIsolation, FiniteSetTheorems, WellFoundedInduction, TLAPS

\* Time limits of the provers, for every leaf below.
USE ZenonT(30), SMTT(30)

--------------------------------------------------------------------------------
(* The heap.                                                                *)

HeapType == [base : BOOLEAN, size : Nat, disabled : BOOLEAN]
VmType == [pages : SUBSET Nat, brk : Nat]
BrkType ==
    [step : {"kernel", "exit"}, num : {"brk", "mmap", "void", "mremap"},
     addr : Asked \cup {<<"kernel", 1>>}, old : Nat, new : Nat, result : {"none", "ok", "failed"}]

HeapTypes ==
    /\ heap_of \in [HTask -> HTask \cup {Absent}]
    /\ vm_of \in [HTask -> HTask \cup {Absent}]
    /\ heap \in [HTask -> HeapType]
    /\ vm \in [HTask -> VmType]
    /\ hcall \in [HTask -> {NoBrk} \cup BrkType]
    /\ \A t \in HTask : heap_of[t] = Absent <=> vm_of[t] = Absent
    /\ \A t \in HTask : hcall[t] # NoBrk =>
          t \in HTasks /\ (hcall[t].num = "mremap" => hcall[t].new # 0)

\* Those who share an address space share the Heap, and only they; without threads nobody does.
Paired ==
    /\ \A t, u \in HTasks : vm_of[t] = vm_of[u] <=> heap_of[t] = heap_of[u]
    /\ ~May("threads") => \A t, u \in HTasks : vm_of[t] = vm_of[u] => t = u

\* Of those who share an address space one at a time is in a brk(2).
BrkAlone ==
    \A t, u \in HTasks : vm_of[t] = vm_of[u] /\ hcall[t] # NoBrk /\ hcall[u] # NoBrk => t = u

\* What PRoot made of a call at its enter fits Heap h.
Fits(c, h) ==
    /\ c.num = "mremap" => h.base /\ ~h.disabled /\ c.old = h.size + 1 /\ c.new # 0
    /\ c.num = "mmap" => ~h.base /\ ~h.disabled
    /\ c.num = "brk" => ~h.base \/ h.disabled

\* What translate_brk_exit() makes of h.
Concluded(h, c) ==
    IF h.disabled \/ c.result # "ok" THEN h
    ELSE CASE c.num = "mmap" -> [h EXCEPT !.base = TRUE, !.size = 0]
           [] c.num = "mremap" -> [h EXCEPT !.size = c.new - 1]
           [] c.num = "brk" -> [h EXCEPT !.disabled = TRUE]
           [] OTHER -> h

\* What is mapped is what the Heap stands for, or will when the call is over.
Agrees(t) ==
    LET h == heap[heap_of[t]]
        pages == vm[vm_of[t]].pages
    IN  /\ Locked(t) => pages = Stands(h)
        /\ hcall[t] # NoBrk =>
              /\ Fits(hcall[t], h)
              /\ hcall[t].step = "kernel" => pages = Stands(h)
              /\ hcall[t].step = "exit" => pages = Stands(Concluded(h, hcall[t]))

HeapInv ==
    /\ HeapTypes
    /\ ~HeapExposed => Paired /\ BrkAlone /\ \A t \in HTasks : Agrees(t)

LEMMA InitHeap == HeapInit => HeapInv
  <1> SUFFICES ASSUME HeapInit PROVE HeapInv
    OBVIOUS
  <1>1. NewHeap \in HeapType /\ NewVm \in VmType
    BY DEF NewHeap, HeapType, NewVm, VmType
  <1>2. HeapTypes /\ \A t \in HTasks : t = HFirst
    BY <1>1, HeapAssumption DEF HeapInit, HeapTypes, HTasks, Absent
  <1>3. \A t \in HTask : hcall[t] = NoBrk /\ vm[t].pages = {} /\ Stands(heap[t]) = {}
    BY DEF HeapInit, NewVm, NewHeap, Stands
  <1>4. \A t \in HTasks : vm_of[t] = HFirst /\ heap_of[t] = HFirst
    BY <1>2, HeapAssumption DEF HeapInit
  <1> QED
    BY ZenonT(30), <1>2, <1>3, <1>4, HeapAssumption DEF HeapInv, Paired, BrkAlone, Agrees, HTasks

\* The objects of a task that is there.
LEMMA HasObjects ==
    ASSUME HeapTypes, NEW t \in HTasks
    PROVE  /\ t \in HTask /\ vm_of[t] \in HTask /\ heap_of[t] \in HTask
           /\ heap[heap_of[t]] \in HeapType /\ vm[vm_of[t]] \in VmType
  BY DEF HeapTypes, HTasks

\* A task that keeps what it has, and whose address space is not left by a call.
LEMMA StaysAgreed ==
    ASSUME NEW u, Agrees(u), Locked(u)' => Locked(u),
           UNCHANGED <<vm_of[u], heap_of[u], hcall[u]>>,
           vm'[vm_of[u]] = vm[vm_of[u]], heap'[heap_of[u]] = heap[heap_of[u]]
    PROVE  Agrees(u)'
  BY DEF Agrees, Fits, Concluded, Stands

\* The enter of a brk(2).
LEMMA BrkEnterKeeps ==
    ASSUME HeapInv, NEW t \in HTask, NEW addr \in Asked \cup {<<"kernel", 1>>},
           translate_brk_enter(t, addr), UNCHANGED heap_guest
    PROVE  HeapInv'
  <1> DEFINE h == heap[heap_of[t]]
             num == CASE h.disabled -> "brk"
                      [] ~h.disabled /\ ~h.base /\ addr[1] # "zero" -> "brk"
                      [] ~h.disabled /\ ~h.base /\ addr[1] = "zero" -> "mmap"
                      [] ~h.disabled /\ h.base /\ addr[1] # "heap" -> "void"
                      [] OTHER -> "mremap"
             c == [step |-> "kernel", num |-> num, addr |-> addr,
                   old |-> IF num = "mremap" THEN h.size + 1 ELSE 0,
                   new |-> IF num = "mremap" THEN addr[2] + 1 ELSE IF num = "mmap" THEN 1 ELSE 0,
                   result |-> "none"]
  <1>1. /\ t \in HTasks /\ hcall[t] = NoBrk /\ (May("races") \/ Locked(t))
        /\ hcall' = [hcall EXCEPT ![t] = c] /\ UNCHANGED <<heap_of, heap, vm_of, vm>>
    BY DEF translate_brk_enter
  <1>2. h \in HeapType
    BY <1>1, HasObjects DEF HeapInv
  <1>3. /\ num \in {"brk", "mmap", "void", "mremap"}
        /\ num = "mremap" => h.base /\ ~h.disabled /\ addr[1] = "heap"
        /\ num = "mmap" => ~h.base /\ ~h.disabled
        /\ num = "brk" => ~h.base \/ h.disabled
    BY <1>2 DEF HeapType
  <1>4. addr[1] = "heap" => addr[2] \in Nat
    BY HeapAssumption DEF Asked
  <1> HIDE DEF num
  <1>5. c \in BrkType /\ c.step = "kernel" /\ c # NoBrk /\ (c.num = "mremap" => c.new # 0)
    BY SMTT(30), <1>2, <1>3, <1>4 DEF BrkType, HeapType, NoBrk
  <1>6. Fits(c, h)
    BY SMTT(30), <1>2, <1>3, <1>4 DEF Fits, HeapType
  <1> HIDE DEF c
  <1>7. hcall'[t] = c /\ \A u \in HTask \ {t} : hcall'[u] = hcall[u]
    BY <1>1 DEF HeapInv, HeapTypes
  <1>8. HTasks' = HTasks /\ HeapTypes'
    BY <1>1, <1>5, <1>7 DEF HeapInv, HeapTypes, HTasks
  <1>9. ASSUME ~HeapExposed
        PROVE  Paired' /\ BrkAlone' /\ \A u \in HTasks' : Agrees(u)'
    <2>1. Locked(t) /\ Paired /\ BrkAlone /\ \A u \in HTasks : Agrees(u)
      BY <1>1, <1>9 DEF HeapInv, HeapExposed
    <2>2. Paired'
      BY <1>1, <1>8, <2>1 DEF Paired, May
    <2>3. BrkAlone'
      BY SMTT(30), <1>1, <1>7, <1>8, <2>1 DEF BrkAlone, Locked, HTasks
    <2>4. Agrees(t)'
      <3>1. ~Locked(t)'
        BY <1>1, <1>5, <1>7, <1>8 DEF Locked
      <3> QED
        BY <1>1, <1>5, <1>6, <1>7, <2>1, <3>1 DEF Agrees, Stands, Fits, Concluded
    <2>5. ASSUME NEW u \in HTasks, u # t PROVE Agrees(u)'
      <3>1. u \in HTask /\ hcall'[u] = hcall[u]
        BY <1>7, <2>5 DEF HTasks
      <3>2. Locked(u)' => Locked(u)
        BY <1>1, <1>7, <1>8 DEF Locked, HTasks
      <3> QED
        BY <1>1, <2>1, <3>1, <3>2, StaysAgreed
    <2> QED
      BY <1>8, <2>2, <2>3, <2>4, <2>5
  <1> QED
    BY <1>1, <1>8, <1>9 DEF HeapInv, HeapExposed, May

\* What mremap(2) leaves mapped, when it is granted.
LEMMA RemappedPages ==
    ASSUME NEW old \in Nat, NEW new \in Nat, old # 0, new # 0,
           new <= old \/ Remapped(0 .. old - 1, old, new) # 0 .. old - 1
    PROVE  Remapped(0 .. old - 1, old, new) = 0 .. new - 1
  <1>1. CASE new <= old
    BY <1>1 DEF Remapped
  <1>2. CASE new > old
    <2>1. ~(new <= old)
      BY <1>2
    <2>2. Remapped(0 .. old - 1, old, new) = (0 .. old - 1) \cup (old .. new - 1)
      BY <2>1 DEF Remapped
    <2>3. (0 .. old - 1) \cup (old .. new - 1) = 0 .. new - 1
      BY <1>2
    <2> QED
      BY ZenonT(30), <2>2, <2>3
  <1> QED
    BY <1>1, <1>2

\* The kernel carries the call out: what is mapped then is what the Heap will stand for.
LEMMA GrantedPages ==
    ASSUME NEW c \in BrkType, NEW h \in HeapType, NEW space \in VmType, Fits(c, h),
           space.pages = Stands(h), Grantable(c, space),
           NEW d, d.num = c.num, d.new = c.new, d.result = "ok"
    PROVE  Granted(c, space) \in VmType /\ Granted(c, space).pages = Stands(Concluded(h, d))
  <1>1. CASE c.num = "mmap"
    <2>1. Granted(c, space) = [space EXCEPT !.pages = {0}]
      BY <1>1 DEF Granted
    <2>2. Concluded(h, d) = [h EXCEPT !.base = TRUE, !.size = 0] /\ ~h.disabled
      BY <1>1 DEF Concluded, Fits
    <2>3. Stands(Concluded(h, d)) = 0 .. 0
      BY <2>2 DEF Stands, HeapType
    <2> QED
      BY SMTT(30), <2>1, <2>3 DEF VmType
  <1>2. CASE c.num = "mremap"
    <2>1. h.base /\ ~h.disabled /\ c.old = h.size + 1 /\ c.new # 0 /\ c.old \in Nat /\ c.new \in Nat
      BY <1>2 DEF Fits, BrkType
    <2>2. space.pages = 0 .. c.old - 1 /\ c.old # 0
      BY SMTT(30), <2>1 DEF Stands, HeapType
    <2>3. Granted(c, space) = [space EXCEPT !.pages = Remapped(space.pages, c.old, c.new)]
      BY <1>2 DEF Granted
    <2>4. c.new <= c.old \/ Remapped(space.pages, c.old, c.new) # space.pages
      BY <1>2, <2>3 DEF Grantable, VmType
    <2>5. Remapped(space.pages, c.old, c.new) = 0 .. c.new - 1
      BY <2>1, <2>2, <2>4, RemappedPages
    <2>6. Concluded(h, d) = [h EXCEPT !.size = c.new - 1]
      BY <1>2, <2>1 DEF Concluded
    <2>7. Stands(Concluded(h, d)) = 0 .. c.new - 1
      BY <2>1, <2>6 DEF Stands, HeapType
    <2> QED
      BY SMTT(30), <2>1, <2>3, <2>5, <2>7 DEF VmType
  <1>3. CASE c.num = "brk"
    <2>1. Granted(c, space).pages = space.pages /\ Granted(c, space) \in VmType
      BY SMTT(30), <1>3 DEF Granted, Grantable, VmType, BrkType, Asked
    <2>2. Stands(h) = {} /\ Stands(Concluded(h, d)) = {}
      BY <1>3 DEF Fits, Stands, Concluded, HeapType
    <2> QED
      BY <2>1, <2>2
  <1>4. CASE c.num = "void"
    BY <1>4 DEF Granted, Concluded
  <1> QED
    BY <1>1, <1>2, <1>3, <1>4 DEF BrkType


\* brk(2), mmap(2) or mremap(2) in the kernel.
LEMMA KernelBrkKeeps ==
    ASSUME HeapInv, NEW t \in HTask, NEW grants \in BOOLEAN, KernelBrk(t, grants), UNCHANGED heap_guest
    PROVE  HeapInv'
  <1> DEFINE c == hcall[t]
             h == heap[heap_of[t]]
             space == vm[vm_of[t]]
             d == [c EXCEPT !.step = "exit", !.result = IF grants THEN "ok" ELSE "failed"]
  <1>1. /\ c.step = "kernel" /\ hcall' = [hcall EXCEPT ![t] = d] /\ UNCHANGED <<heap_of, heap, vm_of>>
        /\ vm' = IF grants THEN [vm EXCEPT ![vm_of[t]] = Granted(c, space)] ELSE vm
        /\ grants => Grantable(c, space)
    BY DEF KernelBrk
  <1>2. c # NoBrk /\ c \in BrkType /\ t \in HTasks
    BY SMTT(30), <1>1 DEF HeapInv, HeapTypes, NoBrk
  <1>3. h \in HeapType /\ space \in VmType /\ vm_of[t] \in HTask
    BY <1>2, HasObjects DEF HeapInv
  <1>4. /\ d \in BrkType /\ d # NoBrk /\ d.step = "exit" /\ d.num = c.num /\ d.new = c.new /\ d.old = c.old
        /\ d.result = IF grants THEN "ok" ELSE "failed"
    BY ZenonT(30), <1>2 DEF BrkType, NoBrk
  <1> HIDE DEF d
  <1>5. hcall'[t] = d /\ \A u \in HTask \ {t} : hcall'[u] = hcall[u]
    BY <1>1 DEF HeapInv, HeapTypes
  <1>6. Granted(c, space) \in VmType
    <2>1. CASE c.num = "mmap"
      BY SMTT(30), <1>3, <2>1 DEF Granted, VmType
    <2>2. CASE c.num = "mremap"
      <3>1. Remapped(space.pages, c.old, c.new) \in SUBSET Nat
        BY SMTT(30), <1>2, <1>3 DEF Remapped, BrkType, VmType
      <3> QED
        BY <1>3, <2>2, <3>1 DEF Granted, VmType
    <2>3. CASE c.num = "brk"
      <3>1. c.addr[1] = "kernel" => c.addr[2] \in Nat
        BY SMTT(30), <1>2 DEF BrkType, Asked
      <3> QED
        BY <1>3, <2>3, <3>1 DEF Granted, VmType
    <2>4. CASE c.num = "void"
      BY <1>3, <2>4 DEF Granted
    <2> QED
      BY <1>2, <2>1, <2>2, <2>3, <2>4 DEF BrkType
  <1>7. /\ vm' \in [HTask -> VmType]
        /\ vm'[vm_of[t]] = IF grants THEN Granted(c, space) ELSE space
        /\ \A v \in HTask \ {vm_of[t]} : vm'[v] = vm[v]
    BY <1>1, <1>3, <1>6 DEF HeapInv, HeapTypes
  <1>8. HTasks' = HTasks /\ HeapTypes'
    BY <1>1, <1>2, <1>4, <1>5, <1>7 DEF HeapInv, HeapTypes, HTasks
  <1>9. ASSUME ~HeapExposed
        PROVE  Paired' /\ BrkAlone' /\ \A u \in HTasks' : Agrees(u)'
    <2>1. Paired /\ BrkAlone /\ \A u \in HTasks : Agrees(u)
      BY <1>9 DEF HeapInv
    <2>2. Paired'
      BY <1>1, <1>8, <2>1 DEF Paired, May
    <2>3. BrkAlone'
      BY <1>1, <1>2, <1>5, <1>8, <2>1 DEF BrkAlone, HTasks
    <2>4. Fits(c, h) /\ space.pages = Stands(h)
      BY <1>1, <1>2, <2>1 DEF Agrees
    <2>5. Agrees(t)'
      <3>1. ~Locked(t)'
        BY <1>1, <1>2, <1>4, <1>5, <1>8 DEF Locked
      <3>2. Fits(d, h)
        BY <1>4, <2>4 DEF Fits
      <3>3. vm'[vm_of[t]].pages = Stands(Concluded(h, d))
        <4>1. CASE grants
          BY SMTT(30), <1>1, <1>2, <1>3, <1>4, <1>7, <2>4, <4>1, GrantedPages
        <4>2. CASE ~grants
          BY <1>4, <1>7, <2>4, <4>2 DEF Concluded
        <4> QED
          BY <4>1, <4>2
      <3> QED
        BY <1>1, <1>4, <1>5, <3>1, <3>2, <3>3 DEF Agrees
    <2>6. ASSUME NEW u \in HTasks, u # t PROVE Agrees(u)'
      <3>1. u \in HTask /\ hcall'[u] = hcall[u]
        BY <1>5, <2>6 DEF HTasks
      <3>2. CASE vm_of[u] = vm_of[t]
        <4>1. hcall[u] = NoBrk /\ ~Locked(u)'
          BY <1>1, <1>2, <1>4, <1>5, <1>8, <2>1, <2>6, <3>2 DEF BrkAlone, Locked
        <4> QED
          BY <3>1, <4>1 DEF Agrees
      <3>3. CASE vm_of[u] # vm_of[t]
        <4>1. vm_of[u] \in HTask /\ vm'[vm_of[u]] = vm[vm_of[u]]
          BY <1>7, <2>6, <3>3, HasObjects DEF HeapInv
        <4>2. Locked(u)' => Locked(u)
          BY <1>1, <1>2, <1>5, <1>8, <3>3 DEF Locked, HTasks
        <4> QED
          BY <1>1, <2>1, <2>6, <3>1, <4>1, <4>2, StaysAgreed
      <3> QED
        BY <3>2, <3>3
    <2> QED
      BY <1>8, <2>2, <2>3, <2>5, <2>6
  <1> QED
    BY <1>1, <1>8, <1>9 DEF HeapInv, HeapExposed, May

\* translate_brk_exit().
LEMMA BrkExitKeeps ==
    ASSUME HeapInv, NEW t \in HTask, translate_brk_exit(t), UNCHANGED heap_guest
    PROVE  HeapInv'
  <1> DEFINE c == hcall[t]
             h == heap[heap_of[t]]
             k == Concluded(h, c)
  <1>1. c.step = "exit" /\ hcall' = [hcall EXCEPT ![t] = NoBrk] /\ UNCHANGED <<heap_of, vm_of, vm>>
    BY DEF translate_brk_exit
  <1>2. c # NoBrk /\ c \in BrkType /\ t \in HTasks
    BY SMTT(30), <1>1 DEF HeapInv, HeapTypes, NoBrk
  <1>3. h \in HeapType /\ heap_of[t] \in HTask
    BY <1>2, HasObjects DEF HeapInv
  <1>4. heap' = [heap EXCEPT ![heap_of[t]] = k]
    <2>1. CASE h.disabled \/ c.result # "ok"
      <3>1. k = h /\ heap' = heap
        BY <2>1 DEF Concluded, translate_brk_exit
      <3> QED
        BY <1>3, <3>1 DEF HeapInv, HeapTypes
    <2>2. CASE ~h.disabled /\ c.result = "ok" /\ c.num = "mmap"
      BY ZenonT(30), <1>3, <2>2 DEF translate_brk_exit, Concluded, HeapInv, HeapTypes
    <2>3. CASE ~h.disabled /\ c.result = "ok" /\ c.num = "mremap"
      BY <1>3, <2>3 DEF translate_brk_exit, Concluded, HeapInv, HeapTypes
    <2>4. CASE ~h.disabled /\ c.result = "ok" /\ c.num = "brk"
      BY <1>3, <2>4 DEF translate_brk_exit, Concluded, HeapInv, HeapTypes
    <2>5. CASE ~h.disabled /\ c.result = "ok" /\ c.num = "void"
      <3>1. k = h /\ heap' = heap
        BY <2>5 DEF Concluded, translate_brk_exit
      <3> QED
        BY <1>3, <3>1 DEF HeapInv, HeapTypes
    <2> QED
      BY <1>2, <2>1, <2>2, <2>3, <2>4, <2>5 DEF BrkType
  <1>5. k \in HeapType
    <2>1. c.num = "mremap" => c.new - 1 \in Nat
      BY SMTT(30), <1>2 DEF BrkType, HeapInv, HeapTypes
    <2> QED
      BY ZenonT(30), <1>2, <1>3, <2>1 DEF Concluded, HeapType, BrkType
  <1> HIDE DEF k
  <1>6. hcall'[t] = NoBrk /\ \A u \in HTask \ {t} : hcall'[u] = hcall[u]
    BY <1>1 DEF HeapInv, HeapTypes
  <1>7. /\ heap' \in [HTask -> HeapType] /\ heap'[heap_of[t]] = k
        /\ \A v \in HTask \ {heap_of[t]} : heap'[v] = heap[v]
    BY <1>3, <1>4, <1>5 DEF HeapInv, HeapTypes
  <1>8. HTasks' = HTasks /\ HeapTypes'
    BY ZenonT(30), <1>1, <1>6, <1>7 DEF HeapInv, HeapTypes, HTasks
  <1>9. ASSUME ~HeapExposed
        PROVE  Paired' /\ BrkAlone' /\ \A u \in HTasks' : Agrees(u)'
    <2>1. Paired /\ BrkAlone /\ \A u \in HTasks : Agrees(u)
      BY <1>9 DEF HeapInv
    <2>2. Paired'
      BY <1>1, <1>8, <2>1 DEF Paired, May
    <2>3. BrkAlone'
      BY <1>1, <1>2, <1>6, <1>8, <2>1 DEF BrkAlone, HTasks
    <2>4. vm[vm_of[t]].pages = Stands(k)
      BY <1>1, <1>2, <2>1 DEF Agrees, k
    <2>5. ASSUME NEW u \in HTasks PROVE Agrees(u)'
      <3>1. CASE vm_of[u] = vm_of[t]
        <4>1. heap_of[u] = heap_of[t] /\ hcall'[u] = NoBrk
          BY <1>2, <1>6, <2>1, <2>5, <3>1 DEF Paired, BrkAlone, HTasks
        <4> QED
          BY <1>1, <1>7, <2>4, <3>1, <4>1 DEF Agrees, Stands
      <3>2. CASE vm_of[u] # vm_of[t]
        <4>1. heap_of[u] # heap_of[t] /\ heap_of[u] \in HTask /\ u \in HTask \ {t}
          BY <1>2, <2>1, <2>5, <3>2, HasObjects DEF Paired, HeapInv
        <4>2. Locked(u)' => Locked(u)
          BY <1>1, <1>2, <1>6, <1>8, <3>2 DEF Locked, HTasks
        <4> QED
          BY <1>1, <1>6, <1>7, <2>1, <2>5, <4>1, <4>2, StaysAgreed
      <3> QED
        BY <3>1, <3>2
    <2> QED
      BY <1>8, <2>2, <2>3, <2>5
  <1> QED
    BY <1>1, <1>8, <1>9 DEF HeapInv, HeapExposed, May

\* A new task shares the address space and the Heap of its parent, or has copies of both.
LEMMA CloneVmKeeps ==
    ASSUME HeapInv, NEW t \in HTask, NEW u \in HTask, NEW shares \in BOOLEAN, CloneVm(t, u, shares),
           UNCHANGED heap_guest
    PROVE  HeapInv'
  <1> DEFINE v == IF shares THEN vm_of[t] ELSE u
             k == IF shares THEN heap_of[t] ELSE u
  <1>1. /\ t \in HTasks /\ u \notin HTasks /\ u \notin Named /\ UNCHANGED hcall
        /\ May(IF shares THEN "threads" ELSE "forks") /\ (May("races") \/ Locked(t))
        /\ vm_of' = [vm_of EXCEPT ![u] = v]
        /\ heap_of' = [heap_of EXCEPT ![u] = k]
        /\ vm' = IF shares THEN vm ELSE [vm EXCEPT ![u] = vm[vm_of[t]]]
        /\ heap' = IF shares THEN heap ELSE [heap EXCEPT ![u] = heap[heap_of[t]]]
    BY DEF CloneVm, new_child_heap
  <1>2. /\ t # u /\ vm_of[t] \in HTask /\ heap_of[t] \in HTask
        /\ heap[heap_of[t]] \in HeapType /\ vm[vm_of[t]] \in VmType
    BY <1>1, HasObjects DEF HeapInv
  <1>3. v \in HTask /\ k \in HTask /\ v # Absent /\ k # Absent
    BY <1>2, HeapAssumption DEF Absent
  <1>4. \A x \in HTask : vm_of[x] # u /\ heap_of[x] # u
    BY <1>1 DEF Named
  <1>5. /\ vm_of'[u] = v /\ \A x \in HTask \ {u} : vm_of'[x] = vm_of[x]
        /\ heap_of'[u] = k /\ \A x \in HTask \ {u} : heap_of'[x] = heap_of[x]
        /\ vm_of' \in [HTask -> HTask \cup {Absent}] /\ heap_of' \in [HTask -> HTask \cup {Absent}]
    BY <1>1, <1>3 DEF HeapInv, HeapTypes
  <1>6. /\ vm' \in [HTask -> VmType] /\ heap' \in [HTask -> HeapType]
        /\ vm'[v] = vm[vm_of[t]] /\ \A x \in HTask \ {u} : vm'[x] = vm[x]
        /\ heap'[k] = heap[heap_of[t]] /\ \A x \in HTask \ {u} : heap'[x] = heap[x]
    BY <1>1, <1>2 DEF HeapInv, HeapTypes
  <1>7. HTasks' = HTasks \cup {u} /\ HTasks \subseteq HTask \ {u}
    BY SMTT(30), <1>1, <1>3, <1>5 DEF HTasks
  <1>8. HeapTypes'
    BY SMTT(30), <1>1, <1>3, <1>5, <1>6, <1>7 DEF HeapInv, HeapTypes
  <1>9. hcall[u] = NoBrk
    BY <1>1 DEF HeapInv, HeapTypes
  <1>10. ASSUME ~HeapExposed
         PROVE  Paired' /\ BrkAlone' /\ \A x \in HTasks' : Agrees(x)'
    <2>1. Locked(t) /\ Paired /\ BrkAlone /\ \A x \in HTasks : Agrees(x)
      BY <1>1, <1>10 DEF HeapInv, HeapExposed
    <2>2. Paired'
      <3>1. CASE shares
        BY SMTT(30), <1>1, <1>2, <1>5, <1>7, <2>1, <3>1 DEF Paired, May
      <3>2. CASE ~shares
        BY SMTT(30), <1>1, <1>2, <1>4, <1>5, <1>7, <2>1, <3>2 DEF Paired, May
      <3> QED
        BY <3>1, <3>2
    <2>3. BrkAlone'
      BY SMTT(30), <1>1, <1>5, <1>7, <1>9, <2>1 DEF BrkAlone
    <2>4. ASSUME NEW x \in HTasks PROVE Agrees(x)'
      <3>1. /\ vm_of'[x] = vm_of[x] /\ heap_of'[x] = heap_of[x]
            /\ vm'[vm_of[x]] = vm[vm_of[x]] /\ heap'[heap_of[x]] = heap[heap_of[x]]
        BY <1>4, <1>5, <1>6, <1>7, <2>4, HasObjects DEF HeapInv
      <3>2. Locked(x)' => Locked(x)
        BY <1>1, <1>5, <1>7, <2>4 DEF Locked
      <3> QED
        BY <1>1, <2>1, <2>4, <3>1, <3>2, StaysAgreed
    <2>5. Agrees(u)'
      <3>1. vm[vm_of[t]].pages = Stands(heap[heap_of[t]])
        BY <1>1, <2>1 DEF Agrees
      <3> QED
        BY <1>1, <1>5, <1>6, <1>9, <3>1 DEF Agrees, Stands
    <2> QED
      BY <1>7, <2>2, <2>3, <2>4, <2>5
  <1> QED
    BY <1>8, <1>10 DEF HeapInv, HeapExposed, May

\* translate_execve_exit(): a new address space, and a Heap without pages.
LEMMA ExecHeapKeeps ==
    ASSUME HeapInv, NEW t \in HTask, ExecHeap(t), UNCHANGED heap_guest
    PROVE  HeapInv'
  <1>1. t \in HTasks /\ hcall[t] = NoBrk /\ Locked(t) /\ UNCHANGED hcall
    BY DEF ExecHeap
  <1>2. PICK v \in HTask :
           /\ IF \E u \in HTasks \ {t} : vm_of[u] = vm_of[t] THEN v \notin Named ELSE v = vm_of[t]
           /\ vm_of' = [vm_of EXCEPT ![t] = v]
           /\ vm' = [vm EXCEPT ![v] = NewVm]
           /\ IF \E u \in HTasks \ {t} : heap_of[u] = heap_of[t]
              THEN heap_of' = [heap_of EXCEPT ![t] = v] /\ heap' = [heap EXCEPT ![v] = NewHeap]
              ELSE heap' = [heap EXCEPT ![heap_of[t]] = NewHeap] /\ UNCHANGED heap_of
    BY ZenonT(30) DEF ExecHeap
  <1>3. PICK k \in HTask :
           /\ k = IF \E u \in HTasks \ {t} : heap_of[u] = heap_of[t] THEN v ELSE heap_of[t]
           /\ heap_of' = [heap_of EXCEPT ![t] = k] /\ heap' = [heap EXCEPT ![k] = NewHeap]
    <2>1. heap_of[t] \in HTask /\ heap_of = [heap_of EXCEPT ![t] = heap_of[t]]
      BY <1>1, HasObjects DEF HeapInv, HeapTypes
    <2> QED
      BY <1>2, <2>1
  <1>4. NewHeap \in HeapType /\ NewVm \in VmType /\ NewVm.pages = Stands(NewHeap)
    BY DEF NewHeap, HeapType, NewVm, VmType, Stands
  <1>5. v # Absent /\ k # Absent
    BY HeapAssumption DEF Absent
  <1>6. /\ vm_of'[t] = v /\ \A x \in HTask \ {t} : vm_of'[x] = vm_of[x]
        /\ heap_of'[t] = k /\ \A x \in HTask \ {t} : heap_of'[x] = heap_of[x]
        /\ vm_of' \in [HTask -> HTask \cup {Absent}] /\ heap_of' \in [HTask -> HTask \cup {Absent}]
    BY <1>2, <1>3 DEF HeapInv, HeapTypes
  <1>7. /\ vm' \in [HTask -> VmType] /\ heap' \in [HTask -> HeapType]
        /\ vm'[v] = NewVm /\ \A x \in HTask \ {v} : vm'[x] = vm[x]
        /\ heap'[k] = NewHeap /\ \A x \in HTask \ {k} : heap'[x] = heap[x]
    BY <1>2, <1>3, <1>4 DEF HeapInv, HeapTypes
  <1>8. HTasks' = HTasks
    BY <1>1, <1>5, <1>6 DEF HTasks
  <1>9. HeapTypes'
    BY <1>1, <1>5, <1>6, <1>7, <1>8 DEF HeapInv, HeapTypes
  <1>10. ASSUME ~HeapExposed
         PROVE  Paired' /\ BrkAlone' /\ \A x \in HTasks' : Agrees(x)'
    <2>1. Paired /\ BrkAlone /\ \A x \in HTasks : Agrees(x)
      BY <1>10 DEF HeapInv
    <2>2. \A x \in HTasks \ {t} : vm_of[x] # v /\ heap_of[x] # k
      <3>1. IF \E u \in HTasks \ {t} : vm_of[u] = vm_of[t] THEN v \notin Named ELSE v = vm_of[t]
        BY <1>2
      <3>2. k = IF \E u \in HTasks \ {t} : heap_of[u] = heap_of[t] THEN v ELSE heap_of[t]
        BY <1>3
      <3>3. \A x \in HTasks : vm_of[x] \in Named /\ heap_of[x] \in Named
        BY DEF Named, HTasks
      <3>4. \A x \in HTasks : vm_of[x] = vm_of[t] <=> heap_of[x] = heap_of[t]
        BY <1>1, <2>1 DEF Paired
      <3> QED
        BY <3>1, <3>2, <3>3, <3>4
    <2>3. Paired'
      BY SMTT(30), <1>1, <1>6, <1>8, <2>1, <2>2 DEF Paired, May, HTasks
    <2>4. BrkAlone'
      BY <1>1, <1>6, <1>8, <2>1 DEF BrkAlone, HTasks
    <2>5. ASSUME NEW x \in HTasks, x # t PROVE Agrees(x)'
      <3>1. /\ vm_of'[x] = vm_of[x] /\ heap_of'[x] = heap_of[x]
            /\ vm'[vm_of[x]] = vm[vm_of[x]] /\ heap'[heap_of[x]] = heap[heap_of[x]]
        BY <1>6, <1>7, <2>2, <2>5, HasObjects DEF HeapInv
      <3>2. Locked(x)' => Locked(x)
        BY <1>1, <1>6, <1>8, <2>5 DEF Locked, HTasks
      <3> QED
        BY <1>1, <2>1, <2>5, <3>1, <3>2, StaysAgreed
    <2>6. Agrees(t)'
      BY <1>1, <1>4, <1>6, <1>7 DEF Agrees
    <2> QED
      BY <1>8, <2>3, <2>4, <2>5, <2>6
  <1> QED
    BY <1>9, <1>10 DEF HeapInv, HeapExposed, May

\* A program for the QEMU runner: no emulation, and nothing mapped.
LEMMA ExecRunnerKeeps ==
    ASSUME HeapInv, NEW t \in HTask, NEW granted \in BOOLEAN, ExecRunner(t, granted), UNCHANGED heap_guest
    PROVE  HeapInv'
  <1> DEFINE h == heap[heap_of[t]]
             d == [h EXCEPT !.disabled = TRUE]
  <1>1. /\ May("runner") /\ (granted \/ May("refused"))
        /\ t \in HTasks /\ hcall[t] = NoBrk /\ Locked(t) /\ UNCHANGED <<heap_of, hcall>>
    BY DEF ExecRunner
  <1>2. heap_of[t] \in HTask /\ vm_of[t] \in HTask /\ h \in HeapType
    BY <1>1, HasObjects DEF HeapInv
  <1>3. heap' = [heap EXCEPT ![heap_of[t]] = d]
    BY DEF ExecRunner
  <1>4. d \in HeapType /\ Stands(d) = {}
    BY ZenonT(30), <1>2 DEF HeapType, Stands
  <1> HIDE DEF d
  <1>5. /\ heap' \in [HTask -> HeapType] /\ heap'[heap_of[t]] = d
        /\ \A x \in HTask \ {heap_of[t]} : heap'[x] = heap[x]
    BY <1>2, <1>3, <1>4 DEF HeapInv, HeapTypes
  <1>6. NewVm \in VmType /\ NewVm.pages = {}
    BY DEF NewVm, VmType
  <1>7. CASE ~granted
    <2>1. UNCHANGED <<vm_of, vm>> /\ HTasks' = HTasks
      BY <1>7 DEF ExecRunner, HTasks
    <2>2. HeapTypes'
      BY <1>1, <1>5, <2>1 DEF HeapInv, HeapTypes
    <2>3. HeapExposed'
      BY <1>1, <1>7 DEF HeapExposed, May
    <2> QED
      BY <2>2, <2>3 DEF HeapInv
  <1>8. CASE granted
    <2>1. PICK v \in HTask :
             /\ IF \E u \in HTasks \ {t} : vm_of[u] = vm_of[t] THEN v \notin Named ELSE v = vm_of[t]
             /\ vm_of' = [vm_of EXCEPT ![t] = v]
             /\ vm' = [vm EXCEPT ![v] = NewVm]
      BY <1>8 DEF ExecRunner
    <2>2. /\ vm_of'[t] = v /\ \A x \in HTask \ {t} : vm_of'[x] = vm_of[x]
          /\ vm_of' \in [HTask -> HTask \cup {Absent}]
          /\ vm' \in [HTask -> VmType] /\ vm'[v] = NewVm /\ \A x \in HTask \ {v} : vm'[x] = vm[x]
      BY <1>6, <2>1 DEF HeapInv, HeapTypes
    <2>3. v # Absent /\ HTasks' = HTasks
      BY <1>1, <2>2, HeapAssumption DEF HTasks, Absent
    <2>4. HeapTypes'
      BY <1>1, <1>2, <1>5, <2>2, <2>3, HeapAssumption DEF HeapInv, HeapTypes, Absent
    <2>5. ASSUME ~HeapExposed
          PROVE  Paired' /\ BrkAlone' /\ \A x \in HTasks' : Agrees(x)'
      <3>1. Paired /\ BrkAlone /\ (\A x \in HTasks : Agrees(x)) /\ ~May("threads")
        BY <1>1, <2>5 DEF HeapInv, HeapExposed
      <3>2. \A x \in HTasks \ {t} : vm_of[x] # vm_of[t] /\ heap_of[x] # heap_of[t]
        BY <1>1, <3>1 DEF Paired
      <3>3. vm_of' = vm_of
        BY <2>1, <3>2 DEF HeapInv, HeapTypes
      <3>4. Paired'
        BY <1>1, <2>3, <3>1, <3>3 DEF Paired, May
      <3>5. BrkAlone'
        BY <1>1, <2>3, <3>1, <3>3 DEF BrkAlone
      <3>6. ASSUME NEW x \in HTasks, x # t PROVE Agrees(x)'
        <4>1. vm'[vm_of[x]] = vm[vm_of[x]] /\ heap'[heap_of[x]] = heap[heap_of[x]]
          BY <1>5, <2>2, <3>2, <3>3, <3>6, HasObjects DEF HeapInv
        <4>2. Locked(x)' => Locked(x)
          BY <1>1, <2>3, <3>3 DEF Locked
        <4> QED
          BY <1>1, <3>1, <3>3, <3>6, <4>1, <4>2, StaysAgreed
      <3>7. Agrees(t)'
        BY <1>1, <1>4, <1>5, <1>6, <2>2, <3>3 DEF Agrees
      <3> QED
        BY <2>3, <3>4, <3>5, <3>6, <3>7
    <2> QED
      BY <2>4, <2>5 DEF HeapInv, HeapExposed, May
  <1> QED
    BY <1>7, <1>8

LEMMA EndOfTaskKeeps ==
    ASSUME HeapInv, NEW t \in HTask, EndOfTask(t), UNCHANGED heap_guest
    PROVE  HeapInv'
  <1>1. /\ t \in HTasks /\ hcall[t] = NoBrk /\ UNCHANGED <<heap, vm, hcall>>
        /\ vm_of' = [vm_of EXCEPT ![t] = Absent] /\ heap_of' = [heap_of EXCEPT ![t] = Absent]
    BY DEF EndOfTask
  <1>2. /\ vm_of'[t] = Absent /\ \A x \in HTask \ {t} : vm_of'[x] = vm_of[x]
        /\ heap_of'[t] = Absent /\ \A x \in HTask \ {t} : heap_of'[x] = heap_of[x]
        /\ vm_of' \in [HTask -> HTask \cup {Absent}] /\ heap_of' \in [HTask -> HTask \cup {Absent}]
    BY <1>1 DEF HeapInv, HeapTypes
  <1>3. HTasks' = HTasks \ {t} /\ HTasks \subseteq HTask
    BY <1>2 DEF HTasks
  <1>4. HeapTypes'
    BY <1>1, <1>2, <1>3 DEF HeapInv, HeapTypes
  <1>5. ASSUME ~HeapExposed
        PROVE  Paired' /\ BrkAlone' /\ \A x \in HTasks' : Agrees(x)'
    <2>1. Paired /\ BrkAlone /\ \A x \in HTasks : Agrees(x)
      BY <1>5 DEF HeapInv
    <2>2. Paired'
      BY SMTT(30), <1>2, <1>3, <2>1 DEF Paired, May
    <2>3. BrkAlone'
      BY SMTT(30), <1>1, <1>2, <1>3, <2>1 DEF BrkAlone
    <2>4. ASSUME NEW x \in HTasks, x # t PROVE Agrees(x)'
      <3>1. Locked(x)' => Locked(x)
        BY <1>1, <1>2, <1>3, <2>4 DEF Locked
      <3> QED
        BY <1>1, <1>2, <1>3, <2>1, <2>4, <3>1, StaysAgreed
    <2> QED
      BY <1>3, <2>2, <2>3, <2>4
  <1> QED
    BY <1>4, <1>5 DEF HeapInv, HeapExposed, May

\* Between two calls the heap PRoot believes in is what is mapped, for any number of tasks,
\* whatever they fork, execute and share and whatever the kernel refuses.
THEOREM HeapIsMapped == HeapSpec => []HeapMapped
  <1>1. HeapInv /\ [HeapNext]_heapVars => HeapInv'
    <2> SUFFICES ASSUME HeapInv, [HeapNext]_heapVars PROVE HeapInv'
      OBVIOUS
    <2>1. CASE UNCHANGED heapVars
      BY <2>1 DEF heapVars, HeapInv, HeapTypes, HeapExposed, May, Paired, BrkAlone, Agrees, Locked, HTasks
    <2>2. CASE HeapNext
      BY <2>2, BrkEnterKeeps, KernelBrkKeeps, BrkExitKeeps, ExecHeapKeeps, EndOfTaskKeeps, ExecRunnerKeeps,
         CloneVmKeeps DEF HeapNext, HeapStep
    <2> QED
      BY <2>1, <2>2
  <1>2. HeapInv => HeapMapped
    BY DEF HeapInv, HeapMapped, Agrees
  <1> QED
    BY <1>1, <1>2, InitHeap, PTL DEF HeapSpec

--------------------------------------------------------------------------------
(* The limit on processes.                                                 *)

RTaskStates == {"none", "live", "forks", "new", "dead", "kept", "ended"}

LimitTypes ==
    /\ rtask \in [RTask -> RTaskStates]
    /\ roptions \in Seq(LimitOptionType)
    /\ rconfig \in [cpu : Int, proc : Int]
    /\ rext.proc \in Int

\* The options are behind PRoot before there is a task, and the first task outlives the others.
Launched ==
    /\ roptions # <<>> => rtask[RFirst] = "none"
    /\ rtask[RFirst] \in {"none", "live", "forks", "ended"}
    /\ rtask[RFirst] \in {"none", "ended"} => \A t \in RTask \ {RFirst} : rtask[t] = "none"

\* The extension limits what the options say.
Configured == rconfig.proc > 0 => rext.there /\ rext.proc = rconfig.proc /\ "fork" \in rext.sysnums

\* Guests that do not race start one process at a time.
OneFork ==
    \A t, u \in RTask : rtask[t] \in {"forks", "new"} /\ rtask[u] \in {"forks", "new"} => t = u

\* A fork that is past the gate is counted too.
Counted ==
    Cardinality(Unreaped) + (IF \E t \in RTask : rtask[t] = "forks" THEN 1 ELSE 0) <= rconfig.proc

LimitInv ==
    /\ LimitTypes /\ Launched /\ Configured
    /\ ~rrefused
    /\ Wont("races") => OneFork
    /\ Wont("races") /\ rconfig.proc > 0 => Counted

\* The tasks can be counted, and what PRoot counts is among them.
LEMMA UnreapedFinite ==
    /\ IsFiniteSet(Unreaped) /\ Cardinality(Unreaped) \in Nat
    /\ IsFiniteSet(Listed \ Terminated) /\ Cardinality(Listed \ Terminated) \in Nat
    /\ Cardinality(Listed \ Terminated) <= Cardinality(Unreaped)
    /\ Quiet => Listed \ Terminated = Unreaped
  <1>1. Unreaped \in SUBSET RTask /\ Listed \ Terminated \in SUBSET Unreaped
    BY DEF Unreaped, Listed, Terminated
  <1>2. IsFiniteSet(Unreaped) /\ Cardinality(Unreaped) \in Nat
    BY <1>1, LimitAssumption, FS_Subset, FS_CardinalityType
  <1>3. IsFiniteSet(Listed \ Terminated) /\ Cardinality(Listed \ Terminated) \in Nat
        /\ Cardinality(Listed \ Terminated) <= Cardinality(Unreaped)
    BY <1>1, <1>2, FS_Subset, FS_CardinalityType
  <1>4. Quiet => Listed \ Terminated = Unreaped
    BY DEF Quiet, Unreaped, Listed, Terminated
  <1> QED
    BY <1>2, <1>3, <1>4

\* Nobody is refused too early: what PRoot counts is there.
LEMMA CountReached ==
    ASSUME NEW limit \in Int
    PROVE  /\ rlimit_count_live_tracees(limit) >= limit <=> Cardinality(Listed \ Terminated) >= limit
           /\ rlimit_count_live_tracees(limit) >= limit => ~(Cardinality(Unreaped) < limit)
           /\ Quiet /\ ~(rlimit_count_live_tracees(limit) >= limit) => Cardinality(Unreaped) + 1 <= limit
  BY UnreapedFinite DEF rlimit_count_live_tracees

\* A step that moves one task.
LEMMA OneMoves ==
    ASSUME LimitInv, NEW t \in RTask, NEW s \in RTaskStates, rtask' = [rtask EXCEPT ![t] = s]
    PROVE  /\ rtask' \in [RTask -> RTaskStates]
           /\ rtask'[t] = s /\ \A u \in RTask \ {t} : rtask'[u] = rtask[u]
           /\ s \in {"live", "forks", "new", "dead"} => Unreaped' = Unreaped \cup {t}
           /\ s \notin {"live", "forks", "new", "dead"} => Unreaped' = Unreaped \ {t}
  BY DEF LimitInv, LimitTypes, Unreaped

\* The invariant holds at first.
LEMMA InitLimit == LimitInit => LimitInv
  <1> SUFFICES ASSUME LimitInit PROVE LimitInv
    OBVIOUS
  <1>1. \A t \in RTask : rtask[t] = "none"
    BY DEF LimitInit
  <1>2. LimitTypes
    BY LimitAssumption DEF LimitInit, LimitTypes, RTaskStates, NoExtension
  <1>3. rconfig.proc = 0 /\ ~rrefused
    BY DEF LimitInit
  <1> QED
    BY <1>1, <1>2, <1>3, LimitAssumption DEF LimitInv, Launched, Configured, OneFork

\* The options.
LEMMA LimitOptionKeeps ==
    ASSUME LimitInv, LimitOption, UNCHANGED limit_guest PROVE LimitInv'
  <1> DEFINE o == Head(roptions)
             refused == o.n < 1 \/ (o.option = "--cpu-limit" /\ o.n > Cardinality(HostCpus))
             config == IF o.option = "--proc-limit" THEN [rconfig EXCEPT !.proc = o.n]
                       ELSE [rconfig EXCEPT !.cpu = o.n]
  <1>1. /\ roptions # <<>> /\ ~rrefused'
        /\ refused => roptions' = <<>> /\ rtask' = [rtask EXCEPT ![RFirst] = "ended"]
                      /\ UNCHANGED <<rconfig, rext>>
        /\ ~refused => roptions' = Tail(roptions) /\ rconfig' = config
                       /\ rext' = rlimit_configure(config, rext) /\ UNCHANGED rtask
    BY DEF LimitOption, LimitInv
  <1>2. o \in LimitOptionType /\ Tail(roptions) \in Seq(LimitOptionType) /\ o.n \in Int
    <2>1. roptions \in Seq(LimitOptionType) /\ roptions # <<>>
      BY <1>1 DEF LimitInv, LimitTypes
    <2>2. o \in LimitOptionType /\ Tail(roptions) \in Seq(LimitOptionType)
      BY <2>1
    <2> QED
      BY <2>2 DEF LimitOptionType
  <1>3. \A t \in RTask : rtask[t] = "none"
    BY <1>1, LimitAssumption DEF LimitInv, Launched
  <1>4. Unreaped' = {} /\ ~(\E t \in RTask : rtask'[t] \in {"forks", "new"})
    BY <1>1, <1>3 DEF Unreaped, LimitInv, LimitTypes
  <1> HIDE DEF o
  <1>5. CASE refused
    <2> HIDE DEF refused
    <2>1. LimitTypes' /\ Launched' /\ Configured'
      <3>1. /\ rtask' \in [RTask -> RTaskStates] /\ rtask'[RFirst] = "ended"
            /\ \A t \in RTask \ {RFirst} : rtask'[t] = "none"
        BY <1>1, <1>3, <1>5, LimitAssumption DEF LimitInv, LimitTypes, RTaskStates
      <3>2. LimitTypes' /\ Configured'
        BY SMTT(30), <1>1, <1>5, <3>1 DEF LimitInv, LimitTypes, Configured
      <3>3. Launched'
        BY <1>1, <1>5, <3>1 DEF Launched
      <3> QED
        BY <3>2, <3>3
    <2>2. rconfig' \in [cpu : Int, proc : Int]
      BY <2>1 DEF LimitTypes
    <2> QED
      BY SMTT(30), <1>1, <1>4, <2>1, <2>2, FS_EmptySet DEF LimitInv, OneFork, Counted
  <1>6. CASE ~refused
    <2>1. config \in [cpu : Int, proc : Int]
      BY <1>2 DEF LimitInv, LimitTypes
    <2> HIDE DEF config, refused
    <2>2. /\ rlimit_configure(config, rext).proc \in Int
          /\ config.proc > 0 => /\ rlimit_configure(config, rext).there
                                /\ rlimit_configure(config, rext).proc = config.proc
                                /\ "fork" \in rlimit_configure(config, rext).sysnums
      BY SMTT(30), <2>1 DEF rlimit_configure, rlimit_build_sysnums, LimitInv, LimitTypes
    <2>3. LimitTypes' /\ Configured'
      BY ZenonT(30), <1>1, <1>2, <1>6, <2>1, <2>2 DEF LimitInv, LimitTypes, Configured
    <2>4. Launched'
      BY <1>1, <1>3, <1>6, LimitAssumption DEF LimitInv, Launched
    <2> QED
      BY SMTT(30), <1>1, <1>4, <1>6, <2>1, <2>3, <2>4, FS_EmptySet DEF LimitInv, OneFork, Counted
  <1> QED
    BY <1>5, <1>6

\* launch_process(): the first task, which no limit forbids.
LEMMA LaunchesKeeps ==
    ASSUME LimitInv, Launches, UNCHANGED limit_guest PROVE LimitInv'
  <1>1. /\ roptions = <<>> /\ rtask[RFirst] = "none" /\ rtask' = [rtask EXCEPT ![RFirst] = "live"]
        /\ UNCHANGED <<roptions, rconfig, rext, rrefused>>
    BY DEF Launches
  <1>2. \A t \in RTask : rtask[t] = "none"
    BY <1>1, LimitAssumption DEF LimitInv, Launched
  <1>3. /\ rtask' \in [RTask -> RTaskStates] /\ rtask'[RFirst] = "live"
        /\ \A u \in RTask \ {RFirst} : rtask'[u] = "none"
    BY <1>1, <1>2, LimitAssumption DEF LimitInv, LimitTypes, RTaskStates
  <1>4. Unreaped' = {RFirst}
    BY <1>3, LimitAssumption DEF Unreaped
  <1>5. LimitTypes' /\ Launched' /\ Configured' /\ OneFork'
    BY <1>1, <1>3, LimitAssumption DEF LimitInv, LimitTypes, Launched, Configured, OneFork
  <1>6. rconfig.proc > 0 => Counted'
    <2>1. Cardinality(Unreaped') = 1 /\ rconfig.proc \in Int
      BY ZenonT(30), <1>4, FS_Singleton DEF LimitInv, LimitTypes
    <2>2. ~\E t \in RTask : rtask'[t] = "forks"
      BY <1>3
    <2> QED
      BY <1>1, <2>1, <2>2 DEF Counted
  <1> QED
    BY <1>1, <1>5, <1>6 DEF LimitInv

\* The gate of fork(2) and clone(2).
LEMMA ForkEnterKeeps ==
    ASSUME LimitInv, NEW t \in RTask, NEW kind \in {"clone", "fork"},
           rlimit_handle_fork_clone_enter(t, kind), UNCHANGED limit_guest
    PROVE  LimitInv'
  <1> DEFINE full == /\ rext.there /\ Stops(kind) /\ rext.proc > 0
                     /\ rlimit_count_live_tracees(rext.proc) >= rext.proc
  <1>1. /\ rtask[t] = "live" /\ (Wont("races") => Quiet) /\ UNCHANGED <<roptions, rconfig, rext>>
        /\ full => rrefused' = (Cardinality(Unreaped) < rext.proc) /\ UNCHANGED rtask
        /\ ~full => rtask' = [rtask EXCEPT ![t] = "forks"] /\ UNCHANGED rrefused
    BY DEF rlimit_handle_fork_clone_enter
  <1>2. rext.proc \in Int /\ rconfig.proc \in Int
    BY DEF LimitInv, LimitTypes
  <1>3. CASE full
    <2>1. ~rrefused'
      <3>1. ~(Cardinality(Unreaped) < rext.proc)
        BY <1>2, <1>3, CountReached
      <3>2. rrefused' = (Cardinality(Unreaped) < rext.proc)
        BY <1>1, <1>3
      <3> QED
        BY ONLY ZenonT(30), <3>1, <3>2
    <2> QED
      BY ZenonT(30), <1>1, <1>3, <2>1
         DEF LimitInv, LimitTypes, Launched, Configured, OneFork, Counted, Unreaped, Wont
  <1>4. CASE ~full
    <2>1. rtask' = [rtask EXCEPT ![t] = "forks"] /\ ~rrefused'
      BY <1>1, <1>4 DEF LimitInv
    <2>2. /\ rtask' \in [RTask -> RTaskStates]
          /\ rtask'[t] = "forks" /\ (\A u \in RTask \ {t} : rtask'[u] = rtask[u])
          /\ Unreaped' = Unreaped
      BY ZenonT(30), <1>1, <2>1, OneMoves DEF RTaskStates, Unreaped
    <2>3. LimitTypes' /\ Configured'
      BY <1>1, <2>2 DEF LimitInv, LimitTypes, Configured
    <2>4. Launched'
      BY <1>1, <2>2, LimitAssumption DEF LimitInv, Launched
    <2>5. Wont("races") => OneFork'
      BY <1>1, <2>2 DEF OneFork, Quiet
    <2>6. Wont("races") /\ rconfig.proc > 0 => Counted'
      <3> SUFFICES ASSUME Wont("races"), rconfig.proc > 0 PROVE Counted'
        OBVIOUS
      <3>1. Cardinality(Unreaped) + 1 <= rext.proc /\ rext.proc = rconfig.proc
        BY <1>1, <1>2, <1>4, CountReached DEF LimitInv, Configured, Stops
      <3> QED
        BY <1>1, <1>2, <2>2, <3>1, UnreapedFinite DEF Counted
    <2> QED
      BY <1>1, <2>1, <2>3, <2>4, <2>5, <2>6 DEF LimitInv, Wont
  <1> QED
    BY <1>3, <1>4

\* The kernel starts the process that has been counted.
LEMMA ForkInKernelKeeps ==
    ASSUME LimitInv, NEW t \in RTask, NEW u \in RTask, ForkInKernel(t, u), UNCHANGED limit_guest
    PROVE  LimitInv'
  <1>1. /\ rtask[t] = "forks" /\ rtask[u] = "none"
        /\ rtask' = [rtask EXCEPT ![t] = "live", ![u] = "new"]
        /\ UNCHANGED <<roptions, rconfig, rext, rrefused>>
    BY DEF ForkInKernel
  <1>2. /\ rtask' \in [RTask -> RTaskStates] /\ rtask'[t] = "live" /\ rtask'[u] = "new"
        /\ \A v \in RTask \ {t, u} : rtask'[v] = rtask[v]
    BY <1>1 DEF LimitInv, LimitTypes, RTaskStates
  <1>3. Unreaped' = Unreaped \cup {u} /\ u \notin Unreaped
    BY <1>1, <1>2 DEF Unreaped
  <1>4. u # RFirst
    BY <1>1 DEF LimitInv, Launched
  <1>5. LimitTypes' /\ Configured'
    BY <1>1, <1>2 DEF LimitInv, LimitTypes, Configured
  <1>6. Launched'
    BY <1>1, <1>2, <1>4, LimitAssumption DEF LimitInv, Launched
  <1>7. Wont("races") => OneFork' /\ ~\E v \in RTask : rtask'[v] = "forks"
    BY <1>1, <1>2 DEF LimitInv, OneFork
  <1>8. Wont("races") /\ rconfig.proc > 0 => Counted'
    <2> SUFFICES ASSUME Wont("races"), rconfig.proc > 0 PROVE Counted'
      OBVIOUS
    <2>1. Cardinality(Unreaped) + 1 <= rconfig.proc /\ rconfig.proc \in Int
      BY <1>1 DEF LimitInv, LimitTypes, Counted
    <2>2. Cardinality(Unreaped') = Cardinality(Unreaped) + 1
      BY ZenonT(30), <1>3, UnreapedFinite, FS_AddElement
    <2> QED
      BY <1>1, <1>7, <2>1, <2>2, UnreapedFinite DEF Counted
  <1> QED
    BY <1>1, <1>5, <1>6, <1>7, <1>8 DEF LimitInv, Wont

\* handle_exec_request().
LEMMA SuperviseKeeps ==
    ASSUME LimitInv, NEW u \in RTask, SuperviseSpawns(u), UNCHANGED limit_guest
    PROVE  LimitInv'
  <1>1. /\ rtask[RFirst] \notin {"none", "ended"} /\ (Wont("races") => Quiet) /\ rtask[u] = "none"
        /\ UNCHANGED <<roptions, rconfig, rext>>
        /\ rlimit_proc_limit_reached =>
              rrefused' = (Cardinality(Unreaped) < rconfig.proc) /\ UNCHANGED rtask
        /\ ~rlimit_proc_limit_reached => rtask' = [rtask EXCEPT ![u] = "live"] /\ UNCHANGED rrefused
    BY DEF SuperviseSpawns
  <1>2. rconfig.proc \in Int
    BY DEF LimitInv, LimitTypes
  <1>3. CASE rlimit_proc_limit_reached
    <2>1. ~rrefused'
      <3>1. ~(Cardinality(Unreaped) < rconfig.proc)
        BY <1>2, <1>3, CountReached DEF rlimit_proc_limit_reached
      <3>2. rrefused' = (Cardinality(Unreaped) < rconfig.proc)
        BY <1>1, <1>3
      <3> QED
        BY ONLY ZenonT(30), <3>1, <3>2
    <2> QED
      BY <1>1, <1>3, <2>1 DEF LimitInv, LimitTypes, Launched, Configured, OneFork, Counted, Unreaped, Wont
  <1>4. CASE ~rlimit_proc_limit_reached
    <2>1. rtask' = [rtask EXCEPT ![u] = "live"] /\ ~rrefused'
      BY SMTT(30), <1>1, <1>4 DEF LimitInv
    <2>2. /\ rtask' \in [RTask -> RTaskStates]
          /\ rtask'[u] = "live" /\ (\A v \in RTask \ {u} : rtask'[v] = rtask[v])
          /\ Unreaped' = Unreaped \cup {u} /\ u \notin Unreaped
      BY ZenonT(30), <1>1, <2>1, OneMoves DEF RTaskStates, Unreaped
    <2>3. LimitTypes' /\ Configured'
      BY <1>1, <2>2 DEF LimitInv, LimitTypes, Configured
    <2>4. Launched'
      BY <1>1, <2>2, LimitAssumption DEF LimitInv, Launched
    <2>5. Wont("races") => OneFork' /\ ~\E v \in RTask : rtask'[v] = "forks"
      BY <1>1, <2>2 DEF OneFork, Quiet
    <2>6. Wont("races") /\ rconfig.proc > 0 => Counted'
      <3> SUFFICES ASSUME Wont("races"), rconfig.proc > 0 PROVE Counted'
        OBVIOUS
      <3>1. Cardinality(Unreaped) + 1 <= rconfig.proc
        BY <1>1, <1>2, <1>4, CountReached DEF rlimit_proc_limit_reached
      <3>2. Cardinality(Unreaped') = Cardinality(Unreaped) + 1
        BY ZenonT(30), <2>2, UnreapedFinite, FS_AddElement
      <3> QED
        BY SMTT(30), <1>1, <1>2, <2>5, <3>1, <3>2, UnreapedFinite DEF Counted
    <2> QED
      BY <1>1, <2>1, <2>3, <2>4, <2>5, <2>6 DEF LimitInv, Wont
  <1> QED
    BY <1>3, <1>4

\* A task other than the first is heard of, ends, is heard to have ended or is waited for: none
\* of this adds to the tasks, nor starts one.
LEMMA TaskMovesKeeps ==
    ASSUME LimitInv, NEW t \in RTask, NEW s \in RTaskStates \ {"forks", "new", "ended"},
           t # RFirst, rtask[t] # "none", rtask' = [rtask EXCEPT ![t] = s],
           s \in {"live", "dead"} => t \in Unreaped,
           UNCHANGED <<limit_guest, roptions, rconfig, rext, rrefused>>
    PROVE  LimitInv'
  <1>1. /\ rtask' \in [RTask -> RTaskStates]
        /\ rtask'[t] = s /\ (\A u \in RTask \ {t} : rtask'[u] = rtask[u])
        /\ Unreaped' \in SUBSET Unreaped
    <2>1. s \in RTaskStates
      OBVIOUS
    <2>2. /\ rtask' \in [RTask -> RTaskStates]
          /\ rtask'[t] = s /\ \A u \in RTask \ {t} : rtask'[u] = rtask[u]
          /\ s \in {"live", "forks", "new", "dead"} => Unreaped' = Unreaped \cup {t}
          /\ s \notin {"live", "forks", "new", "dead"} => Unreaped' = Unreaped \ {t}
      BY ZenonT(30), <2>1, OneMoves
    <2>3. Unreaped' \in SUBSET Unreaped
      BY <2>2
    <2> QED
      BY <2>2, <2>3
  <1>2. LimitTypes' /\ Configured'
    BY <1>1 DEF LimitInv, LimitTypes, Configured
  <1>3. Launched'
    BY <1>1, LimitAssumption DEF LimitInv, Launched
  <1>4. Wont("races") => OneFork'
    BY <1>1 DEF LimitInv, OneFork
  <1>5. Wont("races") /\ rconfig.proc > 0 => Counted'
    <2> SUFFICES ASSUME Wont("races"), rconfig.proc > 0 PROVE Counted'
      OBVIOUS
    <2>1. Cardinality(Unreaped') <= Cardinality(Unreaped) /\ Cardinality(Unreaped') \in Nat
      BY <1>1, UnreapedFinite, FS_Subset, FS_CardinalityType
    <2>2. (\E u \in RTask : rtask'[u] = "forks") => \E u \in RTask : rtask[u] = "forks"
      BY <1>1
    <2>3. Counted /\ rconfig.proc \in Int
      BY DEF LimitInv, LimitTypes
    <2> QED
      BY <2>1, <2>2, <2>3, UnreapedFinite DEF Counted
  <1> QED
    BY <1>2, <1>3, <1>4, <1>5 DEF LimitInv, Wont

\* Whatever the order of the options, who forks and who ends unheard, the guests have no more
\* tasks than --proc-limit allows, and nobody is refused while there are fewer.
THEOREM LimitIsExact == LimitSpec => []ProcLimitExact
  <1>1. LimitInv /\ [LimitNext]_limitVars => LimitInv'
    <2> SUFFICES ASSUME LimitInv, [LimitNext]_limitVars PROVE LimitInv'
      OBVIOUS
    <2>1. ASSUME UNCHANGED <<limit_guest, roptions, rconfig, rext, rtask, rrefused>> PROVE LimitInv'
      BY <2>1 DEF LimitInv, LimitTypes, Launched, Configured, OneFork, Counted, Unreaped, Wont
    <2>2. CASE UNCHANGED limitVars
      BY <2>1, <2>2 DEF limitVars
    <2>3. ASSUME NEW t \in RTask, UNCHANGED limit_guest,
                 ForkHeard(t) \/ TaskEnds(t) \/ EndHeard(t) \/ PtracerWaits(t)
          PROVE  LimitInv'
      <3>1. CASE ForkHeard(t)
        BY ZenonT(30), <2>3, <3>1, TaskMovesKeeps DEF ForkHeard, RTaskStates, Unreaped, LimitInv, Launched
      <3>2. CASE TaskEnds(t)
        BY ZenonT(30), <2>3, <3>2, TaskMovesKeeps DEF TaskEnds, RTaskStates, Unreaped
      <3>3. CASE EndHeard(t)
        <4>1. PICK s \in {"none", "kept"} : rtask' = [rtask EXCEPT ![t] = s]
          BY ZenonT(30), <3>3 DEF EndHeard
        <4> QED
          BY ZenonT(30), <2>3, <3>3, <4>1, TaskMovesKeeps DEF EndHeard, RTaskStates, LimitInv, Launched
      <3>4. CASE PtracerWaits(t)
        BY ZenonT(30), <2>3, <3>4, TaskMovesKeeps DEF PtracerWaits, RTaskStates, LimitInv, Launched
      <3> QED
        BY <2>3, <3>1, <3>2, <3>3, <3>4
    <2>4. ASSUME UNCHANGED limit_guest,
                 rlimit_handle_sched_getaffinity \/ \E cpus \in SUBSET HostCpus : Pins(cpus)
          PROVE  LimitInv'
      BY <2>1, <2>4 DEF Pins, rlimit_handle_sched_getaffinity
    <2>5. CASE LimitNext
      BY <2>3, <2>4, <2>5, LimitOptionKeeps, LaunchesKeeps, ForkEnterKeeps, ForkInKernelKeeps,
         SuperviseKeeps DEF LimitNext, LimitStep
    <2> QED
      BY <2>2, <2>5
  <1>2. LimitInv => ProcLimitExact
    <2> SUFFICES ASSUME LimitInv PROVE ProcLimitExact
      OBVIOUS
    <2>1. rconfig.proc \in Int /\ ~rrefused
      BY DEF LimitInv, LimitTypes
    <2> QED
      BY <2>1, UnreapedFinite DEF LimitInv, ProcLimitExact, Counted
  <1> QED
    BY <1>1, <1>2, InitLimit, PTL DEF LimitSpec

--------------------------------------------------------------------------------
(* kill(2).                                                                 *)

TaskStates == {"none", "new", "live", "dead"}
TaskTypes == ptask \in [PTask -> [state : TaskStates, tgid : PTask, pgid : PTask]]

\* Without threads each task is a process.
Threadless == Dares("threads") \/ \A t \in PTask : ptask[t].state # "none" => Leader(t) = t

KillInv == TaskTypes /\ Threadless /\ KillReaches

\* The steps that leave tasks, the last kill(2) and the listing alone.
QuietStep(t) ==
    \/ \E p \in ProcPaths, again \in BOOLEAN : PathOpen(t, p, again)
    \/ UntrackedOpen(t)
    \/ \E f \in PFd : UntrackedClose(t, f) \/ PathClose(t, f)
    \/ \E f \in PFd, g \in PFd \cup {BadFd} : DupTo(t, f, g)
    \/ \E f \in PFd, how \in {"read", "pread", "readv"} : ReadEnter(t, f, how)
    \/ ReadKernel(t) \/ ReadExit(t)

\* What tasks do with descriptors changes no task and no listing.
LEMMA QuietFrame ==
    ASSUME NEW t \in PTask, QuietStep(t)
    PROVE  UNCHANGED <<ptask, pkilled, plisting>>
<1>1. CASE \E p \in ProcPaths, again \in BOOLEAN : PathOpen(t, p, again)
  BY <1>1 DEF PathOpen
<1>2. CASE UntrackedOpen(t)
  BY <1>2 DEF UntrackedOpen
<1>3. CASE \E f \in PFd : UntrackedClose(t, f) \/ PathClose(t, f)
  BY <1>3 DEF UntrackedClose, PathClose
<1>4. CASE \E f \in PFd, g \in PFd \cup {BadFd} : DupTo(t, f, g)
  BY <1>4 DEF DupTo
<1>5. CASE \E f \in PFd, how \in {"read", "pread", "readv"} : ReadEnter(t, f, how)
  BY <1>5 DEF ReadEnter
<1>6. CASE ReadKernel(t)
  BY <1>6 DEF ReadKernel
<1>7. CASE ReadExit(t)
  BY ZenonT(30), <1>7 DEF ReadExit
<1> QED
  BY <1>1, <1>2, <1>3, <1>4, <1>5, <1>6, <1>7 DEF QuietStep

\* Tasks come, change their groups and go, each a process of its own when there are no threads.
LEMMA TasksKeep ==
    ASSUME TaskTypes, ProcNext
    PROVE  TaskTypes' /\ (Threadless => Threadless')
<1> USE ProcAssumption DEF TaskTypes, Threadless, TaskStates, Dares, Leader
<1>1. PICK t \in PTask : \/ QuietStep(t)
                         \/ \E u \in PTask, thread \in BOOLEAN : KernelForks(t, u, thread)
                         \/ ChildRegistered(t) \/ TaskExits(t) \/ TaskReaped(t) \/ Regroups(t)
                         \/ ptask' = ptask
  BY ZenonT(30) DEF ProcNext, ProcStep, QuietStep, hpc_handle_kill_enter, KillOne, ListingStarts,
         hpc_handle_getdents_exit
<1>2. proc_guest' = proc_guest
  BY DEF ProcNext
<1>3. CASE QuietStep(t)
  BY <1>2, <1>3, QuietFrame
<1>4. CASE \E u \in PTask, thread \in BOOLEAN : KernelForks(t, u, thread)
  <2>1. PICK u \in PTask, thread \in BOOLEAN : KernelForks(t, u, thread)
    BY <1>4
  <2>2. /\ ptask' = [ptask EXCEPT ![u] = [state |-> "new", tgid |-> IF thread THEN Leader(t) ELSE u,
                                          pgid |-> ptask[t].pgid]]
        /\ thread => "threads" \in proc_guest
    BY <2>1 DEF KernelForks
  <2> QED
    BY <1>2, <2>2
<1>5. CASE ChildRegistered(t)
  BY SMTT(30), <1>2, <1>5 DEF ChildRegistered, InState
<1>6. CASE TaskExits(t)
  BY SMTT(30), <1>2, <1>6 DEF TaskExits, InState, Calling, PLive
<1>7. CASE TaskReaped(t)
  BY <1>2, <1>7 DEF TaskReaped, NoTask
<1>8. CASE Regroups(t)
  BY SMTT(30), <1>2, <1>8 DEF Regroups
<1>9. CASE ptask' = ptask
  BY <1>2, <1>9
<1> QED
  BY <1>1, <1>3, <1>4, <1>5, <1>6, <1>7, <1>8, <1>9

\* A set of processes gets one signal each.
LEMMA OneSignalEach ==
    ASSUME NEW T \in SUBSET PTask, \A u \in T : Leader(u) = u, NEW p \in PTask
    PROVE  Signals(T)[p] = IF p \in T THEN 1 ELSE 0
<1>1. Signals(T)[p] = Cardinality({u \in T : Leader(u) = p})
  BY DEF Signals
<1>2. CASE p \in T
  <2>1. {u \in T : Leader(u) = p} = {p}
    BY <1>2
  <2> QED
    BY <1>1, <1>2, <2>1, FS_Singleton
<1>3. CASE p \notin T
  <2>1. {u \in T : Leader(u) = p} = {}
    BY <1>3
  <2> QED
    BY <1>1, <1>3, <2>1, FS_EmptySet
<1> QED
  BY <1>2, <1>3

\* kill(2) of a group, or of all: what is walked is who is there.
LEMMA GroupKillReaches ==
    ASSUME KillInv, NEW t \in PTask, NEW group \in {"any"} \cup PTask, NEW asks \in BOOLEAN,
           hpc_handle_kill_enter(t, group, asks), proc_guest' = proc_guest
    PROVE  KillReaches'
<1> SUFFICES ASSUME ~Dares("threads"), InState({"new"}) = {}
             PROVE  pkilled'.got = pkilled'.want /\ pkilled'.found = pkilled'.there
  BY ZenonT(30) DEF KillReaches, Dares, hpc_handle_kill_enter
<1> DEFINE members == hpc_kill_tracees_matching(t, group, TRUE)
           found == IF group = "any" THEN ~asks ELSE members # {}
           others == hpc_kill_tracees_matching(t, group, FALSE)
           targets == IF asks \/ ~found THEN {} ELSE others
<1>1. /\ pkilled'.found = found /\ pkilled'.got = Signals(targets)
      /\ pkilled'.want = IF asks THEN Signals({}) ELSE LinuxSignals(t, group)
      /\ pkilled'.there = IF group = "any" THEN found ELSE LinuxFinds(group)
  BY DEF hpc_handle_kill_enter
<1>2. InState({"new", "live", "dead"}) = InState({"live", "dead"})
  BY SMTT(30) DEF InState
<1>3. /\ \A u \in InState({"live", "dead"}) : u \in PTask /\ Leader(u) = u
      /\ Leader(t) = t
  BY DEF KillInv, Threadless, InState, hpc_handle_kill_enter, Calling, PLive
<1>4. LinuxFinds(group) = (members # {})
  BY ZenonT(30), <1>2 DEF LinuxFinds, hpc_kill_tracees_matching
<1>5. pkilled'.found = pkilled'.there
  <2>1. CASE group = "any"
    <3> HIDE DEF found
    <3> QED
      BY ZenonT(30), <1>1, <2>1
  <2>2. CASE group # "any"
    <3>1. found = (members # {})
      BY ZenonT(30), <2>2
    <3> HIDE DEF members, found
    <3> QED
      BY ZenonT(30), <1>1, <1>4, <2>2, <3>1
  <2> QED
    BY <2>1, <2>2
<1>6. CASE asks
  BY ZenonT(30), <1>1, <1>5, <1>6
<1>7. CASE ~asks
  <2>1. others \in SUBSET PTask /\ \A u \in others : Leader(u) = u
    BY <1>3 DEF hpc_kill_tracees_matching
  <2>2. targets = others
    BY <1>7 DEF hpc_kill_tracees_matching
  <2>3. \A p \in PTask : p \in others <=>
           p # Leader(t) /\ \E u \in InState({"new", "live", "dead"}) : Leader(u) = p /\ InGroup(u, group)
    BY <1>2, <1>3 DEF hpc_kill_tracees_matching
  <2>4. \A p \in PTask : Signals(others)[p] = LinuxSignals(t, group)[p]
    BY ZenonT(30), <2>1, <2>3, OneSignalEach DEF LinuxSignals
  <2>5. Signals(others) = LinuxSignals(t, group)
    BY ZenonT(30), <2>4 DEF Signals, LinuxSignals
  <2> QED
    BY ZenonT(30), <1>1, <1>5, <1>7, <2>2, <2>5
<1> QED
  BY <1>6, <1>7

LEMMA InitKill == ProcInit => KillInv
<1> SUFFICES ASSUME ProcInit PROVE KillInv
  OBVIOUS
<1>1. TaskTypes /\ Threadless
  BY ZenonT(30), ProcAssumption DEF ProcInit, TaskTypes, Threadless, TaskStates, NoTask, Leader
<1>2. KillReaches
  BY DEF ProcInit, KillReaches
<1> QED
  BY <1>1, <1>2 DEF KillInv

LEMMA KillNext ==
    ASSUME KillInv, ProcNext
    PROVE  KillInv'
<1>1. TaskTypes' /\ Threadless'
  BY TasksKeep DEF KillInv
<1>2. proc_guest' = proc_guest
  BY DEF ProcNext
<1>3. PICK t \in PTask :
         \/ \E group \in {"any"} \cup PTask, asks \in BOOLEAN : hpc_handle_kill_enter(t, group, asks)
         \/ \E u \in PTask, asks \in BOOLEAN : KillOne(t, u, asks)
         \/ QuietStep(t) \/ pkilled' = pkilled
  BY DEF ProcNext, ProcStep, QuietStep, KernelForks, ChildRegistered, TaskExits, TaskReaped, Regroups,
         ListingStarts, hpc_handle_getdents_exit
<1>4. CASE \E group \in {"any"} \cup PTask, asks \in BOOLEAN : hpc_handle_kill_enter(t, group, asks)
  BY <1>1, <1>2, <1>4, GroupKillReaches DEF KillInv
<1>5. CASE \E u \in PTask, asks \in BOOLEAN : KillOne(t, u, asks)
  <2>1. PICK u \in PTask, asks \in BOOLEAN : KillOne(t, u, asks)
    BY <1>5
  <2>2. KillReaches'
    <3> SUFFICES ASSUME InState({"new"}) = {}
                 PROVE  pkilled'.got = pkilled'.want /\ pkilled'.found = pkilled'.there
      BY ZenonT(30), <2>1 DEF KillReaches, KillOne
    <3>1. hpc_is_proot_pid(u) <=> u \in InState({"new", "live", "dead"})
      BY DEF hpc_is_proot_pid, InState
    <3> QED
      BY <2>1, <3>1 DEF KillOne
  <2> QED
    BY <1>1, <2>2 DEF KillInv
<1>6. CASE pkilled' = pkilled
  BY <1>1, <1>2, <1>6 DEF KillInv, KillReaches, Dares
<1> QED
  BY <1>3, <1>4, <1>5, <1>6, QuietFrame

\* Whatever processes there are and however they have been grouped, kill(2) of a group reaches
\* each member but the sender once and says ESRCH only when there is none.
THEOREM KillsReach == ProcSpec => []KillReaches
<1>1. ProcInit => KillInv
  BY InitKill
<1>2. KillInv /\ [ProcNext]_procVars => KillInv'
  <2> SUFFICES ASSUME KillInv, [ProcNext]_procVars PROVE KillInv'
    OBVIOUS
  <2>1. CASE ProcNext
    BY <2>1, KillNext
  <2>2. CASE UNCHANGED procVars
    BY <2>2 DEF procVars, KillInv, TaskTypes, Threadless, KillReaches, Dares, Leader
  <2> QED
    BY <2>1, <2>2
<1>3. KillInv => KillReaches
  BY DEF KillInv
<1> QED
  BY <1>1, <1>2, <1>3, PTL DEF ProcSpec

--------------------------------------------------------------------------------
(* The listing of /proc.                                                    *)

ListingType ==
    [pos : Nat, seen : SUBSET Range(PidOrder), must : SUBSET PTask, void : BOOLEAN, over : BOOLEAN]

Processes(S) == {p \in S : Leader(p) = p}

\* Who is expected is there, those before the position have been seen, and after the end all.
ListInv ==
    /\ TaskTypes /\ plisting \in ListingType
    /\ plisting.must \subseteq PLive
    /\ \A i \in DOMAIN PidOrder :
          i <= plisting.pos /\ PidOrder[i] \in Processes(plisting.must) => PidOrder[i] \in plisting.seen
    /\ plisting.over => plisting.void \/ Processes(plisting.must) \subseteq plisting.seen

\* A set of numbers that is not empty has a least one, and with a bound a greatest.
LEMMA Least ==
    ASSUME NEW T \in SUBSET Nat, T # {}
    PROVE  \E x \in T : \A y \in T : x <= y
<1>1. PICK x \in T : \A y \in T : ~(<<y, x>> \in OpToRel(<, Nat))
  BY ZenonT(30), NatLessThanWellFounded, WFMin
<1>2. \A y \in Nat, z \in Nat : y < z => <<y, z>> \in OpToRel(<, Nat)
  BY DEF OpToRel
<1>3. \A y \in T : ~(y < x)
  BY ZenonT(30), <1>1, <1>2
<1> QED
  BY SMTT(30), <1>3

LEMMA Greatest ==
    ASSUME NEW n \in Nat, NEW T \in SUBSET (1 .. n), T # {}
    PROVE  \E x \in T : \A y \in T : y <= x
<1> DEFINE U == {n - x : x \in T}
<1>1. U \in SUBSET Nat /\ U # {}
  <2>1. \A x \in T : n - x \in Nat
    OBVIOUS
  <2> QED
    BY ZenonT(30), <2>1
<1>2. PICK u \in U : \A v \in U : u <= v
  BY ZenonT(30), <1>1, Least
<1>3. PICK x \in T : u = n - x
  BY <1>2
<1>4. \A y \in T : n - x <= n - y
  BY ZenonT(30), <1>2, <1>3
<1> QED
  BY SMTT(30), <1>4

\* getdents64(2) gives nothing only when nothing is left, and leaves out nothing it passes.
LEMMA ChunkFacts ==
    ASSUME plisting \in ListingType
    PROVE  /\ ChunkAt = {} => Ahead = {}
           /\ \A i \in Ahead, k \in ChunkAt : i <= k => i \in ChunkAt
           /\ ChunkAt # {} => \E k \in ChunkAt : \A i \in ChunkAt : i <= k
<1>1. Ahead \in SUBSET (1 .. Len(PidOrder)) /\ Len(PidOrder) \in Nat
  BY SMTT(30), ProcAssumption DEF Ahead
<1>2. IsFiniteSet(Ahead) /\ Ahead \subseteq Nat
  <2>1. IsFiniteSet(1 .. Len(PidOrder))
    BY SMTT(30), <1>1, FS_Interval
  <2>2. IsFiniteSet(Ahead)
    BY ZenonT(30), <1>1, <2>1, FS_Subset
  <2>3. 1 .. Len(PidOrder) \subseteq Nat
    BY <1>1
  <2> QED
    BY <1>1, <2>2, <2>3
<1>3. ASSUME Ahead # {}
      PROVE  ChunkAt # {}
  <2>1. PICK i \in Ahead : \A j \in Ahead : i <= j
    BY <1>2, <1>3, Least
  <2>2. \A j \in Ahead : ~(j < i)
    BY <1>2, <2>1
  <2>3. {j \in Ahead : j < i} = {}
    BY <2>2
  <2>4. Cardinality({j \in Ahead : j < i}) < ChunkLen
    <3>1. 0 < ChunkLen
      BY ProcAssumption
    <3> QED
      BY <2>3, <3>1, FS_EmptySet
  <2>5. i \in ChunkAt
    BY <2>4 DEF ChunkAt
  <2> QED
    BY <2>5
<1>4. ASSUME NEW i \in Ahead, NEW k \in ChunkAt, i <= k
      PROVE  i \in ChunkAt
  <2> DEFINE Below(x) == {j \in Ahead : j < x}
  <2>1. k \in Ahead /\ Cardinality(Below(k)) < ChunkLen
    BY DEF ChunkAt
  <2>2. Below(i) \in SUBSET Below(k)
    <3>1. \A j \in Ahead : j < i => j < k
      BY <1>2, <1>4, <2>1
    <3> QED
      BY <3>1
  <2>3. IsFiniteSet(Below(k))
    BY <1>2, FS_Subset
  <2>4. Cardinality(Below(i)) <= Cardinality(Below(k))
    BY <2>2, <2>3, FS_Subset
  <2>5. Cardinality(Below(i)) \in Nat /\ Cardinality(Below(k)) \in Nat
    BY <2>2, <2>3, FS_Subset, FS_CardinalityType
  <2>6. Cardinality(Below(i)) < ChunkLen
    BY <2>1, <2>4, <2>5, ProcAssumption
  <2> QED
    BY <2>6 DEF ChunkAt
<1>5. ASSUME ChunkAt # {}
      PROVE  \E k \in ChunkAt : \A i \in ChunkAt : i <= k
  <2>1. ChunkAt \in SUBSET (1 .. Len(PidOrder))
    BY ZenonT(30), <1>1 DEF ChunkAt
  <2> QED
    BY ZenonT(30), <1>1, <1>5, <2>1, Greatest
<1> QED
  BY <1>3, <1>4, <1>5

\* A buffer of pids, with what is no tracee taken out, shows the processes it passes.
LEMMA GetdentsKeeps ==
    ASSUME ListInv, NEW t \in PTask, hpc_handle_getdents_exit(t)
    PROVE  ListInv'
<1> DEFINE kept == {p \in Chunk : hpc_getdents_keep(p)}
           pos == IF ChunkAt = {} THEN plisting.pos
                  ELSE CHOOSE i \in ChunkAt : \A j \in ChunkAt : j <= i
           void == plisting.void \/ (Chunk # {} /\ \A p \in Chunk : ~hpc_is_proot_pid(p))
<1>1. plisting \in ListingType
  BY DEF ListInv
<1>2. /\ plisting' = [plisting EXCEPT !.pos = pos, !.seen = @ \cup kept, !.void = void,
                                      !.over = kept = {}]
      /\ UNCHANGED ptask
  BY DEF hpc_handle_getdents_exit
<1>3. Ahead \subseteq DOMAIN PidOrder /\ ChunkAt \subseteq Ahead /\ DOMAIN PidOrder \subseteq Nat
  BY SMTT(30), ProcAssumption DEF Ahead, ChunkAt
<1>4. ChunkAt # {} => pos \in ChunkAt /\ \A j \in ChunkAt : j <= pos
  BY <1>1, ChunkFacts
<1>5. pos \in Nat
  BY <1>1, <1>3, <1>4 DEF ListingType
<1>6. kept \subseteq Range(PidOrder)
  BY <1>3, ProcAssumption DEF Chunk, Range
<1> HIDE DEF pos, void
<1>7. void \in BOOLEAN
  BY <1>1 DEF void, ListingType
<1> HIDE DEF kept
<1>8. /\ plisting'.pos = pos /\ plisting'.seen = plisting.seen \cup kept /\ plisting'.must = plisting.must
      /\ plisting'.void = void /\ plisting'.over = (kept = {}) /\ plisting' \in ListingType
  BY ZenonT(30), <1>1, <1>2, <1>5, <1>6, <1>7 DEF ListingType
<1>9. Processes(plisting.must)' = Processes(plisting.must)
  BY <1>2, <1>8 DEF Processes, Leader
<1>10. TaskTypes' /\ plisting'.must \subseteq PLive'
  BY <1>2, <1>8 DEF ListInv, TaskTypes, PLive, InState
<1>11. ASSUME NEW i \in Ahead, PidOrder[i] \in Processes(plisting.must), i \in ChunkAt
       PROVE  PidOrder[i] \in kept
  BY <1>11 DEF kept, Chunk, Processes, ListInv, hpc_getdents_keep, hpc_is_proot_pid, PLive, InState
<1>12. ASSUME NEW i \in DOMAIN PidOrder, PidOrder[i] \in Processes(plisting.must), i > plisting.pos
       PROVE  i \in Ahead
  BY <1>12 DEF Ahead, PidExists, Processes, ListInv, PLive, InState
<1>13. ASSUME NEW i \in DOMAIN PidOrder, i <= pos, PidOrder[i] \in Processes(plisting.must)
       PROVE  PidOrder[i] \in plisting.seen \cup kept
  <2>1. CASE i <= plisting.pos
    BY <1>13, <2>1 DEF ListInv
  <2>2. CASE i > plisting.pos
    <3>1. i \in Ahead
      BY <1>12, <1>13, <2>2
    <3>2. pos \in ChunkAt
      BY <1>1, <1>4, <3>1, ChunkFacts
    <3>3. i \in ChunkAt
      BY <1>1, <1>13, <3>1, <3>2, ChunkFacts
    <3> QED
      BY <1>11, <1>13, <3>1, <3>3
  <2> QED
    BY SMTT(30), <1>1, <1>3, <2>1, <2>2 DEF ListingType
<1>14. ASSUME kept = {}, ~void
       PROVE  Processes(plisting.must) \subseteq plisting.seen \cup kept
  <2>1. Chunk = {}
    BY <1>14 DEF kept, void, hpc_getdents_keep
  <2>2. Ahead = {}
    BY <1>1, <2>1, ChunkFacts DEF Chunk
  <2> SUFFICES ASSUME NEW p \in Processes(plisting.must)
               PROVE  p \in plisting.seen
    OBVIOUS
  <2>3. p \in PTask
    BY <1>1 DEF Processes, ListingType
  <2>4. PICK i \in DOMAIN PidOrder : PidOrder[i] = p
    BY <2>3, ProcAssumption DEF Range
  <2>5. i <= plisting.pos
    BY SMTT(30), <1>1, <1>3, <1>12, <2>2, <2>4 DEF ListingType
  <2> QED
    BY <2>4, <2>5 DEF ListInv
<1> QED
  BY ZenonT(30), <1>8, <1>9, <1>10, <1>13, <1>14 DEF ListInv

\* A process that is there all the time stays who it is, whatever the others do.
LEMMA ListNext ==
    ASSUME ListInv, ProcNext
    PROVE  ListInv'
<1> DEFINE must == plisting.must
<1>1. plisting \in ListingType /\ TaskTypes /\ must \subseteq PLive
  BY DEF ListInv
<1>2. PICK t \in PTask :
         \/ QuietStep(t) \/ UNCHANGED <<ptask, plisting>>
         \/ \E u \in PTask, thread \in BOOLEAN : KernelForks(t, u, thread)
         \/ ChildRegistered(t) \/ TaskExits(t) \/ TaskReaped(t) \/ Regroups(t)
         \/ ListingStarts(t) \/ hpc_handle_getdents_exit(t)
  BY ZenonT(30) DEF ProcNext, ProcStep, QuietStep, hpc_handle_kill_enter, KillOne
<1>3. TaskTypes'
  BY <1>1, TasksKeep
<1>4. ASSUME plisting'.pos = plisting.pos, plisting'.seen = plisting.seen, plisting'.void = plisting.void,
             plisting'.over = plisting.over, plisting' \in ListingType,
             plisting'.must \subseteq must,
             \A p \in plisting'.must : ptask'[p].state = "live" /\ ptask'[p].tgid = ptask[p].tgid
      PROVE  ListInv'
  <2>1. plisting'.must \subseteq PLive'
    BY <1>4 DEF ListingType, PLive, InState
  <2>2. Processes(plisting.must)' \subseteq Processes(must)
    BY <1>4 DEF Processes, Leader
  <2> HIDE DEF must
  <2> QED
    BY <1>3, <1>4, <2>1, <2>2 DEF ListInv, must
<1>5. \A p \in must : p \in PTask /\ ptask[p].state = "live"
  BY <1>1 DEF PLive, InState
<1>6. CASE UNCHANGED <<ptask, plisting>>
  BY <1>1, <1>4, <1>5, <1>6
<1>7. CASE \E u \in PTask, thread \in BOOLEAN : KernelForks(t, u, thread)
  <2>1. PICK u \in PTask : /\ ptask[u].state = "none" /\ plisting' = plisting
                          /\ \E x : ptask' = [ptask EXCEPT ![u] = x]
    BY ZenonT(30), <1>7 DEF KernelForks, InState
  <2>2. \A p \in must : ptask'[p] = ptask[p]
    BY <1>1, <1>5, <2>1 DEF TaskTypes
  <2> QED
    BY <1>1, <1>4, <1>5, <2>1, <2>2
<1>8. CASE ChildRegistered(t)
  <2>1. \A p \in must : ptask'[p] = ptask[p]
    BY <1>1, <1>5, <1>8 DEF TaskTypes, ChildRegistered, InState
  <2> QED
    BY <1>1, <1>4, <1>5, <1>8, <2>1 DEF ChildRegistered
<1>9. CASE TaskExits(t)
  <2>1. ptask' = [ptask EXCEPT ![t].state = "dead"] /\ plisting' = [plisting EXCEPT !.must = @ \ {t}]
    BY <1>9 DEF TaskExits
  <2>2. \A p \in must \ {t} : ptask'[p] = ptask[p]
    BY <1>1, <1>5, <2>1 DEF TaskTypes
  <2>3. plisting' \in ListingType /\ plisting'.must = must \ {t}
    BY <1>1, <2>1 DEF ListingType
  <2>4. /\ plisting'.pos = plisting.pos /\ plisting'.seen = plisting.seen
        /\ plisting'.void = plisting.void /\ plisting'.over = plisting.over
    BY <1>1, <2>1 DEF ListingType
  <2> QED
    BY <1>4, <1>5, <2>2, <2>3, <2>4
<1>10. CASE TaskReaped(t)
  <2>1. \A p \in must : ptask'[p] = ptask[p]
    BY <1>1, <1>5, <1>10 DEF TaskTypes, TaskReaped, InState
  <2> QED
    BY <1>1, <1>4, <1>5, <1>10, <2>1 DEF TaskReaped
<1>11. CASE Regroups(t)
  <2>1. \A p \in must : ptask'[p].state = ptask[p].state /\ ptask'[p].tgid = ptask[p].tgid
    BY <1>1, <1>5, <1>11 DEF TaskTypes, Regroups
  <2> QED
    BY <1>1, <1>4, <1>5, <1>11, <2>1 DEF Regroups
<1>12. CASE ListingStarts(t)
  <2>1. /\ plisting' = [pos |-> 0, seen |-> {}, must |-> PLive, void |-> FALSE, over |-> FALSE]
        /\ ptask' = ptask
    BY ZenonT(30), <1>12 DEF ListingStarts, NoListing
  <2>2. plisting' \in ListingType /\ PLive' = PLive
    BY <2>1 DEF ListingType, PLive, InState
  <2>3. DOMAIN PidOrder = 1 .. Len(PidOrder) /\ Len(PidOrder) \in Nat
    BY SMTT(30), ProcAssumption
  <2>4. \A i \in DOMAIN PidOrder : ~(i <= plisting'.pos)
    BY <2>1, <2>3
  <2> QED
    BY <1>3, <2>1, <2>2, <2>4 DEF ListInv
<1> QED
  BY <1>2, <1>6, <1>7, <1>8, <1>9, <1>10, <1>11, <1>12, QuietFrame, GetdentsKeeps

\* What is shown of a tracee that is there can be opened.
LEMMA ShownIsOpen ==
    ASSUME NEW p \in PLive
    PROVE  OpensAs(<<p>>) # "ENOENT" /\ OpensAs(<<p, "status">>) # "ENOENT"
<1>1. IsPid(p) /\ hpc_is_proot_pid(p) /\ p \notin {"net", "sys/net"}
  BY ProcAssumption DEF PLive, InState, hpc_is_proot_pid, IsPid
<1>2. Len(<<p>>) = 1 /\ <<p>>[1] = p /\ Len(<<p, "status">>) = 2 /\ <<p, "status">>[1] = p
      /\ <<p, "status">>[2] = "status" /\ <<p>> # <<>> /\ <<p, "status">> # <<>>
  OBVIOUS
<1>3. hpc_is_guest_proc_path(<<p>>) /\ ~hpc_is_host_proc_path(<<p>>)
  BY <1>1, <1>2 DEF hpc_is_guest_proc_path, hpc_is_host_proc_path, OfProcess
<1>4. hpc_proc_synth_kind(<<p, "status">>) /\ OfProcess(<<p, "status">>)
  BY <1>1, <1>2 DEF hpc_proc_synth_kind, OfProcess, SynthNames
<1>5. hpc_is_guest_proc_path(<<p, "status">>) /\ ~hpc_is_host_proc_path(<<p, "status">>)
  BY <1>1, <1>2, <1>4 DEF hpc_is_guest_proc_path, hpc_is_host_proc_path
<1> QED
  BY <1>2, <1>3, <1>5 DEF OpensAs

\* Whatever the order of the pids and the size of the buffer, and though others come and go, a
\* listing of /proc that is not cut short shows each process that was there all the time, and
\* what it has shown and is still there can be opened.
THEOREM ListingsAreComplete == ProcSpec => []ListingComplete
<1>1. ProcInit => ListInv
  <2> SUFFICES ASSUME ProcInit PROVE ListInv
    OBVIOUS
  <2>1. TaskTypes
    BY InitKill DEF KillInv
  <2>2. plisting = NoListing
    BY DEF ProcInit
  <2> QED
    BY <2>1, <2>2 DEF ListInv, ListingType, NoListing, Processes
<1>2. ListInv /\ [ProcNext]_procVars => ListInv'
  <2> SUFFICES ASSUME ListInv, [ProcNext]_procVars PROVE ListInv'
    OBVIOUS
  <2>1. CASE ProcNext
    BY <2>1, ListNext
  <2>2. CASE UNCHANGED procVars
    BY <2>2 DEF procVars, ListInv, TaskTypes, PLive, InState, Processes, Leader
  <2> QED
    BY <2>1, <2>2
<1>3. ListInv => ListingComplete
  <2> SUFFICES ASSUME ListInv PROVE ListingComplete
    OBVIOUS
  <2> QED
    BY ShownIsOpen DEF ListInv, ListingComplete, Processes
<1> QED
  BY <1>1, <1>2, <1>3, PTL DEF ProcSpec

================================================================================
