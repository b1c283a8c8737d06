---------------------------------- MODULE Heap ----------------------------------
(***************************************************************************)
(* The emulated brk(2): the heap of a guest is a mapping PRoot makes at    *)
(* the first brk(0) and resizes with mremap(2), where the kernel would     *)
(* have put it at the end of the loader.  Its first page is never part of  *)
(* the heap, which can be empty.                                           *)
(*                                                                         *)
(* Addresses are pages: <<"heap", k>> is k pages after the base, <<"zero", *)
(* 0>> the null pointer, <<"low", 0>> what is below the base, and          *)
(* <<"kernel", k>> an address of the kernel's own heap.                    *)
(***************************************************************************)
EXTENDS Naturals, FiniteSets

CONSTANTS
    HTask, HFirst,      \* tasks, and the first of them
    HeapPages,          \* the largest heap a guest asks for
    HeapGuests          \* what the guests do, as sets of habits

(***************************************************************************)
(* Guests shrink their heaps, have no memory left ("scarce"), use a heap of*)
(* the kernel before the first program is loaded ("early"), have threads,  *)
(* which call brk(2) at once ("races"), fork, execute programs, some of them*)
(* with the QEMU runner, which the kernel may refuse.                      *)
(***************************************************************************)
HeapHabits == {"shrinks", "scarce", "early", "threads", "races", "forks", "execs", "runner",
               "refused"}

ASSUME HeapAssumption ==
    /\ HFirst \in HTask /\ "none" \notin HTask
    /\ HeapPages \in Nat
    /\ HeapGuests \subseteq SUBSET HeapHabits

VARIABLES
    heap_guest,
    heap_of,     \* Tracee.heap: which Heap object each tracee refers to
    heap,        \* the Heap objects
    vm_of,       \* the address space of each task
    vm,          \* pages mapped for the heap in each of them, and the kernel's break
    hcall        \* the brk(2) each task is in

heapVars == <<heap_guest, heap_of, heap, vm_of, vm, hcall>>

May(h) == h \in heap_guest

\* Objects and address spaces are named after the task they were made for; a task that is not
\* there has none.
Absent == "none"
HTasks == {t \in HTask : vm_of[t] # Absent}
NewHeap == [base |-> FALSE, size |-> 0, disabled |-> FALSE]
NewVm == [pages |-> {}, brk |-> 0]
NoBrk == [step |-> "none"]

--------------------------------------------------------------------------------
(* The call.                                                                *)

Asked == {<<"zero", 0>>, <<"low", 0>>} \cup ({"heap"} \X (0 .. HeapPages))

\* A guest uses addresses it has been given: of the emulated heap once there is one; a process
\* that has not executed its program yet may have a heap of the kernel's already.
Asks(t, addr) ==
    LET h == heap[heap_of[t]] IN
    IF addr[1] = "kernel" THEN May("early") /\ (h.disabled \/ ~h.base)
    ELSE addr[1] = "zero" \/ (h.base /\ (addr[1] = "heap" => May("shrinks") \/ addr[2] >= h.size))

\* malloc() of one address space is used by one thread at a time, and not across a fork(2).
Locked(t) == \A u \in HTasks : vm_of[u] = vm_of[t] => hcall[u] = NoBrk

translate_brk_enter(t, addr) ==
    /\ t \in HTasks /\ hcall[t] = NoBrk /\ Asks(t, addr) /\ (May("races") \/ Locked(t))
    /\ LET h == heap[heap_of[t]]
           num == CASE h.disabled -> "brk"
                    [] ~h.disabled /\ ~h.base /\ addr[1] # "zero" -> "brk"
                    [] ~h.disabled /\ ~h.base /\ addr[1] = "zero" -> "mmap"
                    [] ~h.disabled /\ h.base /\ addr[1] # "heap" -> "void"
                    [] OTHER -> "mremap"
       IN hcall' = [hcall EXCEPT ![t] =
             [step |-> "kernel", num |-> num, addr |-> addr,
              old |-> IF num = "mremap" THEN h.size + 1 ELSE 0,
              new |-> IF num = "mremap" THEN addr[2] + 1 ELSE IF num = "mmap" THEN 1 ELSE 0,
              result |-> "none"]]
    /\ UNCHANGED <<heap_of, heap, vm_of, vm>>

\* The pages that follow each other from the first: the mapping mremap(2) finds.
Extent(pages) == CHOOSE n \in 0 .. HeapPages + 1 :
    (0 .. HeapPages) \cap {i \in pages : i < n} = 0 .. n - 1 /\ n \notin pages

\* mremap(2) without MREMAP_MAYMOVE: what is past the new size is unmapped; a mapping that
\* does not end where it is said to, or that something follows, is not extended.
Remapped(pages, old, new) ==
    IF new <= old THEN pages \ (new .. old - 1)
    ELSE IF Extent(pages) = old /\ pages \cap (old .. new - 1) = {} THEN pages \cup (old .. new - 1)
    ELSE pages

\* What the address space is when the kernel has granted call c, and whether it can.
Granted(c, space) ==
    CASE c.num = "mmap" -> [space EXCEPT !.pages = {0}]
      [] c.num = "mremap" -> [space EXCEPT !.pages = Remapped(@, c.old, c.new)]
      [] c.num = "brk" /\ c.addr[1] = "kernel" -> [space EXCEPT !.brk = c.addr[2]]
      [] OTHER -> space
Grantable(c, space) ==
    CASE c.num = "brk" -> c.addr[1] = "kernel"
      [] c.num = "mremap" -> c.new <= c.old \/ Granted(c, space) # space
      [] OTHER -> TRUE

\* The kernel refuses what it cannot do and, when memory is scarce, what takes more of it.
KernelBrk(t, grants) ==
    /\ hcall[t].step = "kernel"
    /\ LET c == hcall[t]
           space == vm[vm_of[t]]
           takes == c.num \in {"mmap", "brk"} \/ (c.num = "mremap" /\ c.new > c.old)
       IN /\ IF grants THEN Grantable(c, space)
             ELSE ~Grantable(c, space) \/ (May("scarce") /\ takes)
          /\ vm' = IF grants THEN [vm EXCEPT ![vm_of[t]] = Granted(c, space)] ELSE vm
          /\ hcall' = [hcall EXCEPT ![t] =
                [c EXCEPT !.step = "exit", !.result = IF grants THEN "ok" ELSE "failed"]]
    /\ UNCHANGED <<heap_of, heap, vm_of>>

\* translate_brk_exit(): a failed mmap(2) leaves no heap, a failed mremap(2) the old one, and a
\* call the kernel got and granted switches the emulation off.
translate_brk_exit(t) ==
    /\ hcall[t].step = "exit"
    /\ LET c == hcall[t]
           h == heap_of[t]
           ok == c.result = "ok"
       IN heap' = IF heap[h].disabled \/ ~ok THEN heap
                  ELSE CASE c.num = "mmap" -> [heap EXCEPT ![h].base = TRUE, ![h].size = 0]
                         [] c.num = "mremap" -> [heap EXCEPT ![h].size = c.new - 1]
                         [] c.num = "brk" -> [heap EXCEPT ![h].disabled = TRUE]
                         [] OTHER -> heap
    /\ hcall' = [hcall EXCEPT ![t] = NoBrk]
    /\ UNCHANGED <<heap_of, vm_of, vm>>

--------------------------------------------------------------------------------
(* Tasks.                                                                   *)

\* new_child(): with CLONE_VM a reference to the heap, otherwise a copy of it.
new_child_copies(t, u, shares) ==
    /\ vm_of' = [vm_of EXCEPT ![u] = IF shares THEN vm_of[t] ELSE u]
    /\ vm' = IF shares THEN vm ELSE [vm EXCEPT ![u] = vm[vm_of[t]]]
    /\ heap_of' = [heap_of EXCEPT ![u] = u]
    /\ heap' = [heap EXCEPT ![u] = heap[heap_of[t]]]

new_child_heap(t, u, shares) ==
    /\ vm_of' = [vm_of EXCEPT ![u] = IF shares THEN vm_of[t] ELSE u]
    /\ vm' = IF shares THEN vm ELSE [vm EXCEPT ![u] = vm[vm_of[t]]]
    /\ heap_of' = [heap_of EXCEPT ![u] = IF shares THEN heap_of[t] ELSE u]
    /\ heap' = IF shares THEN heap ELSE [heap EXCEPT ![u] = heap[heap_of[t]]]

\* A name is free when no task refers to what was made for it.
Named == {vm_of[t] : t \in HTask} \cup {heap_of[t] : t \in HTask}

CloneVm(t, u, shares) ==
    /\ May(IF shares THEN "threads" ELSE "forks")
    /\ t \in HTasks /\ u \notin HTasks /\ u \notin Named /\ hcall[t] = NoBrk
    /\ May("races") \/ Locked(t)
    /\ new_child_heap(t, u, shares)
    /\ UNCHANGED hcall

\* translate_execve_exit(): "New processes have no heap."  A Heap others refer to is left to
\* them, one of this tracee's own is cleared.
ExecHeap(t) ==
    /\ May("execs") /\ t \in HTasks /\ hcall[t] = NoBrk /\ Locked(t)
    /\ \E v \in HTask :
       /\ IF \E u \in HTasks \ {t} : vm_of[u] = vm_of[t] THEN v \notin Named ELSE v = vm_of[t]
       /\ vm_of' = [vm_of EXCEPT ![t] = v]
       /\ vm' = [vm EXCEPT ![v] = NewVm]
       /\ IF \E u \in HTasks \ {t} : heap_of[u] = heap_of[t]
          THEN heap_of' = [heap_of EXCEPT ![t] = v] /\ heap' = [heap EXCEPT ![v] = NewHeap]
          ELSE heap' = [heap EXCEPT ![heap_of[t]] = NewHeap] /\ UNCHANGED heap_of
    /\ UNCHANGED hcall

\* An execve(2) that is given to the QEMU runner without the loader: the emulation is switched
\* off at the enter, whoever else refers to the Heap and whether or not the kernel agrees, and
\* translate_execve_exit() does no more.
ExecRunner(t, granted) ==
    /\ May("runner") /\ (granted \/ May("refused")) /\ t \in HTasks /\ hcall[t] = NoBrk /\ Locked(t)
    /\ heap' = [heap EXCEPT ![heap_of[t]].disabled = TRUE]
    /\ IF ~granted THEN UNCHANGED <<vm_of, vm>>
       ELSE \E v \in HTask :
            /\ IF \E u \in HTasks \ {t} : vm_of[u] = vm_of[t] THEN v \notin Named ELSE v = vm_of[t]
            /\ vm_of' = [vm_of EXCEPT ![t] = v]
            /\ vm' = [vm EXCEPT ![v] = NewVm]
    /\ UNCHANGED <<heap_of, hcall>>

EndOfTask(t) ==
    /\ t \in HTasks \ {HFirst} /\ hcall[t] = NoBrk
    /\ vm_of' = [vm_of EXCEPT ![t] = Absent]
    /\ heap_of' = [heap_of EXCEPT ![t] = Absent]
    /\ UNCHANGED <<heap, vm, hcall>>

--------------------------------------------------------------------------------
HeapInit ==
    /\ heap_guest \in HeapGuests
    /\ heap_of = [t \in HTask |-> IF t = HFirst THEN HFirst ELSE Absent]
    /\ vm_of = heap_of
    /\ heap = [t \in HTask |-> NewHeap]
    /\ vm = [t \in HTask |-> NewVm]
    /\ hcall = [t \in HTask |-> NoBrk]

HeapStep ==
    \E t \in HTask :
       \/ \E addr \in Asked \cup {<<"kernel", 1>>} : translate_brk_enter(t, addr)
       \/ \E grants \in BOOLEAN : KernelBrk(t, grants)
       \/ translate_brk_exit(t) \/ ExecHeap(t) \/ EndOfTask(t)
       \/ \E granted \in BOOLEAN : ExecRunner(t, granted)
       \/ \E u \in HTask, shares \in BOOLEAN : CloneVm(t, u, shares)

HeapNext == HeapStep /\ UNCHANGED heap_guest

HeapSpec == HeapInit /\ [][HeapNext]_heapVars

--------------------------------------------------------------------------------
\* The pages a Heap stands for: none before the first brk(0), or without emulation.
Stands(h) == IF h.base /\ ~h.disabled THEN 0 .. h.size ELSE {}

\* What the emulation is not made for.
HeapExposed == May("races") \/ (May("runner") /\ (May("threads") \/ May("refused")))

\* Between two calls the heap PRoot believes in is what is mapped, page for page: what brk(2)
\* returned can be used, nothing is left behind that would stop the heap from growing again,
\* and a call that failed has changed nothing - whatever is forked, executed and shared, as
\* long as the threads of an address space call brk(2) one at a time, and programs the runner
\* gets are executed, and not refused, for processes that share their memory with nobody.
HeapMapped ==
    HeapExposed \/
    \A t \in HTasks : Locked(t) => vm[vm_of[t]].pages = Stands(heap[heap_of[t]])

================================================================================
