--------------------------- MODULE NewChildProofs ---------------------------
(***************************************************************************)
(* Proofs about how PRoot learns of new processes and threads, for any     *)
(* number of tasks, on kernels that give the child's pid at the creator's  *)
(* event and on those that do not.                                         *)
(***************************************************************************)
EXTENDS NewChild, TLAPS

\* Time limits of the provers, for every leaf below.
USE ZenonT(30), SMTT(30)

\* A task that exists and that PRoot has not attached: it has not run yet.
Fresh(c) == Traced(c) /\ c \notin exe

\* What the kernel reports of t, and what PRoot has made of it, fit what t does.
Reports(t) ==
    /\ run[t] \in {"running", "forking"} => t \in exe /\ report[t] = "none"
    /\ report[t] \in {"FORK", "SYSEXIT"} => run[t] = "stopped" /\ t \in exe /\ call[t] # NULL
    /\ report[t] = "SIGSTOP" => run[t] = "stopped" /\ call[t] = NULL
    /\ report[t] = "EXIT" => run[t] = "dead"
    /\ run[t] = "running" => call[t] = NULL
    /\ run[t] = "forking" => call[t] # NULL
    /\ sigstop[t] = "PENDING" => Fresh(t) /\ report[t] \in {"none", "EXIT"}
    /\ Fresh(t) => call[t] = NULL
    /\ run[t] = "unborn" => t \notin exe /\ report[t] = "none" /\ call[t] = NULL /\ parent[t] = NULL

\* The call that t is in, and the child PRoot still looks for after it.
Calls(t) ==
    /\ call[t] # NULL =>
          /\ run[call[t].child] # "unborn" /\ creator[call[t].child] = t
          /\ call[t].flag \in guest.flags
          /\ ~loses_msg /\ report[t] = "FORK" => call[t].child \notin exe
    /\ t \in pending_child =>
          /\ loses_msg /\ call[t] # NULL /\ run[t] # "running"
          /\ pending_flag[t] = call[t].flag
          /\ call[t].flag = "vfork" => pending_sp[t] = sp[t]

\* No two threads of a process share a stack, and nobody is on that of a task that has not
\* run yet.
Stacks(s, t) ==
    s # t => /\ tgid[s] = tgid[t] => sp[s] # sp[t]
             /\ run[t] = "unborn" => tgid[s] # t /\ sp[s] # t
             /\ Fresh(t) => sp[s] # t

\* The creator of a task that is not attached is still in the call that created it, and
\* PRoot will hear of that call, looks for its child, or the creator is dead.
HasCreator(c) ==
    LET q == creator[c] IN
    Fresh(c) =>
       /\ q \in Task /\ call[q] # NULL /\ call[q].child = c /\ run[q] # "running"
       /\ report[q] = "FORK" \/ q \in pending_child \/ run[q] = "dead"
       /\ IF call[q].flag = "thread" THEN sp[c] = c ELSE ppid[c] = tgid[q] /\ sp[c] = sp[q]

\* The guest does not use CLONE_PARENT, with which siblings share parent and stack.
NoParent == "vfork_parent" \notin guest.flags

ChildInv ==
    /\ TypeOK /\ AttachedOnce
    /\ \A t \in Task : Reports(t) /\ Calls(t) /\ (tgid[t] # t => sp[t] = t)
    /\ \A s, t \in Task : Stacks(s, t)
    /\ NoParent => InheritsFromCreator /\ \A c \in Task : HasCreator(c)

--------------------------------------------------------------------------------
(* The initial states, and what is known of the constants.                  *)

LEMMA InitChild == Init => ChildInv
<1> SUFFICES ASSUME Init
             PROVE  ChildInv
  OBVIOUS
<1>1. Root \in Task
  BY TasksAssumption DEF Task, Root
<1>2. TypeOK
  <2>1. guest.kills \in Nat
    BY GuestsAssumption DEF Init, Guest
  <2>2. guest \in Guests /\ loses_msg \in BOOLEAN /\ aborted \in BOOLEAN
    BY ZenonT(30) DEF Init
  <2> QED
    BY <1>1, <2>1, <2>2 DEF Init, TypeOK
<1>3. \A t \in Task : Reports(t) /\ Calls(t) /\ (tgid[t] # t => sp[t] = t)
  BY DEF Init, Reports, Calls, Fresh, Traced
<1>4. \A s, t \in Task : Stacks(s, t)
  BY DEF Init, Stacks, Fresh, Traced
<1>5. InheritsFromCreator /\ \A c \in Task : HasCreator(c)
  BY DEF Init, InheritsFromCreator, HasCreator, Fresh, Traced
<1> QED
  BY <1>2, <1>3, <1>4, <1>5 DEF ChildInv, AttachedOnce, Init

\* One more task can be killed as long as the guest kills one.
LEMMA OneMoreKill ==
    ASSUME TypeOK, NEW t \in Task, Kill(t)
    PROVE  kills' \in 0 .. guest.kills
<1>1. guest.kills \in Nat
  BY GuestsAssumption DEF TypeOK, Guest
<1> QED
  BY SMTT(30), <1>1 DEF Kill, TypeOK

\* A call is not the absence of a call.
LEMMA CallRecord ==
    ASSUME NEW c \in Task, NEW f \in Flag
    PROVE  /\ [child |-> c, flag |-> f] # NULL
           /\ [child |-> c, flag |-> f].child = c /\ [child |-> c, flag |-> f].flag = f
BY TasksAssumption

--------------------------------------------------------------------------------
(* The handlers of PRoot, pointwise.                                        *)

\* What a handler of t's report leaves: the tasks of new are attached as att says, stops and r
\* are what it makes of sigstop and run before it restarts those of them that are held.
Handled(t, new, att, stops, r) ==
    /\ UNCHANGED <<guest, loses_msg, creator, tgid, ppid, sp, vm_released, kills>>
    /\ \A x \in Task : report'[x] = IF x = t THEN "none" ELSE report[x]
    /\ exe' = exe \cup new /\ new \cap exe = {} /\ ~aborted'
    /\ \A x \in new : /\ x \in Task /\ run[x] # "unborn"
                      /\ ~loses_msg => creator[x] = t
                      /\ NoParent => att[x] = creator[x]
    /\ \A x \in Task :
          /\ parent'[x] = IF x \in new THEN att[x] ELSE parent[x]
          /\ sigstop'[x] = IF x \in new /\ stops[x] = "PENDING" THEN "ALLOWED" ELSE stops[x]
          /\ run'[x] = IF x \in new /\ stops[x] = "PENDING" /\ r[x] = "stopped" THEN "running"
                       ELSE r[x]

\* The reports a handler can be for, and what it then does to t itself.
Outcome(t, stops, r) ==
    /\ \A x \in Task \ {t} : stops[x] = sigstop[x] /\ r[x] = run[x] /\ call'[x] = call[x]
    /\ \/ /\ report[t] = "FORK" /\ r[t] = "forking" /\ stops[t] = sigstop[t]
          /\ call'[t] = call[t]
       \/ /\ report[t] = "SIGSTOP" /\ t \in exe /\ r[t] = "running" /\ stops[t] = "ALLOWED"
          /\ call'[t] = call[t]
       \/ /\ report[t] = "SIGSTOP" /\ t \notin exe /\ r[t] = "stopped" /\ stops[t] = "PENDING"
          /\ call'[t] = call[t]
       \/ /\ report[t] = "SYSEXIT" /\ r[t] = "running" /\ stops[t] = sigstop[t]
          /\ call'[t] = NULL

\* A handler makes no task unborn, and attaches those that have not run only.
LEMMA HandledFresh ==
    ASSUME NEW t \in Task, NEW new, NEW att, NEW stops, NEW r, NEW x \in Task, Reports(t),
           Handled(t, new, att, stops, r), Outcome(t, stops, r)
    PROVE  /\ run'[x] = "unborn" <=> run[x] = "unborn"
           /\ run'[x] = "dead" <=> run[x] = "dead"
           /\ Fresh(x)' <=> Fresh(x) /\ x \notin new
<1>1. run[t] = "stopped"
  BY DEF Outcome, Reports
<1>2. (run'[x] = "unborn" <=> run[x] = "unborn") /\ (run'[x] = "dead" <=> run[x] = "dead")
  <2>1. CASE x = t
    BY <1>1, <2>1 DEF Outcome, Handled
  <2>2. CASE x # t
    <3>1. r[x] = run[x]
      BY <2>2 DEF Outcome
    <3> QED
      BY <2>2, <3>1 DEF Handled
  <2> QED
    BY <2>1, <2>2
<1>3. Traced(x)' <=> Traced(x)
  <2>1. CASE x = t
    BY <1>1, <1>2, <2>1 DEF Traced
  <2>2. CASE x # t
    <3>1. report'[x] = report[x]
      BY <2>2 DEF Handled
    <3> QED
      BY <1>2, <3>1 DEF Traced
  <2> QED
    BY <2>1, <2>2
<1> QED
  BY <1>2, <1>3 DEF Fresh, Handled

\* The reports of every task still fit what it does.
LEMMA HandledReports ==
    ASSUME NEW t \in Task, NEW new, NEW att, NEW stops, NEW r, NEW x \in Task,
           Handled(t, new, att, stops, r), Outcome(t, stops, r), Reports(t), Reports(x)
    PROVE  Reports(x)'
<1>1. /\ run'[x] = "unborn" <=> run[x] = "unborn"
      /\ Fresh(x)' <=> Fresh(x) /\ x \notin new
  BY SMTT(30), HandledFresh
<1>2. /\ x \in exe' <=> x \in exe \/ x \in new
      /\ x \in new => x \notin exe /\ run[x] # "unborn"
      /\ report'[x] = IF x = t THEN "none" ELSE report[x]
      /\ parent'[x] = IF x \in new THEN att[x] ELSE parent[x]
      /\ sigstop'[x] = IF x \in new /\ stops[x] = "PENDING" THEN "ALLOWED" ELSE stops[x]
      /\ run'[x] = IF x \in new /\ stops[x] = "PENDING" /\ r[x] = "stopped" THEN "running"
                   ELSE r[x]
  BY DEF Handled
<1>3. CASE x # t
  <2>1. stops[x] = sigstop[x] /\ r[x] = run[x] /\ call'[x] = call[x]
    BY <1>3 DEF Outcome
  <2> QED
    BY <1>1, <1>2, <1>3, <2>1 DEF Reports
<1>4. CASE x = t
  <2>1. run[t] = "stopped"
    BY DEF Outcome, Reports
  <2>2. CASE report[t] = "FORK"
    <3>1. r[t] = "forking" /\ stops[t] = sigstop[t] /\ call'[t] = call[t]
      BY <2>2 DEF Outcome
    <3> QED
      BY <1>1, <1>2, <1>4, <2>1, <2>2, <3>1 DEF Reports
  <2>3. CASE report[t] = "SIGSTOP" /\ t \in exe
    <3>1. r[t] = "running" /\ stops[t] = "ALLOWED" /\ call'[t] = call[t]
      BY <2>3 DEF Outcome
    <3> QED
      BY <1>1, <1>2, <1>4, <2>1, <2>3, <3>1 DEF Reports
  <2>4. CASE report[t] = "SIGSTOP" /\ t \notin exe
    <3>1. r[t] = "stopped" /\ stops[t] = "PENDING" /\ call'[t] = call[t]
      BY <2>4 DEF Outcome
    <3>2. Fresh(t)
      BY <2>1, <2>4 DEF Fresh, Traced
    <3> QED
      BY <1>1, <1>2, <1>4, <2>1, <2>4, <3>1, <3>2 DEF Reports
  <2>5. CASE report[t] = "SYSEXIT"
    <3>1. r[t] = "running" /\ stops[t] = sigstop[t] /\ call'[t] = NULL
      BY <2>5 DEF Outcome
    <3> QED
      BY <1>1, <1>2, <1>4, <2>1, <2>5, <3>1 DEF Reports
  <2> QED
    BY <2>2, <2>3, <2>4, <2>5 DEF Outcome
<1> QED
  BY <1>3, <1>4

\* A task that stays in its call is not restarted.
LEMMA InCallStays ==
    ASSUME NEW t \in Task, NEW new, NEW att, NEW stops, NEW r, NEW x \in Task,
           Handled(t, new, att, stops, r), Outcome(t, stops, r), Reports(t), Reports(x),
           call[x] # NULL, call'[x] # NULL, run[x] # "running"
    PROVE  run'[x] # "running" /\ call'[x] = call[x]
<1>1. /\ x \in new => x \notin exe
      /\ run'[x] = IF x \in new /\ stops[x] = "PENDING" /\ r[x] = "stopped" THEN "running"
                   ELSE r[x]
  BY DEF Handled
<1>2. CASE x # t
  <2>1. stops[x] = sigstop[x] /\ r[x] = run[x] /\ call'[x] = call[x]
    BY <1>2 DEF Outcome
  <2> QED
    BY <1>1, <2>1 DEF Reports
<1>3. CASE x = t
  <2>1. report[t] = "FORK" /\ r[t] = "forking" /\ call'[t] = call[t]
    BY <1>3 DEF Outcome, Reports
  <2> QED
    BY <1>1, <1>3, <2>1
<1> QED
  BY <1>2, <1>3

\* What a handler of t's report makes of the children PRoot looks for: t may join their
\* creators, and who leaves them has no child left to attach.
Awaits(t, new) ==
    /\ \A x \in pending_child' :
          \/ /\ x \in pending_child /\ (x = t => report[t] = "SIGSTOP")
             /\ pending_flag'[x] = pending_flag[x] /\ pending_sp'[x] = pending_sp[x]
          \/ /\ x = t /\ report[t] = "FORK" /\ loses_msg
             /\ pending_flag'[x] = call[x].flag
             /\ call[x].flag = "vfork" => pending_sp'[x] = sp[x]
    /\ NoParent => \A q \in Task : q \in pending_child \/ (q = t /\ report[t] = "FORK") =>
          q \in pending_child' \/ call[q].child \in new \/ ~Fresh(call[q].child)

\* The calls that tasks are in stay as they should be.
LEMMA HandledCalls ==
    ASSUME NEW t \in Task, NEW new, NEW att, NEW stops, NEW r, NEW x \in Task,
           Handled(t, new, att, stops, r), Outcome(t, stops, r), Awaits(t, new),
           Reports(t), Reports(x), Calls(t), Calls(x), call[x] # NULL => call[x].child \in Task
    PROVE  Calls(x)'
<1>1. call'[x] # NULL => call'[x] = call[x]
  BY DEF Outcome
<1>2. guest' = guest /\ loses_msg' = loses_msg /\ creator' = creator /\ sp' = sp
  BY DEF Handled
<1>3. call'[x] # NULL => run'[call[x].child] # "unborn" /\ creator[call[x].child] = x
  <2> SUFFICES ASSUME call'[x] # NULL
               PROVE  run'[call[x].child] # "unborn" /\ creator[call[x].child] = x
    OBVIOUS
  <2>1. run[call[x].child] # "unborn" /\ call[x].child \in Task /\ creator[call[x].child] = x
    BY <1>1 DEF Calls
  <2> QED
    BY SMTT(30), <2>1, HandledFresh
<1>4. ASSUME call'[x] # NULL, ~loses_msg, report'[x] = "FORK"
      PROVE  call[x].child \notin exe'
  <2>1. x # t /\ report[x] = "FORK"
    BY <1>4 DEF Handled
  <2>2. call[x].child \notin exe /\ creator[call[x].child] = x
    BY <1>1, <1>4, <2>1 DEF Calls
  <2> QED
    BY <1>4, <2>1, <2>2 DEF Handled
<1>5. ASSUME x \in pending_child'
      PROVE  /\ loses_msg /\ call'[x] # NULL /\ run'[x] # "running"
             /\ pending_flag'[x] = call'[x].flag
             /\ call'[x].flag = "vfork" => pending_sp'[x] = sp[x]
  <2>1. CASE x \in pending_child /\ (x = t => report[t] = "SIGSTOP")
    <3>1. /\ loses_msg /\ call[x] # NULL /\ run[x] # "running"
          /\ pending_flag[x] = call[x].flag
          /\ call[x].flag = "vfork" => pending_sp[x] = sp[x]
      BY <2>1 DEF Calls
    <3>2. x # t
      BY <2>1, <3>1 DEF Reports
    <3>3. call'[x] = call[x]
      BY <3>2 DEF Outcome
    <3>4. run'[x] # "running"
      BY <3>1, <3>3, InCallStays
    <3>5. pending_flag'[x] = pending_flag[x] /\ pending_sp'[x] = pending_sp[x]
      BY <1>5, <3>2 DEF Awaits
    <3> QED
      BY <3>1, <3>3, <3>4, <3>5
  <2>2. CASE x = t /\ report[t] = "FORK" /\ loses_msg
    <3>1. call[x] # NULL /\ run[x] # "running" /\ call'[x] = call[x]
      BY <2>2 DEF Outcome, Reports
    <3>2. run'[x] # "running"
      BY <3>1, InCallStays
    <3>3. pending_flag'[x] = call[x].flag /\ (call[x].flag = "vfork" => pending_sp'[x] = sp[x])
      BY <1>5, <2>2 DEF Awaits
    <3> QED
      BY <2>2, <3>1, <3>2, <3>3
  <2> QED
    BY <1>5, <2>1, <2>2 DEF Awaits
<1>6. call'[x] # NULL => call[x].flag \in guest.flags
  BY <1>1 DEF Calls
<1> QED
  BY <1>1, <1>2, <1>3, <1>4, <1>5, <1>6 DEF Calls

\* The creator of a task that stays unattached is still in its call.
LEMMA HandledCreator ==
    ASSUME NEW t \in Task, NEW new, NEW att, NEW stops, NEW r, NEW x \in Task, NoParent,
           Handled(t, new, att, stops, r), Outcome(t, stops, r), Awaits(t, new),
           \A y \in Task : Reports(y), HasCreator(x)
    PROVE  HasCreator(x)'
<1> SUFFICES ASSUME Fresh(x)'
             PROVE  HasCreator(x)'
  BY DEF HasCreator
<1>1. Fresh(x) /\ x \notin new
  BY HandledFresh
<1>2. PICK q : q = creator[x]
  OBVIOUS
<1>3. /\ q \in Task /\ call[q] # NULL /\ call[q].child = x /\ run[q] # "running"
      /\ report[q] = "FORK" \/ q \in pending_child \/ run[q] = "dead"
      /\ IF call[q].flag = "thread" THEN sp[x] = x ELSE ppid[x] = tgid[q] /\ sp[x] = sp[q]
  BY <1>1, <1>2 DEF HasCreator
<1>4. q \in pending_child \/ (q = t /\ report[t] = "FORK") => q \in pending_child'
  BY <1>1, <1>3 DEF Awaits
<1>5. call'[q] # NULL
  <2>1. CASE q = t /\ report[t] = "SYSEXIT"
    <3>1. q \in pending_child
      BY <1>3, <2>1 DEF Reports
    <3>2. q \in pending_child'
      BY <1>4, <3>1
    <3> QED
      BY <2>1, <3>2 DEF Awaits
  <2>2. CASE ~(q = t /\ report[t] = "SYSEXIT")
    BY <1>3, <2>2 DEF Outcome
  <2> QED
    BY <2>1, <2>2
<1>6. run'[q] # "running" /\ call'[q] = call[q]
  BY <1>3, <1>5, InCallStays
<1>7. run[q] = "dead" => run'[q] = "dead"
  BY <1>3, HandledFresh
<1>8. report'[q] = "FORK" \/ q \in pending_child' \/ run'[q] = "dead"
  BY <1>3, <1>4, <1>7 DEF Handled
<1>9. creator' = creator /\ tgid' = tgid /\ ppid' = ppid /\ sp' = sp
  BY DEF Handled
<1> QED
  BY <1>2, <1>3, <1>6, <1>8, <1>9 DEF HasCreator

\* Every handler keeps the invariant.
LEMMA HandledKeeps ==
    ASSUME NEW t \in Task, NEW new, NEW att, NEW stops, NEW r, ChildInv, TypeOK',
           Handled(t, new, att, stops, r), Outcome(t, stops, r), Awaits(t, new)
    PROVE  ChildInv'
<1>1. \A x \in Task : /\ Reports(x) /\ Calls(x) /\ (tgid[x] # x => sp[x] = x)
                      /\ call[x] # NULL => call[x].child \in Task
  BY DEF ChildInv, TypeOK
<1>2. \A x \in Task : Reports(x)' /\ Calls(x)'
  <2> TAKE x \in Task
  <2>1. Reports(x)'
    BY <1>1, HandledReports
  <2>2. Calls(x)'
    BY <1>1, HandledCalls
  <2> QED
    BY <2>1, <2>2
<1>3. /\ guest' = guest /\ creator' = creator /\ tgid' = tgid /\ sp' = sp
  BY DEF Handled
<1>4. \A s, x \in Task : Stacks(s, x)'
  <2> TAKE s, x \in Task
  <2>1. Stacks(s, x)
    BY DEF ChildInv
  <2>2. (run'[x] = "unborn" => run[x] = "unborn") /\ (Fresh(x)' => Fresh(x))
    BY SMTT(30), <1>1, HandledFresh
  <2> QED
    BY <1>3, <2>1, <2>2 DEF Stacks
<1>5. ASSUME NoParent
      PROVE  InheritsFromCreator' /\ \A c \in Task : HasCreator(c)'
  <2>1. InheritsFromCreator'
    BY <1>3, <1>5 DEF Handled, InheritsFromCreator, ChildInv
  <2>2. ASSUME NEW c \in Task
        PROVE  HasCreator(c)'
    <3>1. HasCreator(c)
      BY <1>5 DEF ChildInv
    <3> QED
      BY <1>1, <1>5, <3>1, HandledCreator
  <2> QED
    BY <2>1, <2>2
<1>6. AttachedOnce'
  BY DEF Handled, AttachedOnce
<1>7. NoParent' <=> NoParent
  BY <1>3 DEF NoParent
<1>8. \A x \in Task : tgid'[x] # x => sp'[x] = x
  BY <1>1, <1>3
<1> QED
  BY <1>2, <1>4, <1>5, <1>6, <1>7, <1>8 DEF ChildInv

--------------------------------------------------------------------------------
(* adopt_held_children() finds creators.                                    *)

\* The stack pointer tells the creator of a held child from the other tasks in vfork(2) of its
\* process.
LEMMA OnlyItsCreator ==
    ASSUME ChildInv, NoParent, NEW c \in Task, Fresh(c), NEW p \in Task, p \in exe,
           call[p] # NULL, ppid[c] = tgid[p], sp[c] = sp[p]
    PROVE  creator[c] = p
<1>1. PICK q : q = creator[c]
  OBVIOUS
<1>2. /\ q \in Task /\ call[q] # NULL /\ call[q].child = c
      /\ IF call[q].flag = "thread" THEN sp[c] = c ELSE ppid[c] = tgid[q] /\ sp[c] = sp[q]
  BY <1>1 DEF ChildInv, HasCreator
<1>3. p # c /\ sp[p] # c
  BY DEF Fresh, ChildInv, Stacks
<1>4. tgid[p] = tgid[q] /\ sp[p] = sp[q]
  BY <1>2, <1>3
<1>5. Stacks(p, q)
  BY <1>2 DEF ChildInv
<1> QED
  BY <1>1, <1>4, <1>5 DEF Stacks

\* The children held are new, and the creators looked at are in their calls.
HeldFresh(stops) == \A x \in Task : stops[x] = "PENDING" /\ x \notin exe => Fresh(x)
InCall(pending, flag, stack) ==
    \A p \in pending : /\ loses_msg /\ call[p] # NULL /\ flag[p] = call[p].flag
                       /\ call[p].flag \in guest.flags
                       /\ flag[p] = "vfork" => stack[p] = sp[p]

\* Some held children are attached, each to its creator.
Adopted(pending, stops, r) ==
    \E new \in SUBSET Task : \E m \in [new -> Task] :
       /\ attach_child(m, stops, r)
       /\ pending_child' = pending \ {m[c] : c \in new}
       /\ \A c \in new : /\ Fresh(c) /\ m[c] \in pending /\ loses_msg
                         /\ NoParent => m[c] = creator[c]

\* What adopt_held_children() does: it attaches held children, each to its creator.
LEMMA AdoptFacts ==
    ASSUME ChildInv, NEW pending \in SUBSET Task, NEW flag, NEW stack, NEW stops, NEW r,
           HeldFresh(stops), InCall(pending, flag, stack),
           adopt_held_children(pending, flag, stack, stops, r)
    PROVE  Adopted(pending, stops, r)
<1> DEFINE held == {c \in Task \ exe : stops[c] = "PENDING"}
           callers == {p \in pending : IsVfork(flag[p]) /\ p \in exe}
<1>1. PICK found \in SUBSET held : \E m \in [found -> callers] :
          /\ \A c \in found : is_pending_child_of(m[c], c, flag[m[c]], stack[m[c]])
          /\ attach_child(m, stops, r)
          /\ pending_child' = pending \ {m[c] : c \in found}
  BY SMTT(30) DEF adopt_held_children
<1>2. PICK m \in [found -> callers] :
          /\ \A c \in found : is_pending_child_of(m[c], c, flag[m[c]], stack[m[c]])
          /\ attach_child(m, stops, r)
          /\ pending_child' = pending \ {m[c] : c \in found}
  BY <1>1
<1>3. ASSUME NEW c \in found
      PROVE  /\ Fresh(c) /\ m[c] \in pending /\ loses_msg
             /\ NoParent => m[c] = creator[c]
  <2>1. c \in Task /\ c \notin exe /\ stops[c] = "PENDING"
    BY <1>1, <1>3
  <2>2. Fresh(c)
    BY <2>1 DEF HeldFresh
  <2>3. PICK p : p = m[c]
    OBVIOUS
  <2>4. p \in pending /\ IsVfork(flag[p]) /\ p \in exe /\ p \in Task
    BY <1>2, <1>3, <2>3
  <2>5. /\ loses_msg /\ call[p] # NULL /\ flag[p] = call[p].flag
        /\ call[p].flag \in guest.flags
        /\ flag[p] = "vfork" => stack[p] = sp[p]
    BY <2>4 DEF InCall
  <2>6. is_pending_child_of(p, c, flag[p], stack[p])
    BY <1>2, <1>3, <2>3
  <2>7. ASSUME NoParent
        PROVE  p = creator[c]
    <3>1. flag[p] = "vfork"
      BY <2>4, <2>5, <2>7 DEF IsVfork, NoParent
    <3>2. ppid[c] = tgid[p] /\ sp[c] = sp[p]
      BY <2>5, <2>6, <3>1 DEF is_pending_child_of
    <3> QED
      BY <2>1, <2>2, <2>4, <2>5, <2>7, <3>2, OnlyItsCreator
  <2> QED
    BY <2>2, <2>3, <2>4, <2>5, <2>7
<1>4. found \in SUBSET Task /\ m \in [found -> Task]
  <2>1. callers \subseteq Task /\ held \subseteq Task
    OBVIOUS
  <2> HIDE DEF callers, held
  <2> QED
    BY <1>1, <1>2, <2>1
<1> QED
  BY <1>2, <1>3, <1>4 DEF Adopted

\* attach_child() is what the handlers have in common.
LEMMA AttachHandles ==
    ASSUME TypeOK, AttachedOnce, NEW t \in Task, NEW new \in SUBSET Task, NEW att \in [new -> Task],
           NEW stops, NEW r, attach_child(att, stops, r), report' = [report EXCEPT ![t] = "none"],
           UNCHANGED <<guest, loses_msg, creator, tgid, ppid, sp, vm_released, kills>>,
           \A x \in new : /\ x \notin exe /\ run[x] # "unborn"
                          /\ ~loses_msg => creator[x] = t
                          /\ NoParent => att[x] = creator[x]
    PROVE  Handled(t, new, att, stops, r)
<1>1. DOMAIN att = new
  OBVIOUS
<1>2. \A x \in Task : report'[x] = IF x = t THEN "none" ELSE report[x]
  BY DEF TypeOK
<1>3. new \cap exe = {}
  OBVIOUS
<1>4. /\ exe' = exe \cup new /\ ~aborted'
      /\ \A x \in Task :
          /\ parent'[x] = IF x \in new THEN att[x] ELSE parent[x]
          /\ sigstop'[x] = IF x \in new /\ stops[x] = "PENDING" THEN "ALLOWED" ELSE stops[x]
          /\ run'[x] = IF x \in new /\ stops[x] = "PENDING" /\ r[x] = "stopped" THEN "running"
                       ELSE r[x]
  BY ZenonT(30), <1>1, <1>3 DEF attach_child
<1> QED
  BY <1>2, <1>3, <1>4 DEF Handled

\* The types of what attach_child() leaves.
LEMMA AttachTypes ==
    ASSUME TypeOK, NEW new \in SUBSET Task, NEW att \in [new -> Task], NEW stops, NEW r,
           stops \in [Task -> {"IGNORED", "ALLOWED", "PENDING"}],
           r \in [Task -> {"unborn", "running", "forking", "stopped", "dead"}],
           attach_child(att, stops, r)
    PROVE  /\ run' \in [Task -> {"unborn", "running", "forking", "stopped", "dead"}]
           /\ sigstop' \in [Task -> {"IGNORED", "ALLOWED", "PENDING"}]
           /\ parent' \in [Task -> Task \cup {NULL}]
           /\ exe' \subseteq known' /\ known' \subseteq Task /\ aborted' \in BOOLEAN
<1>1. DOMAIN att = new
  OBVIOUS
<1>2. exe' \subseteq known' /\ known' \subseteq Task /\ aborted' \in BOOLEAN
  BY <1>1 DEF attach_child, TypeOK
<1>3. parent' \in [Task -> Task \cup {NULL}]
  BY <1>1 DEF attach_child, TypeOK
<1>4. sigstop' \in [Task -> {"IGNORED", "ALLOWED", "PENDING"}]
  BY <1>1 DEF attach_child
<1>5. run' \in [Task -> {"unborn", "running", "forking", "stopped", "dead"}]
  BY <1>1 DEF attach_child
<1> QED
  BY <1>2, <1>3, <1>4, <1>5

--------------------------------------------------------------------------------
(* The handlers keep the invariant.                                         *)

\* restart_tracee() restarts a stopped task and leaves the others alone.
LEMMA Restarts ==
    ASSUME TypeOK, NEW t \in Task, NEW how \in {"running", "forking"}, run[t] = "stopped"
    PROVE  /\ restart_tracee(t, how) \in [Task -> {"unborn", "running", "forking", "stopped", "dead"}]
           /\ restart_tracee(t, how)[t] = how
           /\ \A x \in Task : x # t => restart_tracee(t, how)[x] = run[x]
BY DEF TypeOK, restart_tracee

\* new_child() keeps the invariant, whether the kernel gives the child's pid or not.
LEMMA NewChildKeeps ==
    ASSUME ChildInv, NEW t \in Task, new_child(t)
    PROVE  ChildInv'
<1>types. TypeOK
  BY DEF ChildInv
<1>tasks. \A x \in Task : Reports(x) /\ Calls(x) /\ (tgid[x] # x => sp[x] = x)
  BY DEF ChildInv
<1>stacks. \A s, x \in Task : Stacks(s, x)
  BY DEF ChildInv
<1>creators. NoParent => InheritsFromCreator /\ \A c \in Task : HasCreator(c)
  BY DEF ChildInv
<1>once. AttachedOnce
  BY DEF ChildInv
<1>1. report[t] = "FORK" /\ run[t] = "stopped" /\ t \in exe /\ call[t] # NULL
  BY <1>tasks DEF new_child, Reports
<1>2. call[t] \in [child : Task, flag : Flag]
  BY <1>types, <1>1 DEF TypeOK
<1>3. PICK c : c = call[t].child
  OBVIOUS
<1>4. /\ c \in Task /\ run[c] # "unborn" /\ creator[c] = t /\ call[t].flag \in guest.flags
      /\ ~loses_msg => c \notin exe
  BY <1>tasks, <1>1, <1>2, <1>3 DEF Calls
<1>5. PICK r : r = restart_tracee(t, "forking")
  OBVIOUS
<1>6. /\ r \in [Task -> {"unborn", "running", "forking", "stopped", "dead"}] /\ r[t] = "forking"
      /\ \A x \in Task : x # t => r[x] = run[x]
  BY <1>types, <1>1, <1>5, Restarts
<1>7. report' = [report EXCEPT ![t] = "none"] /\ UNCHANGED kernel_vars
  BY DEF new_child, Waited
<1>8. UNCHANGED <<guest, loses_msg, creator, tgid, ppid, sp, vm_released, kills>> /\ call' = call
  BY <1>7 DEF kernel_vars
<1>9. Outcome(t, sigstop, r)
  BY <1>1, <1>6, <1>8 DEF Outcome
<1>10. CASE ~loses_msg
  <2>1. PICK att : att = [x \in {c} |-> t]
    BY ZenonT(30)
  <2>2. /\ attach_child(att, sigstop, r)
        /\ UNCHANGED <<pending_child, pending_flag, pending_sp>>
    BY <1>3, <1>5, <1>10, <2>1 DEF new_child
  <2>3. att \in [{c} -> Task] /\ {c} \in SUBSET Task /\ att[c] = t
    BY <1>4, <2>1
  <2>4. Handled(t, {c}, att, sigstop, r)
    BY ZenonT(30), <1>types, <1>once, <1>4, <1>7, <1>8, <1>10, <2>2, <2>3, AttachHandles
  <2>5. Awaits(t, {c})
    BY <1>tasks, <1>1, <1>3, <1>10, <2>2 DEF Awaits, Calls, TypeOK
  <2>6. TypeOK'
    <3>1. sigstop \in [Task -> {"IGNORED", "ALLOWED", "PENDING"}]
      BY <1>types DEF TypeOK
    <3>2. /\ run' \in [Task -> {"unborn", "running", "forking", "stopped", "dead"}]
          /\ sigstop' \in [Task -> {"IGNORED", "ALLOWED", "PENDING"}]
          /\ parent' \in [Task -> Task \cup {NULL}]
          /\ exe' \subseteq known' /\ known' \subseteq Task /\ aborted' \in BOOLEAN
      BY <1>types, <1>6, <2>2, <2>3, <3>1, AttachTypes
    <3> QED
      BY ZenonT(30), <1>types, <1>7, <1>8, <2>2, <3>2 DEF TypeOK
  <2> QED
    BY <1>9, <2>4, <2>5, <2>6, HandledKeeps
<1>11. CASE loses_msg
  <2>1. PICK flag : flag = [pending_flag EXCEPT ![t] = call[t].flag]
    BY ZenonT(30)
  <2>2. PICK stack : stack = [pending_sp EXCEPT ![t] = new_child_stack(t)]
    BY ZenonT(30)
  <2>3. /\ adopt_held_children(pending_child \cup {t}, flag, stack, sigstop, r)
        /\ pending_flag' = flag /\ pending_sp' = stack
    BY <1>5, <1>11, <2>1, <2>2 DEF new_child
  <2>4. /\ flag \in [Task -> Flag \cup {NULL}] /\ flag[t] = call[t].flag
        /\ \A x \in Task : x # t => flag[x] = pending_flag[x]
    BY <1>types, <1>2, <2>1 DEF TypeOK
  <2>5. new_child_stack(t) \in Task /\ (call[t].flag = "vfork" => new_child_stack(t) = sp[t])
    BY <1>types, <1>2 DEF TypeOK, new_child_stack
  <2>6. /\ stack \in [Task -> Task \cup {NULL}] /\ (call[t].flag = "vfork" => stack[t] = sp[t])
        /\ \A x \in Task : x # t => stack[x] = pending_sp[x]
    BY <1>types, <2>2, <2>5 DEF TypeOK
  <2>7. HeldFresh(sigstop)
    BY <1>tasks DEF Reports, HeldFresh
  <2>8. ASSUME NEW p \in pending_child \cup {t}
        PROVE  /\ loses_msg /\ call[p] # NULL /\ flag[p] = call[p].flag
               /\ call[p].flag \in guest.flags
               /\ flag[p] = "vfork" => stack[p] = sp[p]
    <3>1. CASE p = t
      BY <1>1, <1>4, <1>11, <2>4, <2>6, <3>1
    <3>2. CASE p # t /\ p \in pending_child
      <4>1. p \in Task
        BY <1>types, <3>2 DEF TypeOK
      <4>2. flag[p] = pending_flag[p] /\ stack[p] = pending_sp[p] /\ Calls(p)
        BY <1>tasks, <2>4, <2>6, <3>2, <4>1
      <4> QED
        BY <3>2, <4>2 DEF Calls
    <3> QED
      BY <3>1, <3>2
  <2>9. pending_child \cup {t} \in SUBSET Task
    BY <1>types DEF TypeOK
  <2>10. PICK new \in SUBSET Task : \E m \in [new -> Task] :
              /\ attach_child(m, sigstop, r)
              /\ pending_child' = (pending_child \cup {t}) \ {m[d] : d \in new}
              /\ \A d \in new : /\ Fresh(d) /\ m[d] \in pending_child \cup {t} /\ loses_msg
                                /\ NoParent => m[d] = creator[d]
    <3>1. InCall(pending_child \cup {t}, flag, stack)
      BY <2>8 DEF InCall
    <3>2. Adopted(pending_child \cup {t}, sigstop, r)
      <4> HIDE DEF ChildInv
      <4> QED
        BY ZenonT(30), <2>3, <2>7, <2>9, <3>1, AdoptFacts
    <3> QED
      BY ZenonT(30), <3>2 DEF Adopted
  <2>11. PICK m \in [new -> Task] :
              /\ attach_child(m, sigstop, r)
              /\ pending_child' = (pending_child \cup {t}) \ {m[d] : d \in new}
              /\ \A d \in new : /\ Fresh(d) /\ m[d] \in pending_child \cup {t} /\ loses_msg
                                /\ NoParent => m[d] = creator[d]
    BY <2>10
  <2>12. Handled(t, new, m, sigstop, r)
    <3>1. \A x \in new : x \notin exe /\ run[x] # "unborn"
      BY <2>11 DEF Fresh, Traced
    <3> QED
      BY ZenonT(30), <1>types, <1>once, <1>7, <1>8, <1>11, <2>11, <3>1, AttachHandles
  <2>13. Awaits(t, new)
    <3>1. ASSUME NEW x \in pending_child'
          PROVE  \/ /\ x \in pending_child /\ (x = t => report[t] = "SIGSTOP")
                    /\ pending_flag'[x] = pending_flag[x] /\ pending_sp'[x] = pending_sp[x]
                 \/ /\ x = t /\ report[t] = "FORK" /\ loses_msg
                    /\ pending_flag'[x] = call[x].flag
                    /\ call[x].flag = "vfork" => pending_sp'[x] = sp[x]
      <4>1. x \in pending_child \/ x = t
        BY <2>11
      <4>2. x \in Task
        BY <2>9, <4>1
      <4> QED
        BY <1>1, <1>11, <2>3, <2>4, <2>6, <4>1, <4>2
    <3>2. ASSUME NoParent, NEW q \in Task, q \in pending_child \/ (q = t /\ report[t] = "FORK")
          PROVE  q \in pending_child' \/ call[q].child \in new \/ ~Fresh(call[q].child)
      <4>1. CASE \E d \in new : m[d] = q
        <5>1. PICK d \in new : m[d] = q
          BY <4>1
        <5>2. creator[d] = q /\ HasCreator(d) /\ Fresh(d)
          BY <1>creators, <2>11, <3>2, <5>1
        <5> QED
          BY <5>1, <5>2 DEF HasCreator
      <4>2. CASE ~ \E d \in new : m[d] = q
        BY <2>11, <3>2, <4>2
      <4> QED
        BY <4>1, <4>2
    <3> QED
      BY <3>1, <3>2 DEF Awaits
  <2>14. TypeOK'
    <3>1. sigstop \in [Task -> {"IGNORED", "ALLOWED", "PENDING"}]
      BY <1>types DEF TypeOK
    <3>2. /\ run' \in [Task -> {"unborn", "running", "forking", "stopped", "dead"}]
          /\ sigstop' \in [Task -> {"IGNORED", "ALLOWED", "PENDING"}]
          /\ parent' \in [Task -> Task \cup {NULL}]
          /\ exe' \subseteq known' /\ known' \subseteq Task /\ aborted' \in BOOLEAN
      BY <1>types, <1>6, <2>11, <3>1, AttachTypes
    <3>3. pending_child' \subseteq Task
      BY <2>9, <2>11
    <3> QED
      BY ZenonT(30), <1>types, <1>7, <1>8, <2>3, <2>4, <2>6, <3>2, <3>3 DEF TypeOK
  <2> QED
    BY <1>9, <2>12, <2>13, <2>14, HandledKeeps
<1> QED
  BY <1>10, <1>11

\* The first SIGSTOP of a task keeps the invariant.
LEMMA FirstStopKeeps ==
    ASSUME ChildInv, NEW t \in Task, FirstStop(t)
    PROVE  ChildInv'
<1>types. TypeOK
  BY DEF ChildInv
<1>tasks. \A x \in Task : Reports(x) /\ Calls(x) /\ (tgid[x] # x => sp[x] = x)
  BY DEF ChildInv
<1>stacks. \A s, x \in Task : Stacks(s, x)
  BY DEF ChildInv
<1>creators. NoParent => InheritsFromCreator /\ \A c \in Task : HasCreator(c)
  BY DEF ChildInv
<1>once. AttachedOnce
  BY DEF ChildInv
<1>1. report[t] = "SIGSTOP" /\ run[t] = "stopped" /\ call[t] = NULL
  BY <1>tasks DEF FirstStop, Reports
<1>2. report' = [report EXCEPT ![t] = "none"] /\ UNCHANGED kernel_vars
  BY DEF FirstStop, Waited
<1>3. UNCHANGED <<guest, loses_msg, creator, tgid, ppid, sp, vm_released, kills>> /\ call' = call
  BY <1>2 DEF kernel_vars
<1>4. pending_flag' = pending_flag /\ pending_sp' = pending_sp
  BY DEF FirstStop
<1>5. CASE t \in exe
  <2>1. PICK stops : stops = [sigstop EXCEPT ![t] = "ALLOWED"]
    BY ZenonT(30)
  <2>2. /\ stops \in [Task -> {"IGNORED", "ALLOWED", "PENDING"}] /\ stops[t] = "ALLOWED"
        /\ \A x \in Task : x # t => stops[x] = sigstop[x]
    BY <1>types, <2>1 DEF TypeOK
  <2>3. PICK r : r = restart_tracee(t, "running")
    OBVIOUS
  <2>4. /\ r \in [Task -> {"unborn", "running", "forking", "stopped", "dead"}] /\ r[t] = "running"
        /\ \A x \in Task : x # t => r[x] = run[x]
    BY <1>types, <1>1, <2>3, Restarts
  <2>5. sigstop' = stops /\ run' = r /\ UNCHANGED <<known, exe, parent, pending_child, aborted>>
    BY <1>5, <2>1, <2>3 DEF FirstStop
  <2>6. Outcome(t, stops, r)
    BY <1>1, <1>3, <1>5, <2>2, <2>4 DEF Outcome
  <2>7. Handled(t, {}, parent, stops, r)
    <3>1. \A x \in Task : report'[x] = IF x = t THEN "none" ELSE report[x]
      BY <1>types, <1>2 DEF TypeOK
    <3>2. ~aborted'
      BY <1>once, <2>5 DEF AttachedOnce
    <3> QED
      BY <1>3, <2>5, <3>1, <3>2 DEF Handled
  <2>8. Awaits(t, {})
    BY <1>1, <1>4, <2>5 DEF Awaits
  <2>9. TypeOK'
    BY ZenonT(30), <1>types, <1>2, <1>3, <1>4, <2>2, <2>4, <2>5 DEF TypeOK
  <2> QED
    BY <2>6, <2>7, <2>8, <2>9, HandledKeeps
<1>6. CASE t \notin exe
  <2>1. PICK stops : stops = [sigstop EXCEPT ![t] = "PENDING"]
    BY ZenonT(30)
  <2>2. /\ stops \in [Task -> {"IGNORED", "ALLOWED", "PENDING"}] /\ stops[t] = "PENDING"
        /\ \A x \in Task : x # t => stops[x] = sigstop[x]
    BY <1>types, <2>1 DEF TypeOK
  <2>3. adopt_held_children(pending_child, pending_flag, pending_sp, stops, run)
    BY <1>6, <2>1 DEF FirstStop
  <2>4. HeldFresh(stops)
    <3>1. Fresh(t)
      BY <1>1, <1>6 DEF Fresh, Traced
    <3> QED
      BY <1>tasks, <2>2, <3>1 DEF Reports, HeldFresh
  <2>5. pending_child \in SUBSET Task
    BY <1>types DEF TypeOK
  <2>6. InCall(pending_child, pending_flag, pending_sp)
    BY <1>tasks, <2>5 DEF Calls, InCall
  <2>7. PICK new \in SUBSET Task : \E m \in [new -> Task] :
              /\ attach_child(m, stops, run)
              /\ pending_child' = pending_child \ {m[d] : d \in new}
              /\ \A d \in new : /\ Fresh(d) /\ m[d] \in pending_child /\ loses_msg
                                /\ NoParent => m[d] = creator[d]
    <3>1. Adopted(pending_child, stops, run)
      <4> HIDE DEF ChildInv
      <4> QED
        BY ZenonT(30), <2>3, <2>4, <2>5, <2>6, AdoptFacts
    <3> QED
      BY ZenonT(30), <3>1 DEF Adopted
  <2>8. PICK m \in [new -> Task] :
              /\ attach_child(m, stops, run)
              /\ pending_child' = pending_child \ {m[d] : d \in new}
              /\ \A d \in new : /\ Fresh(d) /\ m[d] \in pending_child /\ loses_msg
                                /\ NoParent => m[d] = creator[d]
    BY <2>7
  <2>9. Handled(t, new, m, stops, run)
    <3>1. \A x \in new : /\ x \notin exe /\ run[x] # "unborn"
                         /\ ~loses_msg => creator[x] = t
      BY <2>8 DEF Fresh, Traced
    <3> QED
      BY ZenonT(30), <1>types, <1>once, <1>2, <1>3, <2>8, <3>1, AttachHandles
  <2>10. Outcome(t, stops, run)
    BY <1>1, <1>3, <1>6, <2>2 DEF Outcome
  <2>11. Awaits(t, new)
    <3>1. ASSUME NoParent, NEW q \in Task, q \in pending_child
          PROVE  q \in pending_child' \/ call[q].child \in new
      <4>1. CASE \E d \in new : m[d] = q
        <5>1. PICK d \in new : m[d] = q
          BY <4>1
        <5>2. creator[d] = q /\ HasCreator(d) /\ Fresh(d)
          BY <1>creators, <2>8, <3>1, <5>1
        <5> QED
          BY <5>1, <5>2 DEF HasCreator
      <4>2. CASE ~ \E d \in new : m[d] = q
        BY <2>8, <3>1, <4>2
      <4> QED
        BY <4>1, <4>2
    <3> QED
      BY <1>1, <1>4, <2>8, <3>1 DEF Awaits
  <2>12. TypeOK'
    <3>1. run \in [Task -> {"unborn", "running", "forking", "stopped", "dead"}]
      BY <1>types DEF TypeOK
    <3>2. /\ run' \in [Task -> {"unborn", "running", "forking", "stopped", "dead"}]
          /\ sigstop' \in [Task -> {"IGNORED", "ALLOWED", "PENDING"}]
          /\ parent' \in [Task -> Task \cup {NULL}]
          /\ exe' \subseteq known' /\ known' \subseteq Task /\ aborted' \in BOOLEAN
      BY ZenonT(30), <1>types, <2>2, <2>8, <3>1, AttachTypes
    <3>3. pending_child' \subseteq Task
      BY <2>5, <2>8
    <3> QED
      BY ZenonT(30), <1>types, <1>2, <1>3, <1>4, <3>2, <3>3 DEF TypeOK
  <2> QED
    BY <2>9, <2>10, <2>11, <2>12, HandledKeeps
<1> QED
  BY <1>5, <1>6

\* The exit of a fork-like call keeps the invariant: a child that was not found before is
\* attached then.
LEMMA ForkExitKeeps ==
    ASSUME ChildInv, NEW t \in Task, ForkExit(t)
    PROVE  ChildInv'
<1>types. TypeOK
  BY DEF ChildInv
<1>tasks. \A x \in Task : Reports(x) /\ Calls(x) /\ (tgid[x] # x => sp[x] = x)
  BY DEF ChildInv
<1>stacks. \A s, x \in Task : Stacks(s, x)
  BY DEF ChildInv
<1>creators. NoParent => InheritsFromCreator /\ \A c \in Task : HasCreator(c)
  BY DEF ChildInv
<1>once. AttachedOnce
  BY DEF ChildInv
<1>1. report[t] = "SYSEXIT" /\ run[t] = "stopped" /\ t \in exe /\ call[t] # NULL
  BY <1>tasks DEF ForkExit, Reports
<1>2. call[t] \in [child : Task, flag : Flag]
  BY <1>types, <1>1 DEF TypeOK
<1>3. PICK c : c = call[t].child
  OBVIOUS
<1>4. c \in Task /\ run[c] # "unborn" /\ creator[c] = t
  BY <1>tasks, <1>1, <1>2, <1>3 DEF Calls
<1>5. PICK r : r = restart_tracee(t, "running")
  OBVIOUS
<1>6. /\ r \in [Task -> {"unborn", "running", "forking", "stopped", "dead"}] /\ r[t] = "running"
      /\ \A x \in Task : x # t => r[x] = run[x]
  BY <1>types, <1>1, <1>5, Restarts
<1>7. /\ report' = [report EXCEPT ![t] = "none"] /\ pending_child' = pending_child \ {t}
      /\ UNCHANGED <<guest, loses_msg, creator, tgid, ppid, sp, vm_released, kills>>
      /\ pending_flag' = pending_flag /\ pending_sp' = pending_sp
  BY DEF ForkExit
<1>8. /\ call' \in [Task -> {NULL} \cup [child : Task, flag : Flag]] /\ call'[t] = NULL
      /\ \A x \in Task : x # t => call'[x] = call[x]
  BY <1>types DEF ForkExit, TypeOK
<1>9. Outcome(t, sigstop, r)
  BY <1>1, <1>6, <1>8 DEF Outcome
<1>10. CASE t \in pending_child /\ c \notin exe /\ Traced(c)
  <2>1. PICK att : att = [x \in {c} |-> t]
    BY ZenonT(30)
  <2>2. attach_child(att, sigstop, r)
    BY <1>3, <1>5, <1>10, <2>1 DEF ForkExit
  <2>3. att \in [{c} -> Task] /\ {c} \in SUBSET Task /\ att[c] = t
    BY <1>4, <2>1
  <2>4. Handled(t, {c}, att, sigstop, r)
    BY ZenonT(30), <1>types, <1>once, <1>4, <1>7, <1>10, <2>2, <2>3, AttachHandles
  <2>5. Awaits(t, {c})
    BY <1>1, <1>3, <1>7 DEF Awaits
  <2>6. TypeOK'
    <3>1. sigstop \in [Task -> {"IGNORED", "ALLOWED", "PENDING"}]
      BY <1>types DEF TypeOK
    <3>2. /\ run' \in [Task -> {"unborn", "running", "forking", "stopped", "dead"}]
          /\ sigstop' \in [Task -> {"IGNORED", "ALLOWED", "PENDING"}]
          /\ parent' \in [Task -> Task \cup {NULL}]
          /\ exe' \subseteq known' /\ known' \subseteq Task /\ aborted' \in BOOLEAN
      BY <1>types, <1>6, <2>2, <2>3, <3>1, AttachTypes
    <3> QED
      BY ZenonT(30), <1>types, <1>7, <1>8, <3>2 DEF TypeOK
  <2> QED
    BY <1>9, <2>4, <2>5, <2>6, HandledKeeps
<1>11. CASE ~(t \in pending_child /\ c \notin exe /\ Traced(c))
  <2>1. run' = r /\ UNCHANGED <<known, exe, parent, sigstop, aborted>>
    BY <1>3, <1>5, <1>11 DEF ForkExit
  <2>2. Handled(t, {}, parent, sigstop, r)
    <3>1. \A x \in Task : report'[x] = IF x = t THEN "none" ELSE report[x]
      BY <1>types, <1>7 DEF TypeOK
    <3>2. ~aborted'
      BY <1>once, <2>1 DEF AttachedOnce
    <3> QED
      BY <1>7, <2>1, <3>1, <3>2 DEF Handled
  <2>3. Awaits(t, {})
    <3>1. t \in pending_child => ~Fresh(c)
      BY <1>11 DEF Fresh
    <3> QED
      BY <1>1, <1>3, <1>7, <3>1 DEF Awaits
  <2>4. TypeOK'
    BY ZenonT(30), <1>types, <1>6, <1>7, <1>8, <2>1 DEF TypeOK
  <2> QED
    BY <1>9, <2>2, <2>3, <2>4, HandledKeeps
<1> QED
  BY <1>10, <1>11

\* The end of a task keeps the invariant.
LEMMA ExitEventKeeps ==
    ASSUME ChildInv, NEW t \in Task, ExitEvent(t)
    PROVE  ChildInv'
<1>types. TypeOK
  BY DEF ChildInv
<1>tasks. \A x \in Task : Reports(x) /\ Calls(x) /\ (tgid[x] # x => sp[x] = x)
  BY DEF ChildInv
<1>stacks. \A s, x \in Task : Stacks(s, x)
  BY DEF ChildInv
<1>creators. NoParent => InheritsFromCreator /\ \A c \in Task : HasCreator(c)
  BY DEF ChildInv
<1>once. AttachedOnce
  BY DEF ChildInv
<1>1. report[t] = "EXIT" /\ run[t] = "dead"
  BY <1>tasks DEF ExitEvent, Reports
<1>2. report' = [report EXCEPT ![t] = "none"] /\ UNCHANGED kernel_vars
  BY DEF ExitEvent, Waited
<1>3. /\ UNCHANGED <<guest, loses_msg, creator, tgid, ppid, sp, vm_released, kills>> /\ call' = call
      /\ run' = run /\ pending_flag' = pending_flag /\ pending_sp' = pending_sp /\ aborted' = aborted
      /\ exe' = exe \ {t} /\ known' = known \ {t} /\ pending_child' = pending_child \ {t}
  BY <1>2 DEF kernel_vars, ExitEvent
<1>4. /\ report' \in [Task -> {"none", "FORK", "SIGSTOP", "SYSEXIT", "EXIT"}] /\ report'[t] = "none"
      /\ \A x \in Task : x # t => report'[x] = report[x]
  BY <1>types, <1>2 DEF TypeOK
<1>5. /\ sigstop' \in [Task -> {"IGNORED", "ALLOWED", "PENDING"}] /\ sigstop'[t] = "IGNORED"
      /\ \A x \in Task : x # t => sigstop'[x] = sigstop[x]
  BY <1>types DEF TypeOK, ExitEvent
<1>6. /\ parent' \in [Task -> Task \cup {NULL}]
      /\ \A x \in Task : parent'[x] \in {parent[x], NULL}
  BY <1>types DEF TypeOK, ExitEvent
<1>7. \A x \in Task : Fresh(x)' <=> Fresh(x) /\ x # t
  BY <1>1, <1>3, <1>4 DEF Fresh, Traced
<1>8. TypeOK'
  BY <1>types, <1>3, <1>4, <1>5, <1>6 DEF TypeOK
<1>9. ASSUME NEW x \in Task
      PROVE  Reports(x)' /\ Calls(x)' /\ (tgid'[x] # x => sp'[x] = x)
  <2>1. Reports(x)'
    <3>1. CASE x = t
      BY <1>1, <1>3, <1>4, <1>5, <1>7, <3>1 DEF Reports
    <3>2. CASE x # t
      <4>1. Reports(x) /\ (x \in exe' <=> x \in exe)
        BY <1>tasks, <1>3, <3>2
      <4> QED
        BY <1>3, <1>4, <1>5, <1>6, <1>7, <3>2, <4>1 DEF Reports
    <3> QED
      BY <3>1, <3>2
  <2>2. Calls(x)'
    <3>1. Calls(x)
      BY <1>tasks
    <3>2. report'[x] = "FORK" => report[x] = "FORK"
      BY <1>4
    <3> QED
      BY <1>3, <3>1, <3>2 DEF Calls
  <2> QED
    BY <1>tasks, <1>3, <2>1, <2>2
<1>10. ASSUME NEW s \in Task, NEW x \in Task
       PROVE  Stacks(s, x)'
  <2>1. Stacks(s, x)
    BY <1>stacks
  <2> QED
    BY <1>3, <1>7, <2>1 DEF Stacks
<1>11. ASSUME NoParent
       PROVE  InheritsFromCreator' /\ \A x \in Task : HasCreator(x)'
  <2>1. InheritsFromCreator'
    BY <1>creators, <1>3, <1>6, <1>11 DEF InheritsFromCreator
  <2>2. ASSUME NEW x \in Task, Fresh(x)'
        PROVE  HasCreator(x)'
    <3>1. HasCreator(x) /\ Fresh(x)
      BY <1>creators, <1>7, <1>11, <2>2
    <3>2. PICK q : q = creator[x]
      OBVIOUS
    <3>3. q \in Task /\ (report[q] = "FORK" \/ q \in pending_child \/ run[q] = "dead")
      BY <3>1, <3>2 DEF HasCreator
    <3>4. report'[q] = "FORK" \/ q \in pending_child' \/ run'[q] = "dead"
      BY <1>1, <1>3, <1>4, <3>3
    <3> QED
      BY <1>3, <3>1, <3>2, <3>4 DEF HasCreator
  <2> QED
    BY <2>1, <2>2 DEF HasCreator
<1>12. AttachedOnce' /\ (NoParent' <=> NoParent)
  BY <1>once, <1>3 DEF AttachedOnce, NoParent
<1> QED
  BY <1>8, <1>9, <1>10, <1>11, <1>12 DEF ChildInv

--------------------------------------------------------------------------------
(* The kernel and the guest keep the invariant.                             *)

\* The death of a task, wherever it is, keeps the invariant.
LEMMA DiesKeeps ==
    ASSUME ChildInv, NEW t \in Task, Dies(t), run[t] \notin {"unborn", "dead"},
           kills' \in 0 .. guest.kills
    PROVE  ChildInv'
<1>types. TypeOK
  BY DEF ChildInv
<1>tasks. \A x \in Task : Reports(x) /\ Calls(x) /\ (tgid[x] # x => sp[x] = x)
  BY DEF ChildInv
<1>stacks. \A s, x \in Task : Stacks(s, x)
  BY DEF ChildInv
<1>creators. NoParent => InheritsFromCreator /\ \A c \in Task : HasCreator(c)
  BY DEF ChildInv
<1>once. AttachedOnce
  BY DEF ChildInv
<1>1. /\ UNCHANGED <<guest, loses_msg, creator, tgid, ppid, sp, exe, parent, sigstop>> /\ call' = call
      /\ pending_child' = pending_child /\ pending_flag' = pending_flag /\ pending_sp' = pending_sp
      /\ aborted' = aborted /\ known' = known
  BY DEF Dies
<1>2. /\ report' \in [Task -> {"none", "FORK", "SIGSTOP", "SYSEXIT", "EXIT"}] /\ report'[t] = "EXIT"
      /\ \A x \in Task : x # t => report'[x] = report[x]
  BY <1>types DEF TypeOK, Dies
<1>3. /\ run' \in [Task -> {"unborn", "running", "forking", "stopped", "dead"}] /\ run'[t] = "dead"
      /\ \A x \in Task : x # t => run'[x] = run[x]
  BY <1>types DEF TypeOK, Dies
<1>4. \A x \in Task : Fresh(x)' <=> Fresh(x)
  BY <1>1, <1>2, <1>3 DEF Fresh, Traced
<1>5. vm_released' \subseteq Task
  BY <1>types DEF TypeOK, Dies
<1>6. TypeOK'
  BY <1>types, <1>1, <1>2, <1>3, <1>5 DEF TypeOK
<1>7. ASSUME NEW x \in Task
      PROVE  Reports(x)' /\ Calls(x)' /\ (tgid'[x] # x => sp'[x] = x)
  <2>1. Reports(x)'
    <3>1. Reports(x)
      BY <1>tasks
    <3>2. CASE x = t
      BY <1>1, <1>2, <1>3, <1>4, <3>1, <3>2 DEF Reports
    <3>3. CASE x # t
      <4>1. report'[x] = report[x] /\ run'[x] = run[x] /\ (Fresh(x)' <=> Fresh(x))
        BY <1>2, <1>3, <1>4, <3>3
      <4> QED
        BY <1>1, <3>1, <4>1 DEF Reports
    <3> QED
      BY <3>2, <3>3
  <2>2. Calls(x)'
    <3>1. Calls(x) /\ (call[x] # NULL => call[x].child \in Task)
      BY <1>types, <1>tasks DEF TypeOK
    <3>2. /\ report'[x] = "FORK" => report[x] = "FORK"
          /\ run'[x] = "running" => run[x] = "running"
      BY <1>2, <1>3
    <3>3. call[x] # NULL => run'[call[x].child] # "unborn"
      BY <1>3, <3>1 DEF Calls
    <3> QED
      BY <1>1, <3>1, <3>2, <3>3 DEF Calls
  <2> QED
    BY <1>tasks, <1>1, <2>1, <2>2
<1>8. ASSUME NEW s \in Task, NEW x \in Task
      PROVE  Stacks(s, x)'
  <2>1. Stacks(s, x) /\ (run'[x] = "unborn" => run[x] = "unborn") /\ (Fresh(x)' <=> Fresh(x))
    BY <1>stacks, <1>3, <1>4
  <2> QED
    BY <1>1, <2>1 DEF Stacks
<1>9. ASSUME NoParent
      PROVE  InheritsFromCreator' /\ \A x \in Task : HasCreator(x)'
  <2>1. InheritsFromCreator'
    BY <1>creators, <1>1, <1>9 DEF InheritsFromCreator
  <2>2. ASSUME NEW x \in Task, Fresh(x)'
        PROVE  HasCreator(x)'
    <3>1. HasCreator(x) /\ Fresh(x)
      BY <1>creators, <1>4, <1>9, <2>2
    <3>2. PICK q : q = creator[x]
      OBVIOUS
    <3>3. q \in Task /\ run[q] # "running"
          /\ (report[q] = "FORK" \/ q \in pending_child \/ run[q] = "dead")
      BY <3>1, <3>2 DEF HasCreator
    <3>4. run'[q] # "running"
          /\ (report'[q] = "FORK" \/ q \in pending_child' \/ run'[q] = "dead")
      BY <1>1, <1>2, <1>3, <3>3
    <3> QED
      BY <1>1, <3>1, <3>2, <3>4 DEF HasCreator
  <2> QED
    BY <2>1, <2>2 DEF HasCreator
<1>10. AttachedOnce' /\ (NoParent' <=> NoParent)
  BY <1>once, <1>1 DEF AttachedOnce, NoParent
<1> QED
  BY <1>6, <1>7, <1>8, <1>9, <1>10 DEF ChildInv

\* The return from a fork-like call keeps the invariant.
LEMMA ForkReturnsKeeps ==
    ASSUME ChildInv, NEW t \in Task, ForkReturns(t)
    PROVE  ChildInv'
<1>types. TypeOK
  BY DEF ChildInv
<1>tasks. \A x \in Task : Reports(x) /\ Calls(x) /\ (tgid[x] # x => sp[x] = x)
  BY DEF ChildInv
<1>stacks. \A s, x \in Task : Stacks(s, x)
  BY DEF ChildInv
<1>creators. NoParent => InheritsFromCreator /\ \A c \in Task : HasCreator(c)
  BY DEF ChildInv
<1>once. AttachedOnce
  BY DEF ChildInv
<1>1. run[t] = "forking" /\ t \in exe /\ report[t] = "none" /\ call[t] # NULL
  BY <1>tasks DEF ForkReturns, Reports
<1>2. /\ UNCHANGED <<guest, loses_msg, creator, tgid, ppid, sp, exe, parent, sigstop>> /\ call' = call
      /\ pending_child' = pending_child /\ pending_flag' = pending_flag /\ pending_sp' = pending_sp
      /\ aborted' = aborted /\ known' = known /\ vm_released' = vm_released /\ kills' = kills
  BY DEF ForkReturns, kernel_vars
<1>3. /\ report' \in [Task -> {"none", "FORK", "SIGSTOP", "SYSEXIT", "EXIT"}] /\ report'[t] = "SYSEXIT"
      /\ \A x \in Task : x # t => report'[x] = report[x]
  BY <1>types DEF TypeOK, ForkReturns
<1>4. /\ run' \in [Task -> {"unborn", "running", "forking", "stopped", "dead"}] /\ run'[t] = "stopped"
      /\ \A x \in Task : x # t => run'[x] = run[x]
  BY <1>types DEF TypeOK, ForkReturns
<1>5. \A x \in Task : Fresh(x)' <=> Fresh(x)
  BY <1>1, <1>2, <1>3, <1>4 DEF Fresh, Traced
<1>6. TypeOK'
  BY <1>types, <1>2, <1>3, <1>4 DEF TypeOK
<1>7. ASSUME NEW x \in Task
      PROVE  Reports(x)' /\ Calls(x)' /\ (tgid'[x] # x => sp'[x] = x)
  <2>1. Reports(x)'
    <3>1. Reports(x)
      BY <1>tasks
    <3>2. CASE x = t
      <4>1. ~Fresh(t)
        BY <1>1 DEF Fresh
      <4> QED
        BY <1>1, <1>2, <1>3, <1>4, <1>5, <3>1, <3>2, <4>1 DEF Reports
    <3>3. CASE x # t
      <4>1. report'[x] = report[x] /\ run'[x] = run[x] /\ (Fresh(x)' <=> Fresh(x))
        BY <1>3, <1>4, <1>5, <3>3
      <4> QED
        BY <1>2, <3>1, <4>1 DEF Reports
    <3> QED
      BY <3>2, <3>3
  <2>2. Calls(x)'
    <3>1. Calls(x) /\ (call[x] # NULL => call[x].child \in Task)
      BY <1>types, <1>tasks DEF TypeOK
    <3>2. /\ report'[x] = "FORK" => report[x] = "FORK"
          /\ run'[x] = "running" => run[x] = "running"
      BY <1>3, <1>4
    <3>3. call[x] # NULL => run'[call[x].child] # "unborn"
      BY <1>4, <3>1 DEF Calls
    <3> QED
      BY <1>2, <3>1, <3>2, <3>3 DEF Calls
  <2> QED
    BY <1>tasks, <1>2, <2>1, <2>2
<1>8. ASSUME NEW s \in Task, NEW x \in Task
      PROVE  Stacks(s, x)'
  <2>1. Stacks(s, x) /\ (run'[x] = "unborn" => run[x] = "unborn") /\ (Fresh(x)' <=> Fresh(x))
    BY <1>stacks, <1>4, <1>5
  <2> QED
    BY <1>2, <2>1 DEF Stacks
<1>9. ASSUME NoParent
      PROVE  InheritsFromCreator' /\ \A x \in Task : HasCreator(x)'
  <2>1. InheritsFromCreator'
    BY <1>creators, <1>2, <1>9 DEF InheritsFromCreator
  <2>2. ASSUME NEW x \in Task, Fresh(x)'
        PROVE  HasCreator(x)'
    <3>1. HasCreator(x) /\ Fresh(x)
      BY <1>creators, <1>5, <1>9, <2>2
    <3>2. PICK q : q = creator[x]
      OBVIOUS
    <3>3. q \in Task /\ run[q] # "running"
          /\ (report[q] = "FORK" \/ q \in pending_child \/ run[q] = "dead")
      BY <3>1, <3>2 DEF HasCreator
    <3>4. run'[q] # "running"
          /\ (report'[q] = "FORK" \/ q \in pending_child' \/ run'[q] = "dead")
      BY <1>1, <1>2, <1>3, <1>4, <3>3
    <3> QED
      BY <1>2, <3>1, <3>2, <3>4 DEF HasCreator
  <2> QED
    BY <2>1, <2>2 DEF HasCreator
<1>10. AttachedOnce' /\ (NoParent' <=> NoParent)
  BY <1>once, <1>2 DEF AttachedOnce, NoParent
<1> QED
  BY <1>6, <1>7, <1>8, <1>9, <1>10 DEF ChildInv

\* execve(2) keeps the invariant: the stack of a task is then its own.
LEMMA ExecKeeps ==
    ASSUME ChildInv, NEW t \in Task, Exec(t)
    PROVE  ChildInv'
<1>types. TypeOK
  BY DEF ChildInv
<1>tasks. \A x \in Task : Reports(x) /\ Calls(x) /\ (tgid[x] # x => sp[x] = x)
  BY DEF ChildInv
<1>stacks. \A s, x \in Task : Stacks(s, x)
  BY DEF ChildInv
<1>creators. NoParent => InheritsFromCreator /\ \A c \in Task : HasCreator(c)
  BY DEF ChildInv
<1>once. AttachedOnce
  BY DEF ChildInv
<1>1. run[t] = "running" /\ t \in exe /\ call[t] = NULL
  BY <1>tasks DEF Exec, Reports
<1>2. /\ UNCHANGED <<guest, loses_msg, creator, tgid, ppid, run, report, exe, parent, sigstop>>
      /\ call' = call
      /\ pending_child' = pending_child /\ pending_flag' = pending_flag /\ pending_sp' = pending_sp
      /\ aborted' = aborted /\ known' = known /\ kills' = kills
  BY DEF Exec
<1>3. /\ sp' \in [Task -> Task] /\ sp'[t] = t
      /\ \A x \in Task : x # t => sp'[x] = sp[x]
  BY <1>types DEF TypeOK, Exec
<1>4. vm_released' \subseteq Task
  BY <1>types DEF TypeOK, Exec
<1>5. TypeOK'
  BY <1>types, <1>2, <1>3, <1>4 DEF TypeOK
<1>6. \A x \in Task : Fresh(x)' <=> Fresh(x)
  BY <1>2 DEF Fresh, Traced
<1>7. ASSUME NEW x \in Task
      PROVE  Reports(x)' /\ Calls(x)' /\ (tgid'[x] # x => sp'[x] = x)
  <2>1. Reports(x)'
    BY <1>tasks, <1>2, <1>6 DEF Reports
  <2>2. Calls(x)'
    <3>1. Calls(x)
      BY <1>tasks
    <3>2. x \in pending_child => sp'[x] = sp[x]
      BY <1>1, <1>3, <3>1 DEF Calls
    <3> QED
      BY <1>2, <3>1, <3>2 DEF Calls
  <2>3. tgid'[x] # x => sp'[x] = x
    BY <1>tasks, <1>2, <1>3
  <2> QED
    BY <2>1, <2>2, <2>3
<1>8. ASSUME NEW s \in Task, NEW x \in Task, s # x, tgid[s] = tgid[x]
      PROVE  sp'[s] # sp'[x]
  <2>1. sp[s] # sp[x] /\ (tgid[s] # s => sp[s] = s) /\ (tgid[x] # x => sp[x] = x)
    BY <1>tasks, <1>stacks, <1>8 DEF Stacks
  <2>2. CASE s = t
    BY <1>3, <1>8, <2>1, <2>2
  <2>3. CASE x = t
    BY <1>3, <1>8, <2>1, <2>3
  <2> QED
    BY <1>3, <1>8, <2>1, <2>2, <2>3
<1>9. ASSUME NEW s \in Task, NEW x \in Task
      PROVE  Stacks(s, x)'
  <2>1. Stacks(s, x)
    BY <1>stacks
  <2> QED
    BY <1>2, <1>3, <1>6, <1>8, <2>1 DEF Stacks
<1>10. ASSUME NoParent
       PROVE  InheritsFromCreator' /\ \A x \in Task : HasCreator(x)'
  <2>1. InheritsFromCreator'
    BY <1>creators, <1>2, <1>10 DEF InheritsFromCreator
  <2>2. ASSUME NEW x \in Task, Fresh(x)'
        PROVE  HasCreator(x)'
    <3>1. HasCreator(x) /\ Fresh(x)
      BY <1>creators, <1>6, <1>10, <2>2
    <3>2. PICK q : q = creator[x]
      OBVIOUS
    <3>3. q \in Task /\ run[q] # "running" /\ x # t
      BY <1>1, <3>1, <3>2 DEF HasCreator, Fresh
    <3>4. sp'[x] = sp[x] /\ sp'[q] = sp[q]
      BY <1>1, <1>3, <3>3
    <3> QED
      BY <1>2, <3>1, <3>2, <3>4 DEF HasCreator
  <2> QED
    BY <2>1, <2>2 DEF HasCreator
<1>11. AttachedOnce' /\ (NoParent' <=> NoParent)
  BY <1>once, <1>2 DEF AttachedOnce, NoParent
<1> QED
  BY <1>5, <1>7, <1>9, <1>10, <1>11 DEF ChildInv

\* A fork-like call keeps the invariant.
LEMMA ForkKeeps ==
    ASSUME ChildInv, NEW t \in Task, NEW c \in Task, NEW f \in Flag, Fork(t, c, f)
    PROVE  ChildInv'
<1>1. TypeOK /\ AttachedOnce
  BY DEF ChildInv
<1>2. \A x \in Task : Reports(x) /\ Calls(x) /\ (tgid[x] # x => sp[x] = x)
  BY DEF ChildInv
<1>3. \A s, x \in Task : Stacks(s, x)
  BY DEF ChildInv
<1>4. NoParent => InheritsFromCreator /\ \A x \in Task : HasCreator(x)
  BY DEF ChildInv
<1>5. /\ run[t] = "running" /\ t \in exe /\ call[t] = NULL /\ t \notin pending_child
      /\ f \in guest.flags /\ t # c
  BY <1>2 DEF Fork, Reports, Calls
<1>6. /\ run[c] = "unborn" /\ c \notin exe /\ call[c] = NULL /\ parent[c] = NULL
      /\ c \notin pending_child /\ sigstop[c] # "PENDING"
  BY <1>2 DEF Fork, Reports, Calls, Fresh, Traced
<1>7. /\ UNCHANGED <<guest, loses_msg, exe, parent, sigstop, aborted, known, kills, vm_released>>
      /\ pending_child' = pending_child /\ pending_flag' = pending_flag /\ pending_sp' = pending_sp
  BY DEF Fork
<1>8. /\ run' \in [Task -> {"unborn", "running", "forking", "stopped", "dead"}]
      /\ run'[t] = "stopped" /\ run'[c] = "stopped"
      /\ \A x \in Task : x # t /\ x # c => run'[x] = run[x]
  BY <1>1 DEF TypeOK, Fork
<1>9. /\ report' \in [Task -> {"none", "FORK", "SIGSTOP", "SYSEXIT", "EXIT"}]
      /\ report'[t] = "FORK" /\ report'[c] = "SIGSTOP"
      /\ \A x \in Task : x # t /\ x # c => report'[x] = report[x]
  BY <1>5, <1>1 DEF TypeOK, Fork
<1>10. /\ call' \in [Task -> {NULL} \cup [child : Task, flag : Flag]]
       /\ call'[t] = [child |-> c, flag |-> f]
       /\ \A x \in Task : x # t => call'[x] = call[x]
  BY <1>1 DEF TypeOK, Fork
<1>11. /\ creator' \in [Task -> Task \cup {NULL}] /\ creator'[c] = t
       /\ \A x \in Task : x # c => creator'[x] = creator[x]
  BY <1>1 DEF TypeOK, Fork
<1>12. /\ tgid' \in [Task -> Task] /\ tgid'[c] = IF f = "thread" THEN tgid[t] ELSE c
       /\ \A x \in Task : x # c => tgid'[x] = tgid[x]
  BY <1>1 DEF TypeOK, Fork
<1>13. /\ ppid' \in [Task -> Task \cup {NULL}]
       /\ f \notin {"thread", "vfork_parent"} => ppid'[c] = tgid[t]
       /\ \A x \in Task : x # c => ppid'[x] = ppid[x]
  BY <1>1 DEF TypeOK, Fork
<1>14. /\ sp' \in [Task -> Task] /\ sp'[c] = IF f = "thread" THEN c ELSE sp[t]
       /\ \A x \in Task : x # c => sp'[x] = sp[x]
  BY <1>1 DEF TypeOK, Fork
<1>15. TypeOK'
  <2>1. /\ (guest \in Guests /\ loses_msg \in BOOLEAN /\ aborted \in BOOLEAN)'
        /\ (vm_released \subseteq Task /\ kills \in 0 .. guest.kills)'
        /\ (exe \subseteq known /\ known \subseteq Task)'
        /\ (parent \in [Task -> Task \cup {NULL}])'
        /\ (sigstop \in [Task -> {"IGNORED", "ALLOWED", "PENDING"}])'
        /\ (pending_child \subseteq Task)'
        /\ (pending_flag \in [Task -> Flag \cup {NULL}] /\ pending_sp \in [Task -> Task \cup {NULL}])'
    BY <1>1, <1>7 DEF TypeOK
  <2>2. /\ run' \in [Task -> {"unborn", "running", "forking", "stopped", "dead"}]
        /\ report' \in [Task -> {"none", "FORK", "SIGSTOP", "SYSEXIT", "EXIT"}]
        /\ call' \in [Task -> {NULL} \cup [child : Task, flag : Flag]]
        /\ creator' \in [Task -> Task \cup {NULL}] /\ ppid' \in [Task -> Task \cup {NULL}]
        /\ tgid' \in [Task -> Task] /\ sp' \in [Task -> Task]
    BY <1>8, <1>9, <1>10, <1>11, <1>12, <1>13, <1>14
  <2> QED
    BY <2>1, <2>2, ZenonT(30) DEF TypeOK
<1>16. [child |-> c, flag |-> f] # NULL /\ [child |-> c, flag |-> f].child = c
       /\ [child |-> c, flag |-> f].flag = f
  BY CallRecord
<1>17. Fresh(c)' /\ \A x \in Task : x # c => (Fresh(x)' <=> Fresh(x))
  BY <1>5, <1>6, <1>7, <1>8, <1>9 DEF Fresh, Traced
<1>18. ASSUME NEW x \in Task
       PROVE  Reports(x)'
  <2>1. CASE x = t
    <3>1. ~Fresh(t) /\ sigstop[t] # "PENDING"
      BY <1>5, <1>2 DEF Reports, Fresh
    <3> QED
      BY <1>5, <1>7, <1>8, <1>9, <1>10, <1>16, <1>17, <2>1, <3>1 DEF Reports
  <2>2. CASE x = c
    BY <1>5, <1>6, <1>7, <1>8, <1>9, <1>10, <2>2 DEF Reports
  <2>3. CASE x # t /\ x # c
    <3>1. Reports(x)
      BY <1>2
    <3>2. run'[x] = run[x] /\ report'[x] = report[x] /\ call'[x] = call[x] /\ (Fresh(x)' <=> Fresh(x))
      BY <1>8, <1>9, <1>10, <1>17, <2>3
    <3> QED
      BY <1>7, <3>1, <3>2 DEF Reports
  <2> QED
    BY <2>1, <2>2, <2>3
<1>19. ASSUME NEW x \in Task
       PROVE  Calls(x)'
  <2>1. CASE x = t
    BY <1>5, <1>6, <1>7, <1>8, <1>10, <1>11, <1>16, <2>1 DEF Calls
  <2>2. CASE x = c
    BY <1>5, <1>6, <1>7, <1>10, <2>2 DEF Calls
  <2>3. CASE x # t /\ x # c
    <3>1. Calls(x) /\ (call[x] # NULL => call[x].child \in Task)
      BY <1>1, <1>2 DEF TypeOK
    <3>2. run'[x] = run[x] /\ report'[x] = report[x] /\ call'[x] = call[x] /\ sp'[x] = sp[x]
      BY <1>8, <1>9, <1>10, <1>14, <2>3
    <3>3. call[x] # NULL => run'[call[x].child] # "unborn" /\ creator'[call[x].child] = x
      BY <1>6, <1>8, <1>11, <3>1 DEF Calls
    <3> QED
      BY <1>7, <3>1, <3>2, <3>3 DEF Calls
  <2> QED
    BY <2>1, <2>2, <2>3
<1>20. ASSUME NEW x \in Task
       PROVE  tgid'[x] # x => sp'[x] = x
  BY <1>12, <1>14, <1>2
<1>21. ASSUME NEW s \in Task, NEW x \in Task, s # x
       PROVE  Stacks(s, x)'
  <2>1. CASE x = c
    <3>1. tgid[s] # c /\ sp[s] # c
      BY <1>6, <1>21, <1>3, <2>1 DEF Stacks
    <3>2. tgid'[s] = tgid[s] /\ sp'[s] = sp[s]
      BY <1>12, <1>14, <1>21, <2>1
    <3> QED
      BY <1>8, <1>12, <1>14, <2>1, <3>1, <3>2 DEF Stacks
  <2>2. CASE s = c
    <3>1. tgid'[x] = tgid[x] /\ sp'[x] = sp[x] /\ (Fresh(x)' => Fresh(x) /\ x # t)
      BY <1>5, <1>12, <1>14, <1>17, <1>21, <2>2 DEF Fresh
    <3>2. tgid[x] # c /\ sp[x] # c
      BY <1>6, <1>21, <1>3, <2>2 DEF Stacks
    <3>3. run'[x] = "unborn" => run[x] = "unborn" /\ x # t
      BY <1>8, <1>21, <2>2
    <3>4. x # t => /\ run[x] = "unborn" => tgid[t] # x /\ sp[t] # x
                   /\ Fresh(x) => sp[t] # x
      BY <1>3 DEF Stacks
    <3> QED
      BY <1>12, <1>14, <1>21, <2>2, <3>1, <3>2, <3>3, <3>4 DEF Stacks
  <2>3. CASE x # c /\ s # c
    <3>1. Stacks(s, x)
      BY <1>3
    <3>2. /\ tgid'[s] = tgid[s] /\ tgid'[x] = tgid[x] /\ sp'[s] = sp[s] /\ sp'[x] = sp[x]
          /\ run'[x] = "unborn" => run[x] = "unborn"
          /\ Fresh(x)' => Fresh(x)
      BY <1>8, <1>12, <1>14, <1>17, <2>3
    <3> QED
      BY <3>1, <3>2 DEF Stacks
  <2> QED
    BY <2>1, <2>2, <2>3
<1>22. ASSUME NoParent
       PROVE  InheritsFromCreator' /\ \A x \in Task : HasCreator(x)'
  <2>1. InheritsFromCreator'
    BY <1>6, <1>7, <1>11, <1>22, <1>4 DEF InheritsFromCreator
  <2>2. HasCreator(c)'
    <3>1. f # "vfork_parent"
      BY <1>5, <1>22 DEF NoParent
    <3>2. /\ creator'[c] = t /\ call'[t] = [child |-> c, flag |-> f] /\ call'[t] # NULL
          /\ call'[t].child = c /\ call'[t].flag = f
      BY <1>10, <1>11, <1>16, ZenonT(30)
    <3>3. run'[t] # "running" /\ report'[t] = "FORK"
      BY <1>8, <1>9
    <3>4. sp'[t] = sp[t] /\ tgid'[t] = tgid[t]
      BY <1>5, <1>12, <1>14
    <3>5. IF f = "thread" THEN sp'[c] = c ELSE ppid'[c] = tgid'[t] /\ sp'[c] = sp'[t]
      BY <1>13, <1>14, <3>1, <3>4
    <3> QED
      BY <3>2, <3>3, <3>5, ZenonT(30) DEF HasCreator
  <2>3. ASSUME NEW x \in Task, x # c, Fresh(x)'
        PROVE  HasCreator(x)'
    <3>1. HasCreator(x) /\ Fresh(x)
      BY <1>17, <1>22, <1>4, <2>3
    <3>2. PICK q : q = creator[x]
      OBVIOUS
    <3>3. q \in Task /\ q # t /\ q # c
      BY <1>5, <1>6, <3>1, <3>2 DEF HasCreator
    <3>4. /\ run'[q] = run[q] /\ report'[q] = report[q] /\ call'[q] = call[q] /\ sp'[q] = sp[q]
          /\ tgid'[q] = tgid[q]
      BY <1>8, <1>9, <1>10, <1>12, <1>14, <3>3
    <3>5. creator'[x] = q
      BY <1>11, <2>3, <3>2
    <3>6. ppid'[x] = ppid[x]
      BY <1>13, <2>3
    <3>7. sp'[x] = sp[x]
      BY <1>14, <2>3
    <3> QED
      BY <1>7, <3>1, <3>2, <3>4, <3>5, <3>6, <3>7 DEF HasCreator
  <2> QED
    BY <2>1, <2>2, <2>3 DEF HasCreator
<1>23. AttachedOnce' /\ (NoParent' <=> NoParent)
  BY <1>7, <1>1 DEF AttachedOnce, NoParent
<1>24. \A s, x \in Task : Stacks(s, x)'
  BY <1>21 DEF Stacks
<1> QED
  BY <1>15, <1>18, <1>19, <1>20, <1>22, <1>23, <1>24 DEF ChildInv

--------------------------------------------------------------------------------
(* The theorems.                                                            *)

LEMMA ChildNext ==
    ASSUME ChildInv, [Next]_vars
    PROVE  ChildInv'
<1>1. ASSUME NEW t \in Task, NEW c \in Task, NEW f \in Flag, Fork(t, c, f)
      PROVE  ChildInv'
  BY <1>1, ForkKeeps
<1>2. ASSUME NEW t \in Task, ForkReturns(t)
      PROVE  ChildInv'
  BY <1>2, ForkReturnsKeeps
<1>3. ASSUME NEW t \in Task, Exec(t)
      PROVE  ChildInv'
  BY <1>3, ExecKeeps
<1>4. ASSUME NEW t \in Task, Exit(t)
      PROVE  ChildInv'
  <2>1. Dies(t) /\ run[t] \notin {"unborn", "dead"} /\ kills' \in 0 .. guest.kills
    BY <1>4 DEF Exit, ChildInv, TypeOK
  <2> QED
    BY <2>1, DiesKeeps
<1>5. ASSUME NEW t \in Task, Kill(t)
      PROVE  ChildInv'
  <2>1. Dies(t) /\ run[t] \notin {"unborn", "dead"}
    BY <1>5 DEF Kill
  <2>2. kills' \in 0 .. guest.kills
    BY <1>5, OneMoreKill DEF ChildInv
  <2> QED
    BY <2>1, <2>2, DiesKeeps
<1>6. ASSUME NEW t \in Task, PRoot(t)
      PROVE  ChildInv'
  BY <1>6, NewChildKeeps, FirstStopKeeps, ForkExitKeeps, ExitEventKeeps DEF PRoot
<1>7. CASE UNCHANGED vars
  <2>1. TypeOK'
    BY <1>7 DEF vars, ChildInv, TypeOK
  <2>2. AttachedOnce'
    BY <1>7 DEF vars, ChildInv, AttachedOnce
  <2>3. ASSUME NEW t \in Task PROVE Reports(t)' /\ Calls(t)' /\ (tgid[t] # t => sp[t] = t)'
    BY <1>7 DEF vars, ChildInv, Reports, Calls, Fresh, Traced
  <2>4. ASSUME NEW s \in Task, NEW t \in Task PROVE Stacks(s, t)'
    BY <1>7 DEF vars, ChildInv, Stacks, Fresh, Traced
  <2>5. (NoParent => InheritsFromCreator /\ \A c \in Task : HasCreator(c))'
    BY <1>7 DEF vars, ChildInv, NoParent, InheritsFromCreator, HasCreator, Fresh, Traced
  <2> QED
    BY <2>1, <2>2, <2>3, <2>4, <2>5 DEF ChildInv
<1> QED
  BY <1>1, <1>2, <1>3, <1>4, <1>5, <1>6, <1>7 DEF Next

\* A task inherits from the task that created it, for any number of tasks, on either kind of
\* kernel and whatever is killed when, as long as no guest uses CLONE_VFORK|CLONE_PARENT
\* (new_child(), adopt_held_children() and resolve_pending_child() of tracee.c).
THEOREM ChildrenInherit == Spec => [](NoParent => InheritsFromCreator)
<1>1. ChildInv => (NoParent => InheritsFromCreator)
  BY DEF ChildInv
<1> QED
  BY <1>1, InitChild, ChildNext, PTL DEF Spec

\* A new task executes nothing before it is attached, and no task is attached twice: the
\* sanity checks of attach_child() hold, for guests that use CLONE_PARENT too.
THEOREM AttachedBeforeItRuns == Spec => [](RunsOnlyAttached /\ AttachedOnce /\ PendingOnlyInCall)
<1>1. ChildInv => RunsOnlyAttached /\ AttachedOnce /\ PendingOnlyInCall
  BY DEF ChildInv, TypeOK, Reports, Calls, RunsOnlyAttached, PendingOnlyInCall
<1> QED
  BY <1>1, InitChild, ChildNext, PTL DEF Spec

=============================================================================
