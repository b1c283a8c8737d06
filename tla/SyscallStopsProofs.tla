------------------------- MODULE SyscallStopsProofs -------------------------
(***************************************************************************)
(* Proofs about SyscallStops: for every set of kernels, of calls (the two  *)
(* kinds of Supported excepted) and of signals, the status PRoot keeps of  *)
(* a call agrees with where the kernel is in it.                           *)
(*                                                                         *)
(* None of the properties is inductive.  Whether the exit of a call is     *)
(* translated depends on which of its stops were asked for, that on the    *)
(* seccomp mode, the mode on what PRoot has learnt of the kernel's order   *)
(* of stops, and on a chain that may be under way.  IInv says how these    *)
(* hang together at each point of a call, for each of the two orders.      *)
(***************************************************************************)
EXTENDS SyscallStops, TLAPS

\* Time limits of the provers, for every leaf below.
USE ZenonT(30), SMTT(30)

\* The calls PRoot handles as it means to: the exit stop of "ficlone" is expected but
\* not asked for (enter.c), and on kernels of the old order the fork event skips it.
Supported == "ficlone" \notin NewKinds \cup OldKinds /\ "fork" \notin OldKinds

(***************************************************************************)
(* The inductive invariant.                                                *)
(***************************************************************************)

\* The signals that are pending, delivered and sent, and the one being reported.
SigsType ==
    [ pending : SUBSET Signals, delivered : SUBSET Signals, sent : SUBSET Signals,
      in_stop : Signals \cup {NULL} ]

\* The states of a chain: none, as registered, after its first call, after its last.
Chains == {NULL, Chained, <<"enter">>, << >>}

\* A tracee record with restart_how, last_restart_how, seccomp and chain in these sets.
Fields(restarts, last, modes, chains) ==
    [ status : {0, 1}, seccomp : modes,
      sysexit_pending : BOOLEAN, already_handled : BOOLEAN, cancelled : BOOLEAN,
      restart_how : restarts, last_restart_how : last, chain : chains,
      rewritten : BOOLEAN, suppressed : Signals \cup {NULL}, skip_signal : BOOLEAN ]

\* The tracee between two stops: restart_tracee() has noted how it was restarted, and
\* seccomp is not left half disabled.
Restarted == Fields({NULL}, {how}, {"DISABLED", "ENABLED"}, Chains \ {Chained})

\* The tracee while a stop is handled.
Handled ==
    Fields({NULL, "CONT", "SYSCALL"}, {"CONT", "SYSCALL"}, {"DISABLED", "DISABLING", "ENABLED"}, Chains)

\* The types, in the form that is inductive.
Types ==
    /\ kernel \in KernelSet
    /\ tracee \in Restarted
    /\ how \in {"CONT", "SYSCALL"}
    /\ seen \in [enter : {0, 1}, exit : {0, 1}]
    /\ seccomp_detected \in BOOLEAN /\ seccomp_after_ptrace_enter \in BOOLEAN
    /\ eventmsg_state \in {"UNKNOWN", "RELIABLE", "LOST"}
    /\ sigs \in SigsType
    /\ aborted = FALSE

\* Which calls there are, and which stops at which points of the kernel.
Control ==
    /\ cur \in Kinds \cup {"plain", "enter", "exec"}
    /\ next \in {NULL, "plain", "enter"} \cup Rewritten
    /\ nr \in {"real", "void", "trapped", "trapped void"}
    /\ nr = "trapped" => cur = "trap"
    /\ nr \in {"void", "trapped void"} => cur \in Voids
    /\ <<kpc, stop>> \in
          {<<"user", "none">>, <<"user", "SIGNAL">>, <<"user", "SIGSYS">>, <<"user", "SYSEXIT">>,
           <<"sysenter", "none">>, <<"filter", "none">>, <<"exec", "none">>,
           <<"exit", "none">>, <<"exit", "FORK">>, <<"exit", "EXEC">>,
           <<"sigsys", "none">>, <<"sigsys", "SYSEXIT">>}
          \cup (IF kernel.order = "new"
                THEN {<<"filter", "SYSENTER">>, <<"recheck", "SECCOMP">>, <<"recheck", "none">>}
                ELSE {<<"sysenter", "SECCOMP">>, <<"exec", "SYSENTER">>})
    /\ nr \in {"trapped", "trapped void"} => kpc \in {"exit", "sigsys", "user"}
    /\ nr \in {"trapped", "trapped void"} /\ (kpc = "exit" \/ stop = "SYSEXIT") =>
          ~kernel.trap_skips_exit
    /\ kpc = "sigsys" \/ stop = "SIGSYS" => nr \in {"trapped", "trapped void"}
    /\ stop \in {"FORK", "EXEC"} => nr = "real"
    /\ stop = "FORK" => cur = "fork"
    /\ stop = "SIGNAL" => sigs.in_stop \in Signals
    /\ stop \in {"SYSENTER", "SYSEXIT"} => how = "SYSCALL"
    /\ stop = "SYSENTER" => ~(nr = "void" /\ kernel.avoider_negative)
    /\ stop = "SYSEXIT" /\ kpc = "user" => nr \in {"real", "void"}

\* What PRoot has learnt of the kernel is so.
Learnt ==
    /\ tracee.seccomp = "ENABLED" => seccomp_detected
    /\ seccomp_detected => kernel.filter /\ seccomp_after_ptrace_enter = (kernel.order = "new")
    /\ kernel.order = "old" => ~seccomp_after_ptrace_enter
    /\ stop = "SECCOMP" => kernel.filter
    /\ eventmsg_state = "RELIABLE" => ~kernel.loses_msg

\* A guest restarted with PTRACE_CONT has nothing pending.
Quiet ==
    how = "CONT" =>
        /\ tracee.seccomp = "ENABLED" /\ tracee.status = 0
        /\ ~tracee.sysexit_pending /\ ~tracee.already_handled
        /\ tracee.chain = NULL /\ ~tracee.rewritten

\* The calls a chain, or the rewriting of a trapped call, puts in front of the guest.
Inserted == {"plain", "enter", "exit", "fork"}

\* The guest is in its own code, or about to be once a signal is dealt with.
AtUser == kpc = "user" /\ stop \in {"none", "SIGNAL"}

\* During a chain, and before a call that replaces a trapped one, the guest makes the
\* calls PRoot has put there, and no others.
Insertions ==
    /\ tracee.chain # NULL \/ tracee.rewritten =>
          IF AtUser THEN next # NULL ELSE cur \in Inserted
    /\ next # NULL => AtUser /\ (tracee.chain # NULL \/ tracee.rewritten)

\* PRoot takes the tracee to be outside of a call, or in one whose exit is to come.
Outside == tracee.status = 0 /\ ~tracee.already_handled
Inside == tracee.status = 1 /\ ~tracee.already_handled /\ seen.enter = 1 /\ seen.exit = 0

\* The call has not come to PRoot yet.
BeforeEntry ==
    Outside /\ nr = "real" /\ seen.enter = 0 /\ seen.exit = 0

\* The entry has been dealt with, and a guest that is traced has its exit to come.
AfterEntry ==
    /\ how = "SYSCALL" => Inside
    /\ how = "CONT" => seen.exit = 0

\* The points of a call at which PRoot can have been told of it, or not.
PastSysenter == (stop = "none" /\ kpc = "filter") \/ stop = "SECCOMP"
Executing == stop \in {"none", "FORK", "EXEC"} /\ kpc \in {"recheck", "exec", "exit"}
Returning == stop = "SYSEXIT"
Rejected == (stop = "none" /\ kpc = "sigsys") \/ stop = "SIGSYS"

\* A call PRoot is not told the exit of needs none, and PRoot knows of it if it has to.
LeftAlone == cur \notin NeedsExit /\ (cur \in Filtered => seen.enter = 1)

\* Kernels that report the entry stop first.  A rejected call that has no exit stop is
\* still open for PRoot; otherwise its exit stop has closed it.
PhaseNew ==
    /\ kpc = "sysenter" \/ stop = "SYSENTER" => BeforeEntry
    /\ PastSysenter \/ Executing \/ Returning =>
          /\ AfterEntry
          /\ how = "CONT" => IF PastSysenter THEN BeforeEntry ELSE LeftAlone
          /\ how = "SYSCALL" /\ cur = "fork" => sysexit_necessary(tracee)
    /\ Rejected => IF kernel.trap_skips_exit THEN Inside
                   ELSE Outside /\ (cur \in NeedsExit => seen.exit = 1)

\* The entry stop of a call already handled at its seccomp event is still to come, unless
\* there is none because the call has been cancelled.
EntryHandled ==
    /\ tracee.status = 1 /\ seen.enter = 1 /\ seen.exit = 0
    /\ tracee.already_handled = ~(nr = "void" /\ kernel.avoider_negative)

\* Kernels that report the seccomp event first.  The exit stop of a call trapped before
\* its entry stop is taken for the entry, and closed at the SIGSYS.
PhaseOld ==
    /\ nr # "trapped void"
    /\ kpc = "filter" \/ stop = "SECCOMP" => BeforeEntry
    /\ (stop = "none" /\ kpc = "sysenter") \/ stop = "SYSENTER" =>
          /\ how = "CONT" => LeftAlone /\ seen.exit = 0
          /\ how = "SYSCALL" => BeforeEntry \/ EntryHandled
    /\ (Executing \/ Returning) /\ nr # "trapped" =>
          AfterEntry /\ (how = "CONT" => LeftAlone)
    /\ (Executing \/ Returning) /\ nr = "trapped" =>
          Outside /\ seen.enter = 0 /\ seen.exit = 0
    /\ Rejected => IF how = "CONT" THEN Outside ELSE Inside

\* Back in the guest, the call is over for PRoot too, with its exit translated.
Phase ==
    /\ kernel.order = "new" => PhaseNew
    /\ kernel.order = "old" => PhaseOld
    /\ AtUser => Outside /\ (cur \in NeedsExit => seen.exit = 1)

IInv == Types /\ Control /\ Learnt /\ Quiet /\ Insertions /\ Phase

\* What an answer to a stop that is not a signal does to the signals: sig becomes pending.
Resumed(sig) ==
    /\ sigs'.sent = sigs.sent /\ sigs'.delivered = sigs.delivered
    /\ sigs'.pending = sigs.pending \cup sig /\ sigs'.in_stop = NULL

\* The signal held back stays so, or is sent again.
Held ==
    \/ Resumed({}) /\ tracee'.suppressed = tracee.suppressed
    \/ /\ tracee.suppressed # NULL /\ Resumed({tracee.suppressed})
       /\ tracee'.suppressed = NULL

(***************************************************************************)
(* What the operators of SyscallStops do to the fields of a tracee that    *)
(* decide.                                                                 *)
(***************************************************************************)

\* A tracee that is not stopped has the fields of one that is being handled.
LEMMA TraceeHandled == Types => tracee \in Handled
  BY DEF Types, Restarted, Handled, Fields

\* restart_tracee() leaves all fields but two as the handler left them.
LEMMA Restart ==
    ASSUME Types, NEW t \in Handled, NEW sig \in SUBSET Signals, restart_tracee(t, sig),
           t.restart_how # NULL, t.seccomp # "DISABLING", t.chain # Chained
    PROVE  /\ how' = t.restart_how /\ how' \in {"CONT", "SYSCALL"}
           /\ stop' = "none"
           /\ tracee' \in Restarted'
           /\ sigs' \in SigsType
           /\ tracee'.status = t.status /\ tracee'.seccomp = t.seccomp
           /\ tracee'.sysexit_pending = t.sysexit_pending
           /\ tracee'.already_handled = t.already_handled
           /\ tracee'.chain = t.chain /\ tracee'.rewritten = t.rewritten
           /\ tracee'.suppressed = t.suppressed
           /\ stop # "SIGNAL" => Resumed(sig)
  <1>1. /\ how' = t.restart_how /\ how' \in {"CONT", "SYSCALL"}
        /\ stop' = "none"
        /\ tracee' \in Restarted'
        /\ tracee'.status = t.status /\ tracee'.seccomp = t.seccomp
        /\ tracee'.sysexit_pending = t.sysexit_pending
        /\ tracee'.already_handled = t.already_handled
        /\ tracee'.chain = t.chain /\ tracee'.rewritten = t.rewritten
        /\ tracee'.suppressed = t.suppressed
    BY DEF Handled, Restarted, Fields, restart_tracee
  <1>2. sigs' \in SigsType
    BY DEF Types, SigsType, restart_tracee
  <1>3. stop # "SIGNAL" => Resumed(sig)
    BY DEF Types, SigsType, restart_tracee, Resumed
  <1> QED BY <1>1, <1>2, <1>3

\* What the operators of translate_syscall() do to the fields that decide.
LEMMA DefaultRestart ==
    ASSUME NEW t \in Handled
    PROVE  /\ default_restart(t) \in Handled
           /\ default_restart(t) = [t EXCEPT !.restart_how = default_restart(t).restart_how]
           /\ default_restart(t).restart_how = IF t.seccomp = "ENABLED" /\ ~sysexit_necessary(t)
                                               THEN "CONT" ELSE "SYSCALL"
  BY DEF Handled, Fields, default_restart

SameFields(x, t) ==
    /\ x \in Handled
    /\ x.suppressed = t.suppressed /\ x.last_restart_how = t.last_restart_how
    /\ x.already_handled = t.already_handled

\* translate_syscall_enter(): the exit is expected unless the restart is
\* PTRACE_CONT.
LEMMA TranslateEnter ==
    ASSUME NEW t \in Handled, NEW s \in AllKinds \ {"ficlone"}, Types
    PROVE  LET x == translate_enter(t, s) IN
           /\ SameFields(x, t) /\ x.seccomp = t.seccomp /\ x.chain = t.chain
           /\ x.rewritten = t.rewritten
           /\ x.sysexit_pending = (t.sysexit_pending \/ s \in RequestsExit)
           /\ x.restart_how = IF s \in RequestsExit THEN "SYSCALL" ELSE t.restart_how
           /\ x.status = IF x.restart_how = "CONT" THEN 0 ELSE 1
           /\ x.cancelled = (s \in Voids /\ kernel.avoider_negative)
  <1>1. kernel.avoider_negative \in BOOLEAN BY KernelAssumption DEF Types, Kernels
  <1> DEFINE asks == s \in RequestsExit
             r == [t EXCEPT !.sysexit_pending = @ \/ s \in RequestsExit \cup {"ficlone"},
                            !.restart_how = IF s \in RequestsExit THEN "SYSCALL" ELSE @]
             status == IF r.restart_how = "CONT" THEN 0 ELSE 1
             cancelled == s \in Voids /\ kernel.avoider_negative
             x == [r EXCEPT !.status = status, !.cancelled = cancelled]
  <1>2. /\ r \in Handled
        /\ r.sysexit_pending = (t.sysexit_pending \/ s \in RequestsExit)
        /\ r.restart_how = IF s \in RequestsExit THEN "SYSCALL" ELSE t.restart_how
        /\ SameFields(r, t) /\ r.seccomp = t.seccomp /\ r.chain = t.chain /\ r.rewritten = t.rewritten
    BY DEF Handled, Fields, SameFields
  <1> HIDE DEF r
  <1>3. status \in {0, 1} /\ cancelled \in BOOLEAN BY <1>1
  <1> HIDE DEF status, cancelled
  <1>4. x \in Handled /\ SameFields(x, r) BY <1>2, <1>3 DEF Handled, Fields, SameFields
  <1>5. /\ x.seccomp = r.seccomp /\ x.chain = r.chain /\ x.rewritten = r.rewritten
        /\ x.sysexit_pending = r.sysexit_pending /\ x.restart_how = r.restart_how
        /\ x.status = status /\ x.cancelled = cancelled
    BY <1>2, <1>3 DEF Handled, Fields
  <1>6. translate_enter(t, s) = x BY DEF translate_enter, r, status, cancelled
  <1> HIDE DEF x
  <1>7. SameFields(x, t) BY <1>2, <1>4 DEF SameFields
  <1> QED BY <1>2, <1>5, <1>6, <1>7 DEF status, cancelled

\* The entry of a chained call is not translated; its exit is always asked for.
LEMMA TranslateChained ==
    ASSUME NEW t \in Handled
    PROVE  LET x == translate_chained_enter(t) IN
           /\ SameFields(x, t) /\ x.seccomp = t.seccomp /\ x.chain = t.chain
           /\ x.rewritten = t.rewritten
           /\ x.sysexit_pending = t.sysexit_pending
           /\ x.restart_how = "SYSCALL" /\ x.status = 1 /\ x.cancelled = FALSE
  BY DEF Handled, Fields, translate_chained_enter, SameFields

\* The three states of a chain are told apart.
LEMMA ChainFacts ==
    /\ NULL \in Chains /\ Chained \in Chains /\ <<"enter">> \in Chains /\ << >> \in Chains
    /\ Tail(Chained) = <<"enter">> /\ Tail(<<"enter">>) = << >>
    /\ Chained # << >> /\ <<"enter">> # << >> /\ Chained # <<"enter">>
    /\ NULL # Chained /\ NULL # << >> /\ NULL # <<"enter">>
    /\ Head(Chained) = "plain" /\ Head(<<"enter">>) = "enter"
  BY NullAssumption DEF Chains, Chained

\* translate_syscall_exit() and chain_next_syscall(): what is asked for next.
LEMMA TranslateExit ==
    ASSUME NEW t \in Handled, NEW s \in AllKinds, t.chain # Chained
    PROVE  LET x == translate_exit(t, s) IN
           /\ SameFields(x, t) /\ x.status = 0
           /\ x.seccomp = IF t.chain = NULL /\ s = "traceme" /\ t.seccomp = "ENABLED"
                          THEN "DISABLING" ELSE t.seccomp
           /\ x.sysexit_pending = (t.sysexit_pending \/ (t.chain = NULL /\ s = "auxv"))
           /\ x.restart_how = IF t.chain = <<"enter">> \/ (t.chain = NULL /\ s \in {"chain", "auxv"})
                              THEN "SYSCALL" ELSE t.restart_how
           /\ x.chain = IF t.chain = NULL /\ s = "chain" THEN <<"enter">>
                        ELSE IF t.chain = <<"enter">> THEN << >> ELSE NULL
           /\ x.chain = NULL => ~x.rewritten
           /\ x.chain # NULL => x.rewritten = t.rewritten
  <1> DEFINE h == IF t.chain = NULL THEN exit_handler(t, s) ELSE t
             d == [h EXCEPT !.status = 0]
  <1>1. /\ SameFields(h, t) /\ h.rewritten = t.rewritten
        /\ h.seccomp = IF t.chain = NULL /\ s = "traceme" /\ t.seccomp = "ENABLED"
                       THEN "DISABLING" ELSE t.seccomp
        /\ h.sysexit_pending = (t.sysexit_pending \/ (t.chain = NULL /\ s = "auxv"))
        /\ h.restart_how = IF t.chain = NULL /\ s = "auxv" THEN "SYSCALL" ELSE t.restart_how
        /\ h.chain = IF t.chain = NULL /\ s = "chain" THEN Chained ELSE t.chain
    <2>1. CASE t.chain = NULL /\ s = "chain"
      <3>1. h = [t EXCEPT !.chain = Chained] BY <2>1 DEF exit_handler
      <3> HIDE DEF h
      <3> QED BY <2>1, <3>1, ChainFacts DEF Handled, Fields, SameFields
    <2>2. CASE t.chain = NULL /\ s = "traceme"
      <3>1. h = [t EXCEPT !.seccomp = IF @ = "ENABLED" THEN "DISABLING" ELSE @] BY <2>2 DEF exit_handler
      <3> HIDE DEF h
      <3> QED BY <2>2, <3>1 DEF Handled, Fields, SameFields
    <2>3. CASE t.chain = NULL /\ s = "auxv"
      <3>1. h = [t EXCEPT !.sysexit_pending = TRUE, !.restart_how = "SYSCALL"] BY <2>3 DEF exit_handler
      <3> HIDE DEF h
      <3> QED BY <2>3, <3>1 DEF Handled, Fields, SameFields
    <2>4. CASE t.chain # NULL \/ s \notin {"chain", "traceme", "auxv"}
      <3>1. h = t BY <2>4 DEF exit_handler
      <3> HIDE DEF h
      <3> QED BY SMTT(30), <2>4, <3>1 DEF Handled, Fields, SameFields
    <2> QED BY <2>1, <2>2, <2>3, <2>4
  <1> HIDE DEF h
  <1>2. /\ SameFields(d, h) /\ d.rewritten = h.rewritten /\ d.seccomp = h.seccomp /\ d.status = 0
        /\ d.sysexit_pending = h.sysexit_pending /\ d.restart_how = h.restart_how /\ d.chain = h.chain
    BY <1>1 DEF Handled, Fields, SameFields
  <1> DEFINE x == translate_exit(t, s)
  <1>3. x = IF d.chain # NULL THEN chain_next_syscall(d) ELSE [d EXCEPT !.rewritten = FALSE]
    BY DEF translate_exit, h
  <1> HIDE DEF d
  <1>4. d \in Handled /\ h \in Handled /\ h.chain \in Chains /\ t.chain \in Chains
    BY <1>1, <1>2 DEF SameFields, Handled, Fields
  <1> SUFFICES /\ SameFields(x, t) /\ x.status = 0
               /\ x.seccomp = IF t.chain = NULL /\ s = "traceme" /\ t.seccomp = "ENABLED"
                              THEN "DISABLING" ELSE t.seccomp
               /\ x.sysexit_pending = (t.sysexit_pending \/ (t.chain = NULL /\ s = "auxv"))
               /\ x.restart_how = IF t.chain = <<"enter">> \/ (t.chain = NULL /\ s \in {"chain", "auxv"})
                                  THEN "SYSCALL" ELSE t.restart_how
               /\ x.chain = IF t.chain = NULL /\ s = "chain" THEN <<"enter">>
                            ELSE IF t.chain = <<"enter">> THEN << >> ELSE NULL
               /\ x.chain = NULL => ~x.rewritten
               /\ x.chain # NULL => x.rewritten = t.rewritten
    OBVIOUS
  <1> HIDE DEF x
  <1>5. CASE h.chain = NULL
    <2>1. x = [d EXCEPT !.rewritten = FALSE]
      BY ChainFacts, <1>2, <1>3, <1>5 DEF chain_next_syscall
    <2>2. /\ SameFields(x, d) /\ x.status = d.status /\ x.seccomp = d.seccomp
          /\ x.sysexit_pending = d.sysexit_pending /\ x.chain = d.chain
          /\ x.rewritten = FALSE /\ x.restart_how = d.restart_how
      BY <2>1, ChainFacts, <1>4 DEF Handled, Fields, SameFields
    <2> QED BY <2>2, ChainFacts, <1>1, <1>2, <1>4, <1>5 DEF SameFields
  <1>6. CASE h.chain = << >>
    <2>1. x = [d EXCEPT !.chain = NULL, !.rewritten = FALSE]
      BY ChainFacts, <1>2, <1>3, <1>6 DEF chain_next_syscall
    <2>2. /\ SameFields(x, d) /\ x.status = d.status /\ x.seccomp = d.seccomp
          /\ x.sysexit_pending = d.sysexit_pending /\ x.chain = NULL
          /\ x.rewritten = FALSE /\ x.restart_how = d.restart_how
      BY <2>1, ChainFacts, <1>4 DEF Handled, Fields, SameFields
    <2> QED BY <2>2, ChainFacts, <1>1, <1>2, <1>4, <1>6 DEF SameFields
  <1>7. CASE h.chain = <<"enter">>
    <2>1. x = [d EXCEPT !.chain = << >>, !.restart_how = "SYSCALL"]
      BY ChainFacts, <1>2, <1>3, <1>7 DEF chain_next_syscall
    <2>2. /\ SameFields(x, d) /\ x.status = d.status /\ x.seccomp = d.seccomp
          /\ x.sysexit_pending = d.sysexit_pending /\ x.chain = << >>
          /\ x.rewritten = d.rewritten /\ x.restart_how = "SYSCALL"
      BY <2>1, ChainFacts, <1>4 DEF Handled, Fields, SameFields
    <2> QED BY <2>2, ChainFacts, <1>1, <1>2, <1>4, <1>7 DEF SameFields
  <1>8. CASE h.chain = Chained
    <2>1. x = [d EXCEPT !.chain = <<"enter">>, !.restart_how = "SYSCALL"]
      BY ChainFacts, <1>2, <1>3, <1>8 DEF chain_next_syscall
    <2>2. /\ SameFields(x, d) /\ x.status = d.status /\ x.seccomp = d.seccomp
          /\ x.sysexit_pending = d.sysexit_pending /\ x.chain = <<"enter">>
          /\ x.rewritten = d.rewritten /\ x.restart_how = "SYSCALL"
      BY <2>1, ChainFacts, <1>4 DEF Handled, Fields, SameFields
    <2> QED BY <2>2, ChainFacts, <1>1, <1>2, <1>4, <1>8 DEF SameFields
  <1> QED BY <1>4, <1>5, <1>6, <1>7, <1>8 DEF Chains

(***************************************************************************)
(* The guest and the kernel: one lemma per action.                         *)
(***************************************************************************)

\* The first tracee is entering its execve().
LEMMA InitInv ==
    ASSUME Supported, Init PROVE IInv
  <1> USE DEF Init
  <1>1. Types BY ChainFacts DEF Types, SigsType, Restarted, Fields
  <1>2. Control BY NullAssumption DEF Control, AllKinds
  <1>3. Learnt BY DEF Learnt
  <1>4. Quiet BY DEF Quiet
  <1>5. Insertions BY DEF Insertions, AtUser
  <1>6. Phase BY KernelAssumption DEF Phase, PhaseNew, PhaseOld, Kernels, PastSysenter, Executing,
                 Returning, Rejected, AtUser, BeforeEntry, Outside
  <1> QED BY <1>1, <1>2, <1>3, <1>4, <1>5, <1>6 DEF IInv

\* The kernel's own steps change nothing that Types is about but signals.
LEMMA TypesKept ==
    ASSUME Types,
           UNCHANGED <<kernel, how, tracee, seccomp_detected, seccomp_after_ptrace_enter,
                      eventmsg_state, aborted>>,
           seen' \in [enter : {0, 1}, exit : {0, 1}],
           sigs' \in SigsType
    PROVE  Types'
  BY DEF Types, Restarted

\* A call begins.
LEMMA GuestSyscallInv ==
    ASSUME Supported, IInv, NEW s \in Kinds \cup {"plain", "enter"}, GuestSyscall(s) PROVE IInv'
  <1> USE DEF GuestSyscall, running, IInv, globals
  <1>1. UNCHANGED <<kernel, how, tracee, seccomp_detected, seccomp_after_ptrace_enter,
  eventmsg_state, aborted>> BY DEF GuestSyscall
  <1>2. Types' BY <1>1, TypesKept DEF Types
  <1>3. Control' BY NullAssumption DEF Control, Types, Kinds, Rewritten, Voids
  <1>4. Learnt' BY DEF Learnt, Types
  <1>5. Quiet' BY <1>1 DEF Quiet
  <1>6. Insertions' BY DEF Quiet, Types, Insertions, AtUser, Control, Rewritten, Inserted
  <1>7. kernel \in Kernels /\ kernel' = kernel BY KernelAssumption DEF Types
  <1>8. ASSUME kernel.order = "new" PROVE PhaseNew'
    BY <1>7, <1>8 DEF Kernels, Types, Control, Learnt, Quiet, Phase, PhaseNew, PastSysenter,
       Executing, Returning, Rejected, AtUser, BeforeEntry, Outside, Inside, AfterEntry, LeftAlone,
       NeedsExit, FilterSysexit, RequestsExit, Filtered, AllKinds, Voids
  <1>9. ASSUME kernel.order = "old" PROVE PhaseOld'
    BY <1>7, <1>9 DEF Kernels, Types, Control, Learnt, Quiet, Phase, PhaseOld, Executing, Returning,
       Rejected, AtUser, BeforeEntry, Outside, Inside, AfterEntry, LeftAlone, EntryHandled,
       NeedsExit, FilterSysexit, RequestsExit, Filtered, AllKinds, Voids
  <1>10. AtUser' => Outside' /\ (cur' \in NeedsExit => seen'.exit = 1)
    BY <1>7 DEF Kernels, Types, Control, Quiet, Phase, PhaseNew, PhaseOld, PastSysenter, Executing,
       Returning, Rejected, AtUser, BeforeEntry, Outside, Inside, AfterEntry, LeftAlone,
       EntryHandled, NeedsExit, FilterSysexit, RequestsExit, Filtered, AllKinds, Voids
  <1> QED BY <1>2, <1>3, <1>4, <1>5, <1>6, <1>7, <1>8, <1>9, <1>10 DEF Phase

\* The entry stop is reported if it was asked for.
LEMMA KernelSysenterInv ==
    ASSUME Supported, IInv, KernelSysenter PROVE IInv'
  <1> USE DEF KernelSysenter, running, IInv, globals
  <1>1. UNCHANGED <<kernel, how, tracee, seccomp_detected, seccomp_after_ptrace_enter,
  eventmsg_state, aborted>> BY DEF KernelSysenter
  <1>2. Types' BY <1>1, TypesKept DEF Types
  <1>3. Control' BY NullAssumption DEF Control, Types, Kinds, Rewritten, Voids
  <1>4. Learnt' BY DEF Learnt, Types
  <1>5. Quiet' BY <1>1 DEF Quiet
  <1>6. Insertions' BY DEF Quiet, Types, Insertions, AtUser, Control, Rewritten, Inserted
  <1>7. kernel \in Kernels /\ kernel' = kernel BY KernelAssumption DEF Types
  <1>8. ASSUME kernel.order = "new" PROVE PhaseNew'
    BY <1>7, <1>8 DEF Kernels, Types, Control, Learnt, Quiet, Phase, PhaseNew, PastSysenter,
       Executing, Returning, Rejected, AtUser, BeforeEntry, Outside, Inside, AfterEntry, LeftAlone,
       NeedsExit, FilterSysexit, RequestsExit, Filtered, AllKinds, Voids
  <1>9. ASSUME kernel.order = "old" PROVE PhaseOld'
    BY <1>7, <1>9 DEF Kernels, Types, Control, Learnt, Quiet, Phase, PhaseOld, Executing, Returning,
       Rejected, AtUser, BeforeEntry, Outside, Inside, AfterEntry, LeftAlone, EntryHandled,
       NeedsExit, FilterSysexit, RequestsExit, Filtered, AllKinds, Voids
  <1>10. AtUser' => Outside' /\ (cur' \in NeedsExit => seen'.exit = 1)
    BY <1>7 DEF Kernels, Types, Control, Quiet, Phase, PhaseNew, PhaseOld, PastSysenter, Executing,
       Returning, Rejected, AtUser, BeforeEntry, Outside, Inside, AfterEntry, LeftAlone,
       EntryHandled, NeedsExit, FilterSysexit, RequestsExit, Filtered, AllKinds, Voids
  <1> QED BY <1>2, <1>3, <1>4, <1>5, <1>6, <1>7, <1>8, <1>9, <1>10 DEF Phase

\* The filters report, trap or let pass.
LEMMA KernelFilterInv ==
    ASSUME Supported, IInv, KernelFilter PROVE IInv'
  <1> USE DEF KernelFilter, running, IInv, globals
  <1>1. UNCHANGED <<kernel, how, tracee, seccomp_detected, seccomp_after_ptrace_enter,
  eventmsg_state, aborted>> BY DEF KernelFilter
  <1>2. Types' BY <1>1, TypesKept DEF Types
  <1>3. Control' BY NullAssumption DEF Control, Types, Kinds, Rewritten, Voids, Trapped, TrapTo
  <1>4. Learnt' BY DEF Learnt, Types, Trapped, TrapTo
  <1>5. Quiet' BY <1>1 DEF Quiet
  <1>6. Insertions' BY DEF Quiet, Types, Insertions, AtUser, Control, Rewritten, Inserted, Trapped,
                       TrapTo
  <1>7. kernel \in Kernels /\ kernel' = kernel BY KernelAssumption DEF Types
  <1>8. ASSUME kernel.order = "new" PROVE PhaseNew'
    <2>1. AfterEntry /\ (how = "CONT" => BeforeEntry)
          /\ (how = "SYSCALL" /\ cur = "fork" => sysexit_necessary(tracee))
      BY <1>7, <1>8 DEF Phase, PhaseNew, PastSysenter
    <2>2. UNCHANGED <<cur, seen, how, tracee, kernel>> OBVIOUS
    <2>3. CASE Trapped
      <3>1. how = "CONT" => LeftAlone'
        BY <2>1, <2>2, <2>3 DEF Trapped, BeforeEntry, LeftAlone, NeedsExit, FilterSysexit, RequestsExit,
           Filtered, AllKinds
      <3>2. stop' = "none" /\ kpc' = IF kernel.trap_skips_exit THEN "sigsys" ELSE "exit"
        BY <2>3 DEF TrapTo
      <3>3. kernel.trap_skips_exit => how = "SYSCALL" /\ Inside'
        BY <1>7, <1>8, <2>1, <2>2, <2>3
        DEF Kernels, AfterEntry, Inside, Types, BeforeEntry, Outside, Trapped, Learnt, Quiet, Control
      <3> QED BY <1>7, <2>1, <2>2, <3>1, <3>2, <3>3 DEF PhaseNew, PastSysenter, Executing, Returning,
                 Rejected, AfterEntry, Inside, sysexit_necessary
    <2>4. CASE ~Trapped
      <3>1. nr' = nr /\ kpc' = "recheck" /\ stop' \in {"SECCOMP", "none"} BY <1>8, <2>4
      <3>2. how = "CONT" /\ stop' = "none" => LeftAlone'
        BY <1>7, <1>8, <2>1, <2>2, <2>4 DEF BeforeEntry, Outside, LeftAlone, Learnt, Quiet, NeedsExit,
               FilterSysexit, RequestsExit, Filtered, AllKinds
      <3> QED BY <1>7, <2>1, <2>2, <3>1, <3>2 DEF PhaseNew, PastSysenter, Executing, Returning, Rejected,
                 AfterEntry, BeforeEntry, Outside, Inside, sysexit_necessary
    <2> QED BY <2>3, <2>4
  <1>9. ASSUME kernel.order = "old" PROVE PhaseOld'
    BY <1>7, <1>9 DEF Kernels, Types, Control, Learnt, Quiet, Phase, PhaseOld, Executing, Returning,
       Rejected, AtUser, BeforeEntry, Outside, Inside, AfterEntry, LeftAlone, EntryHandled,
       NeedsExit, FilterSysexit, RequestsExit, Filtered, AllKinds, Voids, Trapped, TrapTo
  <1>10. AtUser' => Outside' /\ (cur' \in NeedsExit => seen'.exit = 1)
    BY <1>7 DEF Kernels, Types, Control, Quiet, Phase, PhaseNew, PhaseOld, PastSysenter, Executing,
       Returning, Rejected, AtUser, BeforeEntry, Outside, Inside, AfterEntry, LeftAlone,
       EntryHandled, NeedsExit, FilterSysexit, RequestsExit, Filtered, AllKinds, Voids, Trapped, TrapTo
  <1> QED BY <1>2, <1>3, <1>4, <1>5, <1>6, <1>7, <1>8, <1>9, <1>10 DEF Phase

\* The filters run again on the new number.
LEMMA KernelRecheckInv ==
    ASSUME Supported, IInv, KernelRecheck PROVE IInv'
  <1> USE DEF KernelRecheck, running, IInv, globals
  <1>1. UNCHANGED <<kernel, how, tracee, seccomp_detected, seccomp_after_ptrace_enter,
  eventmsg_state, aborted>> BY DEF KernelRecheck
  <1>2. Types' BY <1>1, TypesKept DEF Types
  <1>3. Control' BY NullAssumption DEF Control, Types, Kinds, Rewritten, Voids, Trapped, TrapTo
  <1>4. Learnt' BY DEF Learnt, Types, Trapped, TrapTo
  <1>5. Quiet' BY <1>1 DEF Quiet
  <1>6. Insertions' BY DEF Quiet, Types, Insertions, AtUser, Control, Rewritten, Inserted, Trapped,
                       TrapTo
  <1>7. kernel \in Kernels /\ kernel' = kernel BY KernelAssumption DEF Types
  <1>8. ASSUME kernel.order = "new" PROVE PhaseNew'
    BY <1>7, <1>8 DEF Kernels, Types, Control, Learnt, Quiet, Phase, PhaseNew, PastSysenter,
       Executing, Returning, Rejected, AtUser, BeforeEntry, Outside, Inside, AfterEntry, LeftAlone,
       NeedsExit, FilterSysexit, RequestsExit, Filtered, AllKinds, Voids, Trapped, TrapTo
  <1>9. ASSUME kernel.order = "old" PROVE PhaseOld'
    BY <1>7, <1>9 DEF Kernels, Types, Control, Learnt, Quiet, Phase, PhaseOld, Executing, Returning,
       Rejected, AtUser, BeforeEntry, Outside, Inside, AfterEntry, LeftAlone, EntryHandled,
       NeedsExit, FilterSysexit, RequestsExit, Filtered, AllKinds, Voids, Trapped, TrapTo
  <1>10. AtUser' => Outside' /\ (cur' \in NeedsExit => seen'.exit = 1)
    BY <1>7 DEF Kernels, Types, Control, Quiet, Phase, PhaseNew, PhaseOld, PastSysenter, Executing,
       Returning, Rejected, AtUser, BeforeEntry, Outside, Inside, AfterEntry, LeftAlone,
       EntryHandled, NeedsExit, FilterSysexit, RequestsExit, Filtered, AllKinds, Voids, Trapped, TrapTo
  <1> QED BY <1>2, <1>3, <1>4, <1>5, <1>6, <1>7, <1>8, <1>9, <1>10 DEF Phase

\* The call runs.
LEMMA KernelExecInv ==
    ASSUME Supported, IInv, KernelExec PROVE IInv'
  <1> USE DEF KernelExec, running, IInv, globals
  <1>1. UNCHANGED <<kernel, how, tracee, seccomp_detected, seccomp_after_ptrace_enter,
  eventmsg_state, aborted>> BY DEF KernelExec
  <1>2. Types' BY <1>1, TypesKept DEF Types
  <1>3. Control' BY NullAssumption DEF Control, Types, Kinds, Rewritten, Voids
  <1>4. Learnt' BY DEF Learnt, Types
  <1>5. Quiet' BY <1>1 DEF Quiet
  <1>6. Insertions' BY DEF Quiet, Types, Insertions, AtUser, Control, Rewritten, Inserted
  <1>7. kernel \in Kernels /\ kernel' = kernel BY KernelAssumption DEF Types
  <1>8. ASSUME kernel.order = "new" PROVE PhaseNew'
    BY <1>7, <1>8 DEF Kernels, Types, Control, Learnt, Quiet, Phase, PhaseNew, PastSysenter,
       Executing, Returning, Rejected, AtUser, BeforeEntry, Outside, Inside, AfterEntry, LeftAlone,
       NeedsExit, FilterSysexit, RequestsExit, Filtered, AllKinds, Voids
  <1>9. ASSUME kernel.order = "old" PROVE PhaseOld'
    BY <1>7, <1>9 DEF Kernels, Types, Control, Learnt, Quiet, Phase, PhaseOld, Executing, Returning,
       Rejected, AtUser, BeforeEntry, Outside, Inside, AfterEntry, LeftAlone, EntryHandled,
       NeedsExit, FilterSysexit, RequestsExit, Filtered, AllKinds, Voids
  <1>10. AtUser' => Outside' /\ (cur' \in NeedsExit => seen'.exit = 1)
    BY <1>7 DEF Kernels, Types, Control, Quiet, Phase, PhaseNew, PhaseOld, PastSysenter, Executing,
       Returning, Rejected, AtUser, BeforeEntry, Outside, Inside, AfterEntry, LeftAlone,
       EntryHandled, NeedsExit, FilterSysexit, RequestsExit, Filtered, AllKinds, Voids
  <1> QED BY <1>2, <1>3, <1>4, <1>5, <1>6, <1>7, <1>8, <1>9, <1>10 DEF Phase

\* The exit stop is reported if it was asked for.
LEMMA KernelExitInv ==
    ASSUME Supported, IInv, KernelExit PROVE IInv'
  <1> USE DEF KernelExit, running, IInv, globals
  <1>1. UNCHANGED <<kernel, how, tracee, seccomp_detected, seccomp_after_ptrace_enter,
  eventmsg_state, aborted>> BY DEF KernelExit
  <1>2. Types' BY <1>1, TypesKept DEF Types
  <1>3. Control' BY NullAssumption DEF Control, Types, Kinds, Rewritten, Voids
  <1>4. Learnt' BY DEF Learnt, Types
  <1>5. Quiet' BY <1>1 DEF Quiet
  <1>6. Insertions' BY DEF Quiet, Types, Insertions, AtUser, Control, Rewritten, Inserted
  <1>7. kernel \in Kernels /\ kernel' = kernel BY KernelAssumption DEF Types
  <1>8. ASSUME kernel.order = "new" PROVE PhaseNew'
    BY <1>7, <1>8 DEF Kernels, Types, Control, Learnt, Quiet, Phase, PhaseNew, PastSysenter,
       Executing, Returning, Rejected, AtUser, BeforeEntry, Outside, Inside, AfterEntry, LeftAlone,
       NeedsExit, FilterSysexit, RequestsExit, Filtered, AllKinds, Voids
  <1>9. ASSUME kernel.order = "old" PROVE PhaseOld'
    BY <1>7, <1>9 DEF Kernels, Types, Control, Learnt, Quiet, Phase, PhaseOld, Executing, Returning,
       Rejected, AtUser, BeforeEntry, Outside, Inside, AfterEntry, LeftAlone, EntryHandled,
       NeedsExit, FilterSysexit, RequestsExit, Filtered, AllKinds, Voids
  <1>10. AtUser' => Outside' /\ (cur' \in NeedsExit => seen'.exit = 1)
    BY <1>7 DEF Kernels, Types, Control, Quiet, Phase, PhaseNew, PhaseOld, PastSysenter, Executing,
       Returning, Rejected, AtUser, BeforeEntry, Outside, Inside, AfterEntry, LeftAlone,
       EntryHandled, NeedsExit, FilterSysexit, RequestsExit, Filtered, AllKinds, Voids
  <1> QED BY <1>2, <1>3, <1>4, <1>5, <1>6, <1>7, <1>8, <1>9, <1>10 DEF Phase

\* The SIGSYS of a trapped call is reported.
LEMMA KernelSigsysInv ==
    ASSUME Supported, IInv, KernelSigsys PROVE IInv'
  <1> USE DEF KernelSigsys, running, IInv, globals
  <1>1. UNCHANGED <<kernel, how, tracee, seccomp_detected, seccomp_after_ptrace_enter,
  eventmsg_state, aborted>> BY DEF KernelSigsys
  <1>2. Types' BY <1>1, TypesKept DEF Types
  <1>3. Control' BY NullAssumption DEF Control, Types, Kinds, Rewritten, Voids
  <1>4. Learnt' BY DEF Learnt, Types
  <1>5. Quiet' BY <1>1 DEF Quiet
  <1>6. Insertions' BY DEF Quiet, Types, Insertions, AtUser, Control, Rewritten, Inserted
  <1>7. kernel \in Kernels /\ kernel' = kernel BY KernelAssumption DEF Types
  <1>8. ASSUME kernel.order = "new" PROVE PhaseNew'
    BY <1>7, <1>8 DEF Kernels, Types, Control, Learnt, Quiet, Phase, PhaseNew, PastSysenter,
       Executing, Returning, Rejected, AtUser, BeforeEntry, Outside, Inside, AfterEntry, LeftAlone,
       NeedsExit, FilterSysexit, RequestsExit, Filtered, AllKinds, Voids
  <1>9. ASSUME kernel.order = "old" PROVE PhaseOld'
    BY <1>7, <1>9 DEF Kernels, Types, Control, Learnt, Quiet, Phase, PhaseOld, Executing, Returning,
       Rejected, AtUser, BeforeEntry, Outside, Inside, AfterEntry, LeftAlone, EntryHandled,
       NeedsExit, FilterSysexit, RequestsExit, Filtered, AllKinds, Voids
  <1>10. AtUser' => Outside' /\ (cur' \in NeedsExit => seen'.exit = 1)
    BY <1>7 DEF Kernels, Types, Control, Quiet, Phase, PhaseNew, PhaseOld, PastSysenter, Executing,
       Returning, Rejected, AtUser, BeforeEntry, Outside, Inside, AfterEntry, LeftAlone,
       EntryHandled, NeedsExit, FilterSysexit, RequestsExit, Filtered, AllKinds, Voids
  <1> QED BY <1>2, <1>3, <1>4, <1>5, <1>6, <1>7, <1>8, <1>9, <1>10 DEF Phase

\* A signal is reported.
LEMMA KernelSignalInv ==
    ASSUME Supported, IInv, NEW sig \in Signals, KernelSignal(sig) PROVE IInv'
  <1> USE DEF KernelSignal, running, IInv, globals
  <1>1. UNCHANGED <<kernel, how, tracee, seccomp_detected, seccomp_after_ptrace_enter,
  eventmsg_state, aborted>> BY DEF KernelSignal
  <1>2. Types' BY <1>1, TypesKept DEF Types, SigsType
  <1>3. Control' BY NullAssumption DEF Control, Types, SigsType, Kinds, Rewritten, Voids
  <1>4. Learnt' BY DEF Learnt, Types
  <1>5. Quiet' BY <1>1 DEF Quiet
  <1>6. Insertions' BY DEF Quiet, Types, Insertions, AtUser, Control, Rewritten, Inserted
  <1>7. kernel \in Kernels /\ kernel' = kernel BY KernelAssumption DEF Types
  <1>8. ASSUME kernel.order = "new" PROVE PhaseNew'
    BY <1>7, <1>8 DEF Kernels, Types, Control, Learnt, Quiet, Phase, PhaseNew, PastSysenter,
       Executing, Returning, Rejected, AtUser, BeforeEntry, Outside, Inside, AfterEntry, LeftAlone,
       NeedsExit, FilterSysexit, RequestsExit, Filtered, AllKinds, Voids
  <1>9. ASSUME kernel.order = "old" PROVE PhaseOld'
    BY <1>7, <1>9 DEF Kernels, Types, Control, Learnt, Quiet, Phase, PhaseOld, Executing, Returning,
       Rejected, AtUser, BeforeEntry, Outside, Inside, AfterEntry, LeftAlone, EntryHandled,
       NeedsExit, FilterSysexit, RequestsExit, Filtered, AllKinds, Voids
  <1>10. AtUser' => Outside' /\ (cur' \in NeedsExit => seen'.exit = 1)
    BY <1>7 DEF Kernels, Types, Control, Quiet, Phase, PhaseNew, PhaseOld, PastSysenter, Executing,
       Returning, Rejected, AtUser, BeforeEntry, Outside, Inside, AfterEntry, LeftAlone,
       EntryHandled, NeedsExit, FilterSysexit, RequestsExit, Filtered, AllKinds, Voids
  <1> QED BY <1>2, <1>3, <1>4, <1>5, <1>6, <1>7, <1>8, <1>9, <1>10 DEF Phase

(***************************************************************************)
(* PRoot at the entry and exit stops. Each handler is first summed up in a *)
(* formula that says what it leaves behind, and the invariant is shown for *)
(* that.                                                                   *)
(***************************************************************************)

\* How an event ends: the stop is answered, and what follows of the tracee.
Answered ==
    /\ UNCHANGED <<kernel, kpc, cur>>
    /\ stop' = "none"
    /\ how' \in {"CONT", "SYSCALL"}
    /\ tracee' \in Restarted'
    /\ sigs' \in SigsType
    /\ Held
    /\ aborted' = FALSE

\* A stop taken for an entry that is to be translated.
EntryDone ==
    /\ Answered /\ UNCHANGED <<seccomp_detected, seccomp_after_ptrace_enter, eventmsg_state>>
    /\ how' = "SYSCALL" /\ tracee'.status = 1 /\ ~tracee'.already_handled
    /\ cur = "fork" => tracee'.sysexit_pending \/ tracee.chain # NULL
    /\ UNCHANGED <<tracee.seccomp, tracee.chain, tracee.rewritten>>
    /\ next' = NULL
    /\ nr' = IF tracee.chain = NULL /\ cur \in Voids /\ nr = "real" THEN "void" ELSE nr
    /\ seen' = [seen EXCEPT !.enter = @ + 1]

ExitDone ==
    /\ Answered /\ UNCHANGED <<seccomp_detected, seccomp_after_ptrace_enter, eventmsg_state, nr>>
    /\ tracee'.status = 0 /\ ~tracee'.already_handled
    /\ how' = "CONT" => /\ tracee'.seccomp = "ENABLED" /\ ~tracee'.sysexit_pending
                        /\ tracee'.chain = NULL /\ ~tracee'.rewritten
    /\ tracee'.seccomp = "ENABLED" => tracee.seccomp = "ENABLED"
    /\ tracee'.chain = NULL => ~tracee'.rewritten /\ next' = NULL
    /\ tracee'.chain # NULL => next' \in {"plain", "enter"} /\ (tracee.chain # NULL \/ cur = "chain")
    /\ seen' = [seen EXCEPT !.exit = @ + 1]

HandledDone ==
    /\ Answered
    /\ UNCHANGED <<seccomp_detected, seccomp_after_ptrace_enter, eventmsg_state, nr, next, seen>>
    /\ how' = "SYSCALL" /\ tracee'.status = 1 /\ ~tracee'.already_handled
    /\ UNCHANGED <<tracee.seccomp, tracee.chain, tracee.rewritten>>

\* The restart that the seccomp mode makes of the default one.
LEMMA SeccompMode ==
    ASSUME Types
    PROVE  LET m == seccomp_mode(default_restart(tracee)) IN
           /\ m \in Handled /\ m.status = tracee.status /\ m.seccomp = tracee.seccomp
           /\ m.chain = tracee.chain /\ m.rewritten = tracee.rewritten
           /\ m.already_handled = tracee.already_handled
           /\ m.restart_how \in {"CONT", "SYSCALL"}
           /\ m.restart_how = "CONT" => tracee.seccomp = "ENABLED" /\ tracee.status = 1 /\ ~m.sysexit_pending
           /\ tracee.seccomp = "ENABLED" /\ tracee.status = 0 => m.sysexit_pending
           /\ default_restart(tracee).seccomp = tracee.seccomp /\ m.suppressed = tracee.suppressed
  <1> DEFINE t == default_restart(tracee)
  <1>1. /\ t \in Handled /\ t = [tracee EXCEPT !.restart_how = t.restart_how]
        /\ t.restart_how = IF tracee.seccomp = "ENABLED" /\ ~sysexit_necessary(tracee)
                           THEN "CONT" ELSE "SYSCALL"
    BY TraceeHandled, DefaultRestart
  <1> HIDE DEF t
  <1>2. /\ t.status = tracee.status /\ t.seccomp = tracee.seccomp /\ t.chain = tracee.chain
        /\ t.rewritten = tracee.rewritten /\ t.already_handled = tracee.already_handled
        /\ t.suppressed = tracee.suppressed
    BY <1>1, TraceeHandled DEF Handled, Fields
  <1>3. CASE t.seccomp # "ENABLED"
    BY <1>1, <1>2, <1>3 DEF seccomp_mode, t
  <1>4. CASE t.seccomp = "ENABLED" /\ t.status = 0
    <2> DEFINE m == [t EXCEPT !.restart_how = "SYSCALL", !.sysexit_pending = TRUE]
    <2>1. seccomp_mode(t) = m BY <1>4 DEF seccomp_mode, IsInSysenter
    <2>2. /\ m \in Handled /\ m.status = t.status /\ m.seccomp = t.seccomp
          /\ m.chain = t.chain /\ m.rewritten = t.rewritten /\ m.already_handled = t.already_handled
          /\ m.restart_how = "SYSCALL" /\ m.sysexit_pending /\ m.suppressed = t.suppressed
      BY <1>1 DEF Handled, Fields
    <2> HIDE DEF m
    <2> QED BY <1>2, <1>4, <2>1, <2>2 DEF t
  <1>5. CASE t.seccomp = "ENABLED" /\ t.status = 1
    <2> DEFINE m == [t EXCEPT !.restart_how = "CONT", !.sysexit_pending = FALSE]
    <2>1. seccomp_mode(t) = m BY <1>5 DEF seccomp_mode, IsInSysenter
    <2>2. /\ m \in Handled /\ m.status = t.status /\ m.seccomp = t.seccomp
          /\ m.chain = t.chain /\ m.rewritten = t.rewritten /\ m.already_handled = t.already_handled
          /\ m.restart_how = "CONT" /\ ~m.sysexit_pending /\ m.suppressed = t.suppressed
      BY <1>1 DEF Handled, Fields
    <2> HIDE DEF m
    <2> QED BY <1>2, <1>5, <2>1, <2>2 DEF t
  <1> QED BY <1>1, <1>3, <1>4, <1>5 DEF Handled, Fields

\* The end of SyscallStopTranslate(): the signal that is given back, and seccomp disabled.
LEMMA Finished ==
    ASSUME NEW x \in Handled, NEW b \in BOOLEAN
    PROVE  LET w == [x EXCEPT !.skip_signal = b]
               y == IF can_redeliver(w) THEN [w EXCEPT !.suppressed = NULL] ELSE w
               z == seccomp_disabled(y)
           IN  /\ z \in Handled /\ z.status = x.status /\ z.chain = x.chain /\ z.rewritten = x.rewritten
               /\ z.already_handled = x.already_handled /\ z.sysexit_pending = x.sysexit_pending
               /\ z.seccomp = IF x.seccomp = "DISABLING" THEN "DISABLED" ELSE x.seccomp
               /\ z.restart_how = IF x.seccomp = "DISABLING" THEN "SYSCALL" ELSE x.restart_how
               /\ LET sig == IF can_redeliver(w) THEN {w.suppressed} ELSE {}
                  IN  /\ sig \in SUBSET Signals
                      /\ \/ sig = {} /\ z.suppressed = x.suppressed
                         \/ x.suppressed # NULL /\ sig = {x.suppressed} /\ z.suppressed = NULL
  <1> DEFINE w == [x EXCEPT !.skip_signal = b]
             y == IF can_redeliver(w) THEN [w EXCEPT !.suppressed = NULL] ELSE w
             z == seccomp_disabled(y)
  <1>1. /\ w \in Handled /\ w.status = x.status /\ w.chain = x.chain /\ w.rewritten = x.rewritten
        /\ w.already_handled = x.already_handled /\ w.sysexit_pending = x.sysexit_pending
        /\ w.seccomp = x.seccomp /\ w.restart_how = x.restart_how /\ w.suppressed = x.suppressed
    BY DEF Handled, Fields
  <1> HIDE DEF w
  <1>2. (IF can_redeliver(w) THEN {w.suppressed} ELSE {}) \in SUBSET Signals
    BY <1>1 DEF can_redeliver, Handled, Fields
  <1> DEFINE sig == IF can_redeliver(w) THEN {w.suppressed} ELSE {}
  <1>3. /\ y \in Handled /\ y.status = x.status /\ y.chain = x.chain /\ y.rewritten = x.rewritten
        /\ y.already_handled = x.already_handled /\ y.sysexit_pending = x.sysexit_pending
        /\ y.seccomp = x.seccomp /\ y.restart_how = x.restart_how
        /\ \/ sig = {} /\ y.suppressed = x.suppressed
           \/ x.suppressed # NULL /\ sig = {x.suppressed} /\ y.suppressed = NULL
    <2>1. CASE can_redeliver(w)
      <3>1. y = [w EXCEPT !.suppressed = NULL] /\ sig = {w.suppressed} BY <2>1
      <3>2. w.suppressed # NULL BY <2>1 DEF can_redeliver
      <3> HIDE DEF y, sig
      <3> QED BY <1>1, <3>1, <3>2 DEF Handled, Fields
    <2>2. CASE ~can_redeliver(w)
      <3>1. y = w /\ sig = {} BY <2>2
      <3> QED BY <1>1, <3>1
    <2> QED BY <2>1, <2>2
  <1> HIDE DEF y
  <1>4. /\ z \in Handled /\ z.status = x.status /\ z.chain = x.chain /\ z.rewritten = x.rewritten
        /\ z.already_handled = x.already_handled /\ z.sysexit_pending = x.sysexit_pending
        /\ z.seccomp = IF x.seccomp = "DISABLING" THEN "DISABLED" ELSE x.seccomp
        /\ z.restart_how = IF x.seccomp = "DISABLING" THEN "SYSCALL" ELSE x.restart_how
        /\ z.suppressed = y.suppressed
    <2>1. CASE y.seccomp = "DISABLING"
      <3>1. z = [y EXCEPT !.restart_how = "SYSCALL",
      !.seccomp = "DISABLED"] BY <2>1 DEF seccomp_disabled
      <3> HIDE DEF z
      <3> QED BY <1>3, <2>1, <3>1 DEF Handled, Fields
    <2>2. CASE y.seccomp # "DISABLING"
      BY <1>3, <2>2 DEF seccomp_disabled
    <2> QED BY <2>1, <2>2
  <1> QED BY <1>2, <1>3, <1>4 DEF y, w

\* A stop at which PRoot expects an entry is taken for one, and one at which it
\* expects an exit for that; an entry handled at its seccomp event is skipped.
LEMMA SyscallStopDone ==
    ASSUME Supported, IInv, SyscallStop
    PROVE  \/ tracee.status = 0 /\ ~tracee.already_handled /\ EntryDone
           \/ tracee.status = 1 /\ ~tracee.already_handled /\ ExitDone
           \/ tracee.status = 1 /\ tracee.already_handled /\ HandledDone
  <1> DEFINE t == default_restart(tracee)
             m == seccomp_mode(t)
             x == translate_syscall(m, cur)
             w == [x EXCEPT !.skip_signal = IsInSysenter(m) /\ m.chain = NULL /\ cur \in Voids]
             y == IF can_redeliver(w) THEN [w EXCEPT !.suppressed = NULL] ELSE w
             z == seccomp_disabled(y)
             sig == IF can_redeliver(w) THEN {w.suppressed} ELSE {}
             Answer ==
               /\ z \in Handled /\ z.status = x.status /\ z.chain = x.chain /\ z.rewritten = x.rewritten
               /\ z.already_handled = x.already_handled /\ z.sysexit_pending = x.sysexit_pending
               /\ z.seccomp = IF x.seccomp = "DISABLING" THEN "DISABLED" ELSE x.seccomp
               /\ z.restart_how = IF x.seccomp = "DISABLING" THEN "SYSCALL" ELSE x.restart_how
               /\ sig \in SUBSET Signals
               /\ \/ sig = {} /\ z.suppressed = x.suppressed
                  \/ x.suppressed # NULL /\ sig = {x.suppressed} /\ z.suppressed = NULL
               /\ Translated(m) /\ restart_tracee(z, sig) /\ UNCHANGED aborted
  <1>1. /\ m \in Handled /\ m.status = tracee.status /\ m.seccomp = tracee.seccomp
        /\ m.chain = tracee.chain /\ m.rewritten = tracee.rewritten
        /\ m.already_handled = tracee.already_handled
        /\ m.restart_how \in {"CONT", "SYSCALL"}
        /\ m.restart_how = "CONT" => tracee.seccomp = "ENABLED" /\ tracee.status = 1 /\ ~m.sysexit_pending
        /\ tracee.seccomp = "ENABLED" /\ tracee.status = 0 => m.sysexit_pending
        /\ t.seccomp = tracee.seccomp /\ m.suppressed = tracee.suppressed
    BY SeccompMode DEF IInv
  <1>2. /\ tracee.seccomp \in {"DISABLED", "ENABLED"} /\ tracee.status \in {0, 1}
        /\ tracee.already_handled \in BOOLEAN /\ tracee.chain \in Chains \ {Chained}
        /\ aborted = FALSE
    BY DEF IInv, Types, Restarted, Fields
  <1>3. /\ IF m.already_handled THEN SyscallStopAlreadyHandled(m) ELSE SyscallStopTranslate(m)
        /\ UNCHANGED <<kernel, kpc, cur, seccomp_detected, seccomp_after_ptrace_enter, eventmsg_state>>
    BY <1>1, <1>2 DEF SyscallStop, globals
  <1>4. cur \in AllKinds \ {"ficlone"}
    BY KindsAssumption DEF IInv, Control, Supported, Kinds, AllKinds
  <1> HIDE DEF m, t
  <1>5. CASE tracee.already_handled
    <2>1. tracee.status = 1 /\ ~seccomp_after_ptrace_enter
      BY <1>2, <1>5, KernelAssumption DEF SyscallStop, IInv, Control, Types, Kernels, Learnt, Phase,
         PhaseNew, PhaseOld, BeforeEntry, EntryHandled, AfterEntry, Inside, Outside, Returning
    <2> DEFINE n == [m EXCEPT !.already_handled = FALSE, !.restart_how = "SYSCALL"]
    <2>2. restart_tracee(n, {}) /\ NotTranslated /\ UNCHANGED aborted
      BY <1>1, <1>3, <1>5, <2>1 DEF SyscallStopAlreadyHandled, IsInSysenter
    <2>3. /\ n \in Handled /\ n.restart_how = "SYSCALL" /\ ~n.already_handled /\ n.status = m.status
          /\ n.seccomp = m.seccomp /\ n.chain = m.chain /\ n.rewritten = m.rewritten
          /\ n.suppressed = m.suppressed
      BY <1>1 DEF Handled, Fields
    <2> HIDE DEF n
    <2>4. n.restart_how # NULL /\ n.seccomp # "DISABLING" /\ n.chain # Chained
      BY <1>1, <1>2, <2>3, NullAssumption
    <2>5. Types /\ stop # "SIGNAL" BY DEF IInv, SyscallStop
    <2>6. HandledDone
      BY <1>1, <1>2, <1>3, <2>1, <2>2, <2>3, <2>4, <2>5, Restart
      DEF HandledDone, Answered, Held, NotTranslated
    <2> QED BY <1>5, <2>1, <2>6
  <1>6. ASSUME ~tracee.already_handled, x \in Handled
        PROVE  Answer
    <2> DEFINE b == IsInSysenter(m) /\ m.chain = NULL /\ cur \in Voids
    <2>1. b \in BOOLEAN OBVIOUS
    <2>2. SyscallStopTranslate(m) BY <1>1, <1>3, <1>6
    <2>3. Translated(m) /\ restart_tracee(z, sig) /\ UNCHANGED aborted BY <2>2 DEF SyscallStopTranslate
    <2> HIDE DEF b, x
    <2> QED BY <1>6, <2>1, <2>3, Finished DEF b
  <1>7. CASE ~tracee.already_handled /\ tracee.status = 0
    <2>1. /\ SameFields(x, m) /\ x.seccomp = m.seccomp /\ x.chain = m.chain /\ x.rewritten = m.rewritten
          /\ cur = "fork" => x.sysexit_pending \/ m.chain # NULL
          /\ x.restart_how = "SYSCALL" /\ x.status = 1
      <3>1. m.restart_how = "SYSCALL" BY <1>1, <1>7
      <3>2. CASE m.chain = NULL
        <4>1. x = translate_enter(m, cur) BY <1>1, <1>7, <3>2 DEF translate_syscall, IsInSysenter
        <4>2. Types BY DEF IInv
        <4> HIDE DEF x
        <4>3. cur = "fork" => cur \in RequestsExit BY DEF RequestsExit
        <4> DEFINE e == translate_enter(m, cur)
        <4>4. /\ SameFields(e, m) /\ e.seccomp = m.seccomp /\ e.chain = m.chain
              /\ e.rewritten = m.rewritten
              /\ e.sysexit_pending = (m.sysexit_pending \/ cur \in RequestsExit)
              /\ e.restart_how = IF cur \in RequestsExit THEN "SYSCALL" ELSE m.restart_how
              /\ e.status = IF e.restart_how = "CONT" THEN 0 ELSE 1
          BY <1>1, <1>4, <4>2, TranslateEnter
        <4> HIDE DEF e
        <4>5. /\ SameFields(x, m) /\ x.seccomp = m.seccomp /\ x.chain = m.chain
              /\ x.rewritten = m.rewritten
              /\ x.sysexit_pending = (m.sysexit_pending \/ cur \in RequestsExit)
              /\ x.restart_how = "SYSCALL" /\ x.status = 1
          BY <3>1, <4>1, <4>4 DEF e
        <4> QED BY <4>3, <4>5
      <3>3. CASE m.chain # NULL
        BY <1>1, <1>7, <3>3, TranslateChained DEF translate_syscall, IsInSysenter
      <3> QED BY <3>2, <3>3
    <2>2. x \in Handled BY <2>1 DEF SameFields
    <2> HIDE DEF z, sig, x
    <2>3. Answer BY <1>6, <1>7, <2>2
    <2>4. Translated(m) /\ restart_tracee(z, sig) /\ UNCHANGED aborted BY <2>3
    <2>5. x.suppressed = tracee.suppressed /\ ~x.already_handled /\ x.seccomp # "DISABLING"
      BY <1>1, <1>2, <1>7, <2>1 DEF SameFields
    <2>6. /\ z \in Handled /\ sig \in SUBSET Signals
          /\ z.restart_how = "SYSCALL" /\ z.status = 1 /\ ~z.already_handled
          /\ z.sysexit_pending = x.sysexit_pending
      BY <2>1, <2>3, <2>5
    <2>7. z.seccomp = tracee.seccomp /\ z.chain = tracee.chain /\ z.rewritten = tracee.rewritten
      BY <1>1, <2>1, <2>3, <2>5
    <2>8. \/ sig = {} /\ z.suppressed = tracee.suppressed
          \/ tracee.suppressed # NULL /\ sig = {tracee.suppressed} /\ z.suppressed = NULL
      BY <2>3, <2>5
    <2>9. z.restart_how # NULL /\ z.seccomp # "DISABLING" /\ z.chain # Chained
      BY <1>2, <2>6, <2>7, NullAssumption
    <2>10. Types /\ stop # "SIGNAL" /\ ~aborted BY DEF IInv, Types, SyscallStop
    <2> HIDE DEF Answer
    <2>11. /\ how' = "SYSCALL" /\ stop' = "none" /\ tracee' \in Restarted' /\ sigs' \in SigsType
           /\ tracee'.status = 1 /\ ~tracee'.already_handled
           /\ tracee'.seccomp = z.seccomp /\ tracee'.chain = z.chain /\ tracee'.rewritten = z.rewritten
           /\ tracee'.sysexit_pending = x.sysexit_pending
           /\ tracee'.suppressed = z.suppressed /\ Resumed(sig)
      BY <2>4, <2>6, <2>9, <2>10, Restart
    <2>12. Held BY <2>8, <2>11 DEF Held
    <2>13. Answered /\ UNCHANGED <<seccomp_detected, seccomp_after_ptrace_enter, eventmsg_state>>
      BY <1>3, <2>4, <2>10, <2>11, <2>12 DEF Answered
    <2>14. UNCHANGED <<tracee.seccomp, tracee.chain, tracee.rewritten>> BY <2>7, <2>11
    <2>15. cur = "fork" => tracee'.sysexit_pending \/ tracee.chain # NULL BY <1>1, <2>1, <2>11
    <2>16. IsInSysenter(m) BY <1>1, <1>7 DEF IsInSysenter
    <2>17. /\ next' = NULL
           /\ nr' = IF tracee.chain = NULL /\ cur \in Voids /\ nr = "real" THEN "void" ELSE nr
           /\ seen' = [seen EXCEPT !.enter = @ + 1]
      BY <1>1, <2>4, <2>16 DEF Translated, next_chained
    <2>18. EntryDone BY <2>11, <2>13, <2>14, <2>15, <2>17 DEF EntryDone
    <2> QED BY <1>7, <2>18
  <1>8. CASE ~tracee.already_handled /\ tracee.status = 1
    <2>1. x = translate_exit(m, cur) BY <1>1, <1>8 DEF translate_syscall, IsInSysenter
    <2>2. /\ SameFields(x, m) /\ x.status = 0
          /\ x.seccomp = IF m.chain = NULL /\ cur = "traceme" /\ m.seccomp = "ENABLED"
                         THEN "DISABLING" ELSE m.seccomp
          /\ x.sysexit_pending = (m.sysexit_pending \/ (m.chain = NULL /\ cur = "auxv"))
          /\ x.restart_how = IF m.chain = <<"enter">> \/ (m.chain = NULL /\ cur \in {"chain", "auxv"})
                             THEN "SYSCALL" ELSE m.restart_how
          /\ x.chain = IF m.chain = NULL /\ cur = "chain" THEN <<"enter">>
                       ELSE IF m.chain = <<"enter">> THEN << >> ELSE NULL
          /\ x.chain = NULL => ~x.rewritten
      <3> HIDE DEF x
      <3> QED BY <1>1, <1>2, <1>4, <2>1, TranslateExit
    <2>3. x \in Handled BY <2>2 DEF SameFields
    <2> HIDE DEF z, sig, x
    <2>4. Answer BY <1>6, <1>8, <2>3
    <2>5. Translated(m) /\ restart_tracee(z, sig) /\ UNCHANGED aborted BY <2>4
    <2>6. x.suppressed = tracee.suppressed /\ ~x.already_handled /\ x.chain # Chained
      <3>1. x.suppressed = tracee.suppressed /\ ~x.already_handled BY <1>1, <1>8, <2>2 DEF SameFields
      <3>2. x.chain # Chained BY <2>2, ChainFacts
      <3> QED BY <3>1, <3>2
    <2>7. x.restart_how \in {"CONT", "SYSCALL"} BY <1>1, <2>2
    <2>8. /\ z \in Handled /\ sig \in SUBSET Signals /\ z.status = 0 /\ ~z.already_handled
          /\ z.restart_how \in {"CONT", "SYSCALL"} /\ z.seccomp # "DISABLING" /\ z.chain # Chained
      BY <2>2, <2>4, <2>6, <2>7
    <2>9. \/ sig = {} /\ z.suppressed = tracee.suppressed
          \/ tracee.suppressed # NULL /\ sig = {tracee.suppressed} /\ z.suppressed = NULL
      BY <2>4, <2>6
    <2>10. /\ z.chain = x.chain /\ z.rewritten = x.rewritten /\ z.sysexit_pending = x.sysexit_pending
           /\ z.seccomp = IF x.seccomp = "DISABLING" THEN "DISABLED" ELSE x.seccomp
           /\ z.restart_how = IF x.seccomp = "DISABLING" THEN "SYSCALL" ELSE x.restart_how
      BY <2>4
    <2>11. Types /\ stop # "SIGNAL" /\ ~aborted BY DEF IInv, Types, SyscallStop
    <2>12. z.restart_how # NULL BY <2>8, NullAssumption
    <2> HIDE DEF Answer
    <2>13. /\ how' = z.restart_how /\ stop' = "none" /\ tracee' \in Restarted' /\ sigs' \in SigsType
           /\ tracee'.status = 0 /\ ~tracee'.already_handled
           /\ tracee'.seccomp = z.seccomp /\ tracee'.chain = z.chain /\ tracee'.rewritten = z.rewritten
           /\ tracee'.sysexit_pending = z.sysexit_pending
           /\ tracee'.suppressed = z.suppressed /\ Resumed(sig)
      BY <2>5, <2>8, <2>11, <2>12, Restart
    <2>14. Held BY <2>9, <2>13 DEF Held
    <2>15. Answered /\ UNCHANGED <<seccomp_detected, seccomp_after_ptrace_enter, eventmsg_state>>
      BY <1>3, <2>5, <2>8, <2>11, <2>13, <2>14 DEF Answered
    <2>16. ~IsInSysenter(m) BY <1>1, <1>8 DEF IsInSysenter
    <2>17. UNCHANGED nr /\ seen' = [seen EXCEPT !.exit = @ + 1] /\ next' = next_chained(m, cur)
      BY <2>5, <2>16 DEF Translated
    <2>18. /\ z.chain = NULL => next' = NULL
           /\ z.chain # NULL => next' \in {"plain", "enter"} /\ (tracee.chain # NULL \/ cur = "chain")
      <3>1. next' = LET chain == IF tracee.chain = NULL /\ cur = "chain" THEN Chained ELSE tracee.chain
                    IN  IF chain \notin {NULL, << >>} THEN Head(chain) ELSE NULL
        BY <1>1, <2>16, <2>17 DEF next_chained
      <3>2. z.chain = x.chain BY <2>10
      <3>3. CASE tracee.chain = NULL BY <1>1, <2>2, <3>1, <3>2, <3>3, ChainFacts
      <3>4. CASE tracee.chain = << >> BY <1>1, <2>2, <3>1, <3>2, <3>4, ChainFacts
      <3>5. CASE tracee.chain = <<"enter">> BY <1>1, <2>2, <3>1, <3>2, <3>5, ChainFacts
      <3> QED BY <1>2, <3>3, <3>4, <3>5 DEF Chains
    <2>19. z.restart_how = "CONT" => /\ z.seccomp = "ENABLED" /\ ~z.sysexit_pending
                                     /\ z.chain = NULL /\ ~z.rewritten
      <3> SUFFICES ASSUME z.restart_how = "CONT"
                   PROVE  /\ z.seccomp = "ENABLED" /\ ~z.sysexit_pending
                          /\ z.chain = NULL /\ ~z.rewritten
        OBVIOUS
      <3>1. x.restart_how = "CONT" /\ x.seccomp # "DISABLING" BY <2>10
      <3>2. m.restart_how = "CONT" /\ m.chain # <<"enter">> /\ ~(m.chain = NULL /\ cur \in {"chain", "auxv"})
        BY <2>2, <3>1
      <3>3. m.seccomp = "ENABLED" /\ ~m.sysexit_pending BY <1>1, <3>2
      <3>4. x.seccomp = "ENABLED" /\ ~x.sysexit_pending BY <2>2, <3>1, <3>2, <3>3
      <3>5. x.chain = NULL /\ ~x.rewritten BY <1>1, <1>2, <2>2, <3>2 DEF Chains
      <3> QED BY <2>10, <3>4, <3>5
    <2>20. z.seccomp = "ENABLED" => tracee.seccomp = "ENABLED" BY <1>1, <2>2, <2>10
    <2>21. z.chain = NULL => ~z.rewritten BY <2>2, <2>10
    <2>22. ExitDone BY <2>13, <2>15, <2>17, <2>18, <2>19, <2>20, <2>21 DEF ExitDone
    <2> QED BY <1>8, <2>22
  <1> QED BY <1>2, <1>5, <1>7, <1>8

\* At an entry or exit stop, the status says which it is, and what has been
\* translated.
LEMMA WhereStopped ==
    ASSUME IInv, stop \in {"SYSENTER", "SYSEXIT"}
    PROVE  /\ tracee.status = 0 =>
                 /\ seen.enter = 0 /\ seen.exit = 0
                 /\ IF stop = "SYSENTER" THEN nr = "real"
                    ELSE kernel.order = "old" /\ nr = "trapped" /\ kpc = "sigsys"
           /\ tracee.status = 1 =>
                 /\ seen.enter = 1 /\ seen.exit = 0
                 /\ tracee.already_handled => kernel.order = "old" /\ stop = "SYSENTER"
                 /\ ~tracee.already_handled =>
                      stop = "SYSEXIT" /\ (kernel.order = "old" => kpc = "user" /\ nr # "trapped")
  <1>1. /\ how = "SYSCALL"
        /\ stop = "SYSENTER" => ~(nr = "void" /\ kernel.avoider_negative)
        /\ stop = "SYSEXIT" => IF kpc = "user" THEN nr \in {"real", "void"}
                               ELSE kpc = "sigsys" /\ nr \in {"trapped", "trapped void"}
    BY DEF IInv, Control
  <1>2. CASE kernel.order = "new"
    <2>1. CASE stop = "SYSENTER" BY <1>2, <2>1 DEF IInv, Phase, PhaseNew, BeforeEntry, Outside
    <2>2. CASE stop = "SYSEXIT"
      <3>1. Inside BY <1>1, <1>2, <2>2 DEF IInv, Phase, PhaseNew, AfterEntry, Returning
      <3> QED BY <1>2, <2>2, <3>1 DEF Inside
    <2> QED BY <2>1, <2>2
  <1>3. CASE kernel.order = "old"
    <2>1. PhaseOld BY <1>3 DEF IInv, Phase
    <2>2. CASE stop = "SYSENTER"
      <3>1. BeforeEntry \/ EntryHandled BY <1>1, <2>1, <2>2 DEF PhaseOld
      <3>2. CASE BeforeEntry BY <2>2, <3>2 DEF BeforeEntry, Outside
      <3>3. CASE EntryHandled
        <4>1. tracee.already_handled \in BOOLEAN BY DEF IInv, Types, Restarted, Fields
        <4>2. tracee.already_handled BY <1>1, <2>2, <3>3, <4>1 DEF EntryHandled
        <4> QED BY <1>3, <2>2, <3>3, <4>2 DEF EntryHandled
      <3> QED BY <3>1, <3>2, <3>3
    <2>3. CASE stop = "SYSEXIT"
      <3>1. IF nr = "trapped" THEN Outside /\ seen.enter = 0 /\ seen.exit = 0 ELSE Inside
        BY <1>1, <2>1, <2>3 DEF PhaseOld, Returning, AfterEntry
      <3>2. CASE nr = "trapped" BY <1>1, <1>3, <2>3, <3>1, <3>2 DEF Outside
      <3>3. CASE nr # "trapped"
        <4>1. kpc = "user" BY <1>1, <2>1, <2>3, <3>3 DEF PhaseOld
        <4> QED BY <1>3, <2>3, <3>1, <3>3, <4>1 DEF Inside
      <3> QED BY <3>2, <3>3
    <2> QED BY <2>2, <2>3
  <1> QED BY <1>2, <1>3, KernelAssumption DEF IInv, Types, Kernels

\* An entry that has not been translated is, once.
LEMMA SeenEntry ==
    ASSUME Types, seen.enter = 0, seen' = [seen EXCEPT !.enter = @ + 1]
    PROVE  seen' \in [enter : {0, 1}, exit : {0, 1}] /\ seen'.enter = 1 /\ seen'.exit = seen.exit
  BY SMTT(30) DEF Types

\* An exit that has not been translated is, once.
LEMMA SeenExit ==
    ASSUME Types, seen.exit = 0, seen' = [seen EXCEPT !.exit = @ + 1]
    PROVE  seen' \in [enter : {0, 1}, exit : {0, 1}] /\ seen'.exit = 1 /\ seen'.enter = seen.enter
  BY SMTT(30) DEF Types

\* The invariant after an entry.
LEMMA EntryDoneKeeps ==
    ASSUME Supported, IInv, stop \in {"SYSENTER", "SYSEXIT"}, tracee.status = 0, EntryDone PROVE IInv'
  <1> USE DEF IInv, EntryDone, Answered
  <1>1. kernel \in Kernels BY KernelAssumption DEF Types
  <1>2. /\ seen.enter = 0 /\ seen.exit = 0 /\ seen'.enter = 1 /\ seen'.exit = 0
        /\ seen' \in [enter : {0, 1}, exit : {0, 1}]
        /\ IF stop = "SYSENTER"
           THEN nr = "real" ELSE kernel.order = "old" /\ nr = "trapped" /\ kpc = "sigsys"
    BY WhereStopped, SeenEntry, SeenExit
  <1>3. Types' BY <1>2 DEF Types
  <1>4. Control' BY <1>1, <1>2 DEF Control, Kinds, Rewritten
  <1>5. Learnt' BY DEF Learnt
  <1>6. Quiet' BY DEF Quiet
  <1>7. Insertions' BY <1>1, <1>2, NullAssumption DEF Insertions, AtUser, Control, Inserted, Voids,
                       AllKinds, Types, Restarted, Fields
  <1>8. ASSUME kernel.order = "new" PROVE PhaseNew'
    BY <1>1, <1>2, <1>8 DEF Types, Control, Phase, PhaseNew, PastSysenter, Executing, Returning,
       Rejected, AtUser, BeforeEntry, Outside, Inside, AfterEntry, LeftAlone, sysexit_necessary,
       NeedsExit, FilterSysexit, RequestsExit
  <1>9. ASSUME kernel.order = "old" PROVE PhaseOld'
    BY <1>1, <1>2, <1>9 DEF Types, Control, Phase, PhaseOld, Executing, Returning, Rejected, AtUser,
       BeforeEntry, Outside, Inside, AfterEntry, LeftAlone, EntryHandled, NeedsExit, FilterSysexit,
       RequestsExit
  <1>10. AtUser' => Outside' /\ (cur' \in NeedsExit => seen'.exit = 1)
    BY <1>2 DEF Types, Control, AtUser, Outside
  <1> QED BY <1>3, <1>4, <1>5, <1>6, <1>7, <1>8, <1>9, <1>10 DEF Phase, Kernels

\* The invariant after an exit.
LEMMA ExitDoneKeeps ==
    ASSUME Supported, IInv, stop \in {"SYSENTER", "SYSEXIT"}, tracee.status = 1,
           ~tracee.already_handled, ExitDone
    PROVE  IInv'
  <1> USE DEF IInv, ExitDone, Answered
  <1>1. kernel \in Kernels BY KernelAssumption DEF Types
  <1>2. /\ seen.enter = 1 /\ seen.exit = 0 /\ seen'.enter = 1 /\ seen'.exit = 1
        /\ seen' \in [enter : {0, 1}, exit : {0, 1}]
        /\ stop = "SYSEXIT" /\ (kernel.order = "old" => kpc = "user" /\ nr # "trapped")
    BY WhereStopped, SeenEntry, SeenExit
  <1>3. Types' BY <1>2 DEF Types
  <1>4. Control' BY <1>1, <1>2 DEF Control, Kinds, Rewritten
  <1>5. Learnt' BY DEF Learnt
  <1>6. Quiet' BY DEF Quiet
  <1>7. Insertions' BY <1>1, <1>2, NullAssumption DEF Insertions, AtUser, Control, Inserted, Voids,
                       AllKinds, Types, Restarted, Fields
  <1>8. ASSUME kernel.order = "new" PROVE PhaseNew'
    BY <1>1, <1>2, <1>8 DEF Types, Control, Phase, PhaseNew, PastSysenter, Executing, Returning,
       Rejected, AtUser, BeforeEntry, Outside, Inside, AfterEntry, LeftAlone, sysexit_necessary,
       NeedsExit, FilterSysexit, RequestsExit
  <1>9. ASSUME kernel.order = "old" PROVE PhaseOld'
    BY <1>1, <1>2, <1>9 DEF Types, Control, Phase, PhaseOld, Executing, Returning, Rejected, AtUser,
       BeforeEntry, Outside, Inside, AfterEntry, LeftAlone, EntryHandled, NeedsExit, FilterSysexit,
       RequestsExit
  <1>10. AtUser' => Outside' /\ (cur' \in NeedsExit => seen'.exit = 1)
    BY <1>2 DEF Types, Control, AtUser, Outside
  <1> QED BY <1>3, <1>4, <1>5, <1>6, <1>7, <1>8, <1>9, <1>10 DEF Phase, Kernels

\* The invariant after the skipped entry.
LEMMA HandledDoneKeeps ==
    ASSUME Supported, IInv, stop \in {"SYSENTER", "SYSEXIT"}, tracee.status = 1,
           tracee.already_handled, HandledDone
    PROVE  IInv'
  <1> USE DEF IInv, HandledDone, Answered
  <1>1. kernel \in Kernels BY KernelAssumption DEF Types
  <1>2. seen.enter = 1 /\ seen.exit = 0 /\ kernel.order = "old" /\ stop = "SYSENTER"
    BY WhereStopped
  <1>3. Types' BY <1>2 DEF Types
  <1>4. Control' BY <1>1, <1>2 DEF Control, Kinds, Rewritten
  <1>5. Learnt' BY DEF Learnt
  <1>6. Quiet' BY DEF Quiet
  <1>7. Insertions' BY <1>1, <1>2, NullAssumption DEF Insertions, AtUser, Control, Inserted, Voids,
                       AllKinds, Types, Restarted, Fields
  <1>8. ASSUME kernel.order = "new" PROVE PhaseNew'
    BY <1>1, <1>2, <1>8 DEF Types, Control, Phase, PhaseNew, PastSysenter, Executing, Returning,
       Rejected, AtUser, BeforeEntry, Outside, Inside, AfterEntry, LeftAlone, sysexit_necessary,
       NeedsExit, FilterSysexit, RequestsExit
  <1>9. ASSUME kernel.order = "old" PROVE PhaseOld'
    BY <1>1, <1>2, <1>9 DEF Types, Control, Phase, PhaseOld, Executing, Returning, Rejected, AtUser,
       BeforeEntry, Outside, Inside, AfterEntry, LeftAlone, EntryHandled, NeedsExit, FilterSysexit,
       RequestsExit
  <1>10. AtUser' => Outside' /\ (cur' \in NeedsExit => seen'.exit = 1)
    BY <1>2 DEF Types, Control, AtUser, Outside
  <1> QED BY <1>3, <1>4, <1>5, <1>6, <1>7, <1>8, <1>9, <1>10 DEF Phase, Kernels

\* Entry and exit stops keep the invariant.
LEMMA SyscallStopInv ==
    ASSUME Supported, IInv, SyscallStop PROVE IInv'
  BY SyscallStopDone, EntryDoneKeeps, ExitDoneKeeps, HandledDoneKeeps DEF SyscallStop

(***************************************************************************)
(* PRoot at the other stops.                                               *)
(***************************************************************************)

\* The guest goes on from a stop at which nothing is translated.
Passed ==
    /\ UNCHANGED <<kernel, kpc, cur, next, nr, seen, seccomp_detected,
                   seccomp_after_ptrace_enter, eventmsg_state, aborted>>
    /\ stop' = "none" /\ tracee' \in Restarted' /\ sigs' \in SigsType
    /\ UNCHANGED <<tracee.status, tracee.seccomp, tracee.sysexit_pending,
                   tracee.already_handled, tracee.chain, tracee.rewritten>>

\* handle_tracee_event() lets a fork event pass with the default restart.  It is
\* the way the guest was going: the exit of a fork is always asked for.
LEMMA ForkStopDone ==
    ASSUME Supported, IInv, ForkStop
    PROVE  Passed /\ Held /\ UNCHANGED how
  <1> DEFINE t == default_restart(tracee)
  <1>1. /\ t \in Handled /\ t = [tracee EXCEPT !.restart_how = t.restart_how]
        /\ t.restart_how = IF tracee.seccomp = "ENABLED" /\ ~sysexit_necessary(tracee)
                           THEN "CONT" ELSE "SYSCALL"
        /\ Types
    BY TraceeHandled, DefaultRestart DEF IInv
  <1>2. tracee.seccomp # "DISABLING" /\ tracee.chain # Chained
    BY DEF IInv, Types, Restarted, Fields
  <1>3. restart_tracee(t, {}) /\ stop = "FORK" BY DEF ForkStop
  <1> HIDE DEF t
  <1>4. /\ t.status = tracee.status /\ t.seccomp = tracee.seccomp
        /\ t.sysexit_pending = tracee.sysexit_pending
        /\ t.already_handled = tracee.already_handled /\ t.chain = tracee.chain
        /\ t.rewritten = tracee.rewritten /\ t.suppressed = tracee.suppressed
    BY <1>1, TraceeHandled DEF Handled, Fields
  <1>5. /\ how' = t.restart_how /\ stop' = "none" /\ tracee' \in Restarted' /\ sigs' \in SigsType
        /\ UNCHANGED <<tracee.status, tracee.seccomp, tracee.sysexit_pending,
                       tracee.already_handled, tracee.chain, tracee.rewritten>>
        /\ Held
    BY <1>1, <1>2, <1>3, <1>4, Restart, NullAssumption DEF Held
  <1>6. UNCHANGED how
    <2>1. kernel \in Kernels BY <1>1, KernelAssumption DEF Types
    <2>2. cur = "fork" /\ Executing /\ kpc = "exit" /\ nr = "real"
      BY <1>3 DEF IInv, Control, Executing
    <2>3. cur \in NeedsExit BY <2>2 DEF NeedsExit, RequestsExit
    <2>4. CASE kernel.order = "new"
      <3>1. PhaseNew /\ ~PastSysenter BY <1>3, <2>4 DEF IInv, Phase, PastSysenter
      <3>2. how # "CONT" BY <2>2, <2>3, <3>1 DEF PhaseNew, LeftAlone
      <3>3. how = "SYSCALL" BY <1>1, <3>2 DEF Types
      <3>4. sysexit_necessary(tracee) BY <2>2, <3>1, <3>3 DEF PhaseNew
      <3> QED BY <1>1, <1>5, <3>3, <3>4
    <2>5. CASE kernel.order = "old"
      BY <2>2, <2>5, KindsAssumption DEF Supported, IInv, Control, Kinds
    <2> QED BY <2>1, <2>4, <2>5 DEF Kernels
  <1> QED BY <1>5, <1>6 DEF ForkStop, Passed, NotTranslated, globals

\* An exec event passes with the restart that came before it.
LEMMA ExecStopDone ==
    ASSUME Supported, IInv, ExecStop
    PROVE  Passed /\ Held /\ UNCHANGED how
  <1> DEFINE t == [tracee EXCEPT !.restart_how = tracee.last_restart_how]
  <1>1. /\ t \in Handled /\ t.restart_how = how /\ how \in {"CONT", "SYSCALL"}
        /\ t.status = tracee.status /\ t.seccomp = tracee.seccomp
        /\ t.sysexit_pending = tracee.sysexit_pending
        /\ t.already_handled = tracee.already_handled /\ t.chain = tracee.chain
        /\ t.rewritten = tracee.rewritten /\ t.suppressed = tracee.suppressed
    BY DEF IInv, Types, Restarted, Handled, Fields
  <1>2. restart_tracee(t, {}) /\ stop = "EXEC" BY DEF ExecStop
  <1>3. tracee.seccomp # "DISABLING" /\ tracee.chain # Chained /\ Types
    BY DEF IInv, Types, Restarted, Fields
  <1> HIDE DEF t
  <1>4. /\ UNCHANGED how /\ stop' = "none" /\ tracee' \in Restarted' /\ sigs' \in SigsType
        /\ UNCHANGED <<tracee.status, tracee.seccomp, tracee.sysexit_pending,
                       tracee.already_handled, tracee.chain, tracee.rewritten>>
        /\ Held
    BY <1>1, <1>2, <1>3, Restart, NullAssumption DEF Held
  <1> QED BY <1>4 DEF ExecStop, Passed, NotTranslated, globals

\* A fork or exec event keeps the invariant.
LEMMA EventPassed ==
    ASSUME Supported, IInv, stop \in {"FORK", "EXEC"}, Passed, UNCHANGED how PROVE IInv'
  <1> USE DEF IInv, Passed
  <1>1. Types' BY DEF Types
  <1>2. Control' BY DEF Control, Kinds, Rewritten
  <1>3. Learnt' BY DEF Learnt
  <1>4. Quiet' BY DEF Quiet
  <1>5. Insertions' BY DEF Insertions, AtUser, Control
  <1>6. kernel \in Kernels /\ kernel' = kernel BY KernelAssumption DEF Types
  <1>7. ASSUME kernel.order = "new" PROVE PhaseNew'
    BY <1>6, <1>7 DEF Control, Phase, PhaseNew, PastSysenter, Executing, Returning, Rejected, AtUser,
       BeforeEntry, Outside, Inside, AfterEntry, LeftAlone, sysexit_necessary
  <1>8. ASSUME kernel.order = "old" PROVE PhaseOld'
    BY <1>6, <1>8 DEF Control, Phase, PhaseOld, Executing, Returning, Rejected, AtUser,
       BeforeEntry, Outside, Inside, AfterEntry, LeftAlone, EntryHandled
  <1>9. ~AtUser' BY DEF Control, AtUser
  <1> QED BY <1>1, <1>2, <1>3, <1>4, <1>5, <1>6, <1>7, <1>8, <1>9 DEF Phase

\* A signal is held back during a chain, and delivered otherwise.
LEMMA SignalStopDone ==
    ASSUME Supported, IInv, SignalStop
    PROVE  /\ Passed /\ how' \in {"CONT", "SYSCALL"}
           /\ how' = "CONT" => tracee.seccomp = "ENABLED" /\ ~sysexit_necessary(tracee)
           /\ sigs'.sent = sigs.sent /\ sigs'.pending = sigs.pending /\ sigs'.in_stop = NULL
           /\ IF tracee.chain # NULL \/ tracee.rewritten
              THEN tracee'.suppressed = sigs.in_stop /\ sigs'.delivered = sigs.delivered
              ELSE /\ tracee'.suppressed = tracee.suppressed
                   /\ sigs'.delivered = sigs.delivered \cup {sigs.in_stop}
  <1> DEFINE t == default_restart(tracee)
             u == [t EXCEPT !.suppressed = sigs.in_stop]
  <1>1. /\ t \in Handled /\ t = [tracee EXCEPT !.restart_how = t.restart_how]
        /\ t.restart_how = IF tracee.seccomp = "ENABLED" /\ ~sysexit_necessary(tracee)
                           THEN "CONT" ELSE "SYSCALL"
        /\ Types
    BY TraceeHandled, DefaultRestart DEF IInv
  <1>2. IF t.chain # NULL \/ t.rewritten
        THEN restart_tracee(u, {}) ELSE restart_tracee(t, {sigs.in_stop})
    BY DEF SignalStop
  <1>3. tracee.seccomp # "DISABLING" /\ tracee.chain # Chained BY <1>1 DEF Types, Restarted, Fields
  <1>4. sigs.in_stop \in Signals /\ stop = "SIGNAL" BY DEF SignalStop, IInv, Control
  <1> HIDE DEF t
  <1>5. /\ t.status = tracee.status /\ t.seccomp = tracee.seccomp
        /\ t.sysexit_pending = tracee.sysexit_pending
        /\ t.already_handled = tracee.already_handled /\ t.chain = tracee.chain
        /\ t.rewritten = tracee.rewritten /\ t.suppressed = tracee.suppressed
    BY <1>1, TraceeHandled DEF Handled, Fields
  <1>6. /\ u \in Handled /\ u.restart_how = t.restart_how
        /\ u.status = t.status /\ u.seccomp = t.seccomp /\ u.sysexit_pending = t.sysexit_pending
        /\ u.already_handled = t.already_handled /\ u.chain = t.chain /\ u.rewritten = t.rewritten
        /\ u.suppressed = sigs.in_stop
    BY <1>1, <1>4 DEF Handled, Fields
  <1> HIDE DEF u
  <1>7. \A x, sig : restart_tracee(x, sig) =>
           /\ sigs'.sent = sigs.sent /\ sigs'.pending = sigs.pending /\ sigs'.in_stop = NULL
           /\ sigs'.delivered = sigs.delivered \cup sig
    BY SMTT(30), <1>1, <1>4 DEF restart_tracee, Types, SigsType
  <1>8. CASE tracee.chain # NULL \/ tracee.rewritten
    <2>1. restart_tracee(u, {}) BY <1>2, <1>5, <1>8
    <2>2. sigs'.delivered = sigs.delivered \cup {} BY <1>7, <2>1
    <2>3. sigs'.sent = sigs.sent /\ sigs'.pending = sigs.pending /\ sigs'.in_stop = NULL
      BY <1>7, <2>1
    <2>4. Passed /\ how' = t.restart_how /\ tracee'.suppressed = sigs.in_stop
      BY <1>1, <1>3, <1>5, <1>6, <2>1, Restart, NullAssumption
         DEF SignalStop, Passed, NotTranslated, globals
    <2> QED BY <1>1, <1>8, <2>2, <2>3, <2>4
  <1>9. CASE ~(tracee.chain # NULL \/ tracee.rewritten)
    <2>1. restart_tracee(t, {sigs.in_stop}) BY <1>2, <1>5, <1>9
    <2>2. /\ sigs'.sent = sigs.sent /\ sigs'.pending = sigs.pending /\ sigs'.in_stop = NULL
          /\ sigs'.delivered = sigs.delivered \cup {sigs.in_stop}
      BY <1>7, <2>1
    <2>3. Passed /\ how' = t.restart_how /\ tracee'.suppressed = tracee.suppressed
      BY <1>1, <1>3, <1>4, <1>5, <2>1, Restart, NullAssumption
         DEF SignalStop, Passed, NotTranslated, globals
    <2> QED BY <1>1, <1>9, <2>2, <2>3
  <1> QED BY <1>8, <1>9

\* A signal keeps the invariant.
LEMMA SignalStopInv ==
    ASSUME Supported, IInv, SignalStop PROVE IInv'
  <1> USE DEF IInv
  <1>1. /\ Passed /\ how' \in {"CONT", "SYSCALL"} /\ stop = "SIGNAL"
        /\ how' = "CONT" => tracee.seccomp = "ENABLED" /\ ~sysexit_necessary(tracee)
    BY SignalStopDone DEF SignalStop
  <1>2. AtUser /\ Outside /\ kpc = "user" BY <1>1 DEF Control, AtUser, Phase
  <1>3. Types' BY <1>1 DEF Types, Passed
  <1>4. Control' BY <1>1, <1>2 DEF Passed, Control, Kinds, Rewritten
  <1>5. Learnt' BY <1>1 DEF Passed, Learnt
  <1>6. Quiet' BY <1>1, <1>2 DEF Passed, Quiet, Outside, sysexit_necessary
  <1>7. Insertions' BY <1>1, <1>2 DEF Passed, Insertions, AtUser
  <1>8. PhaseNew' BY <1>1, <1>2 DEF Passed, PhaseNew, PastSysenter, Executing, Returning, Rejected
  <1>9. ASSUME kernel.order = "old" PROVE PhaseOld'
    BY <1>1, <1>2, <1>9 DEF Passed, Phase, PhaseOld, Executing, Returning, Rejected
  <1>10. Outside' /\ (cur' \in NeedsExit => seen'.exit = 1)
    BY <1>1, <1>2 DEF Passed, Phase, AtUser, Outside
  <1> QED BY <1>1, <1>3, <1>4, <1>5, <1>6, <1>7, <1>8, <1>9, <1>10 DEF Phase, Passed

\* At a SIGSYS, no chain is under way, and what is left of the call is its
\* exit, if PRoot still expects it.
LEMMA WhereRejected ==
    ASSUME IInv, stop = "SIGSYS"
    PROVE  /\ tracee.chain = NULL /\ ~tracee.rewritten /\ next = NULL
           /\ nr \in {"trapped", "trapped void"} /\ kpc = "user"
           /\ cur \in {"trap"} \cup Voids
           /\ tracee.status = 0 => (cur \in NeedsExit => seen.exit = 1)
           /\ tracee.status = 1 => /\ seen.exit = 0
                                   /\ cur = "trap" \/ tracee.seccomp # "ENABLED"
  <1>1. /\ nr \in {"trapped", "trapped void"} /\ kpc = "user"
        /\ nr = "trapped" => cur = "trap"
        /\ nr = "trapped void" => cur \in Voids
    BY DEF IInv, Control
  <1>2. tracee.chain = NULL /\ ~tracee.rewritten /\ next = NULL
    BY <1>1 DEF IInv, Insertions, AtUser, Inserted, Voids
  <1>3. kernel \in Kernels BY KernelAssumption DEF IInv, Types
  <1>4. CASE kernel.order = "new"
    <2>1. PhaseNew /\ Rejected BY <1>4 DEF IInv, Phase, Rejected
    <2>2. CASE kernel.trap_skips_exit
      <3>1. tracee.seccomp # "ENABLED" BY <1>3, <2>2 DEF IInv, Learnt, Kernels
      <3>2. Inside BY <2>1, <2>2 DEF PhaseNew
      <3>3. tracee.status = 1 /\ seen.exit = 0 BY <3>2 DEF Inside
      <3> QED BY <1>1, <1>2, <3>1, <3>3
    <2>3. CASE ~kernel.trap_skips_exit
      <3>1. Outside /\ (cur \in NeedsExit => seen.exit = 1) BY <2>1, <2>3 DEF PhaseNew
      <3>2. tracee.status # 1 BY <3>1 DEF Outside
      <3>3. cur \in {"trap"} \cup Voids BY <1>1
      <3> QED BY <1>1, <1>2, <3>1, <3>2, <3>3
    <2> QED BY <2>2, <2>3
  <1>5. CASE kernel.order = "old"
    <2>1. PhaseOld /\ Rejected BY <1>5 DEF IInv, Phase, Rejected
    <2>2. nr = "trapped" /\ cur = "trap" BY <1>1, <2>1 DEF PhaseOld
    <2>3. cur \notin NeedsExit BY <2>2 DEF NeedsExit, FilterSysexit, RequestsExit
    <2>4. Outside \/ Inside BY <2>1 DEF PhaseOld
    <2>5. tracee.status = 1 => seen.exit = 0 BY <2>4 DEF Inside, Outside
    <2> QED BY <1>1, <1>2, <2>2, <2>3, <2>5
  <1> QED BY <1>3, <1>4, <1>5 DEF Kernels

\* What a SIGSYS leaves.
SigsysDone ==
    /\ Answered /\ UNCHANGED <<seccomp_detected, seccomp_after_ptrace_enter, eventmsg_state, nr>>
    /\ tracee'.status = 0 /\ ~tracee'.already_handled /\ tracee'.chain = NULL
    /\ UNCHANGED tracee.seccomp
    /\ \/ /\ next' = NULL /\ ~tracee'.rewritten
          /\ how' = "CONT" => tracee'.seccomp = "ENABLED" /\ ~tracee'.sysexit_pending
       \/ next' \in Rewritten /\ tracee'.rewritten /\ how' = "SYSCALL"
    /\ seen' = IF tracee.status = 0 THEN seen ELSE [seen EXCEPT !.exit = @ + 1]

\* handle_seccomp_event() leaves the tracee outside of any call, with at most
\* one call to restart.
LEMMA SigsysStopDone ==
    ASSUME Supported, IInv, SigsysStop
    PROVE  SigsysDone
  <1> DEFINE b == default_restart(tracee)
             d == [b EXCEPT !.already_handled = FALSE]
             t == IF IsInSysenter(d) THEN d ELSE translate_syscall(d, cur)
             k == [t EXCEPT !.skip_signal = FALSE]
             e == [t EXCEPT !.status = 0]
             r == [t EXCEPT !.status = 0, !.rewritten = TRUE, !.restart_how = "SYSCALL"]
  <1>1. /\ b \in Handled /\ b = [tracee EXCEPT !.restart_how = b.restart_how]
        /\ b.restart_how = IF tracee.seccomp = "ENABLED" /\ ~sysexit_necessary(tracee)
                           THEN "CONT" ELSE "SYSCALL"
        /\ Types
    BY TraceeHandled, DefaultRestart DEF IInv
  <1>2. /\ tracee.seccomp \in {"DISABLED", "ENABLED"} /\ tracee.status \in {0, 1} /\ aborted = FALSE
        /\ tracee.sysexit_pending \in BOOLEAN
    BY DEF IInv, Types, Restarted, Fields
  <1>3. /\ IF IsInSysenter(d) THEN UNCHANGED seen ELSE seen' = [seen EXCEPT !.exit = @ + 1]
        /\ \/ next' = (IF IsInSysenter(d) THEN next ELSE next_chained(d, cur)) /\ restart_tracee(k, {})
           \/ next' = NULL /\ restart_tracee(e, {})
           \/ next' \in Rewritten /\ restart_tracee(r, {})
        /\ UNCHANGED <<kernel, kpc, cur, nr, seccomp_detected, seccomp_after_ptrace_enter,
                       eventmsg_state, aborted>>
    BY DEF SigsysStop, handle_seccomp_event, globals
  <1>4. cur \in AllKinds BY KindsAssumption DEF IInv, Control, Kinds, AllKinds
  <1>5. /\ tracee.chain = NULL /\ ~tracee.rewritten /\ next = NULL
        /\ cur \in {"trap"} \cup Voids
        /\ tracee.status = 1 => cur = "trap" \/ tracee.seccomp # "ENABLED"
    BY WhereRejected DEF SigsysStop
  <1> HIDE DEF b
  <1>6. /\ d \in Handled /\ d.status = tracee.status /\ d.seccomp = tracee.seccomp /\ d.chain = NULL
        /\ d.sysexit_pending = tracee.sysexit_pending /\ ~d.rewritten /\ ~d.already_handled
        /\ d.restart_how = b.restart_how /\ d.suppressed = tracee.suppressed
    BY <1>1, <1>5, TraceeHandled DEF Handled, Fields
  <1>7. d.restart_how \in {"CONT", "SYSCALL"}
        /\ (d.restart_how = "CONT" => d.seccomp = "ENABLED" /\ ~d.sysexit_pending)
    BY <1>1, <1>6 DEF sysexit_necessary
  <1> HIDE DEF d
  <1>8. /\ t \in Handled /\ t.status = 0 /\ t.seccomp = tracee.seccomp /\ t.chain = NULL
        /\ t.sysexit_pending = tracee.sysexit_pending /\ ~t.rewritten /\ ~t.already_handled
        /\ t.restart_how = d.restart_how /\ t.suppressed = tracee.suppressed
    <2>1. CASE tracee.status = 0 BY <1>6, <2>1 DEF IsInSysenter
    <2>2. CASE tracee.status = 1
      <3>1. t = translate_exit(d, cur) BY <1>6, <2>2 DEF IsInSysenter, translate_syscall
      <3>2. d.chain # Chained BY <1>6, ChainFacts
      <3>3. d.chain # <<"enter">> BY <1>6, ChainFacts
      <3>4. cur \notin {"chain", "auxv"} /\ ~(cur = "traceme" /\ d.seccomp = "ENABLED")
        BY <1>5, <1>6, <2>2 DEF Voids
      <3> HIDE DEF t
      <3>5. /\ SameFields(t, d) /\ t.status = 0 /\ t.seccomp = d.seccomp
            /\ t.sysexit_pending = (d.sysexit_pending \/ (d.chain = NULL /\ cur = "auxv"))
            /\ t.restart_how = d.restart_how /\ t.chain = NULL /\ ~t.rewritten
        <4> DEFINE x == translate_exit(d, cur)
        <4>1. /\ SameFields(x, d) /\ x.status = 0
              /\ x.seccomp = IF d.chain = NULL /\ cur = "traceme" /\ d.seccomp = "ENABLED"
                             THEN "DISABLING" ELSE d.seccomp
              /\ x.sysexit_pending = (d.sysexit_pending \/ (d.chain = NULL /\ cur = "auxv"))
              /\ x.restart_how = IF d.chain = <<"enter">> \/ (d.chain = NULL /\ cur \in {"chain", "auxv"})
                                 THEN "SYSCALL" ELSE d.restart_how
              /\ x.chain = IF d.chain = NULL /\ cur = "chain" THEN <<"enter">>
                           ELSE IF d.chain = <<"enter">> THEN << >> ELSE NULL
              /\ x.chain = NULL => ~x.rewritten
          <5>1. d \in Handled /\ cur \in AllKinds /\ d.chain # Chained BY <1>4, <1>6, <3>2
          <5> QED BY ONLY <5>1, TranslateExit
        <4> HIDE DEF x
        <4> QED BY <3>1, <3>3, <3>4, <4>1 DEF x
      <3>6. t.sysexit_pending = d.sysexit_pending BY <1>2, <1>6, <3>4, <3>5
      <3> QED BY <1>6, <3>5, <3>6 DEF SameFields
    <2> QED BY <1>2, <2>1, <2>2
  <1>9. next_chained(d, cur) = NULL BY <1>5, <1>6 DEF next_chained, Voids
  <1>10. seen' = IF tracee.status = 0 THEN seen ELSE [seen EXCEPT !.exit = @ + 1]
    BY <1>3, <1>6 DEF IsInSysenter
  <1> HIDE DEF t
  <1>11. /\ k \in Handled /\ k.status = 0 /\ k.seccomp = t.seccomp /\ k.chain = NULL
         /\ k.sysexit_pending = t.sysexit_pending /\ ~k.rewritten /\ ~k.already_handled
         /\ k.restart_how = t.restart_how
         /\ k.suppressed = t.suppressed
    BY <1>8 DEF Handled, Fields
  <1>12. /\ e \in Handled /\ e.status = 0 /\ e.seccomp = t.seccomp /\ e.chain = NULL
         /\ e.sysexit_pending = t.sysexit_pending /\ ~e.rewritten /\ ~e.already_handled
         /\ e.restart_how = t.restart_how
         /\ e.suppressed = t.suppressed
    BY <1>8 DEF Handled, Fields
  <1>13. /\ r \in Handled /\ r.status = 0 /\ r.seccomp = t.seccomp /\ r.chain = NULL
         /\ r.rewritten /\ ~r.already_handled /\ r.restart_how = "SYSCALL"
         /\ r.suppressed = t.suppressed
    BY <1>8 DEF Handled, Fields
  <1> HIDE DEF k, e, r
  <1>14. NULL # Chained /\ NULL \notin {"CONT", "SYSCALL"} /\ stop # "SIGNAL"
    BY NullAssumption, ChainFacts DEF SigsysStop
  <1>15. CASE next' = (IF IsInSysenter(d) THEN next ELSE next_chained(d, cur)) /\ restart_tracee(k, {})
    BY <1>1, <1>2, <1>3, <1>5, <1>6, <1>7, <1>8, <1>9, <1>10, <1>11, <1>14, <1>15,
       Restart DEF SigsysDone, Answered, Held
  <1>16. CASE next' = NULL /\ restart_tracee(e, {})
    BY <1>1, <1>2, <1>3, <1>6, <1>7, <1>8, <1>10, <1>12, <1>14, <1>16, Restart DEF SigsysDone,
       Answered, Held
  <1>17. CASE next' \in Rewritten /\ restart_tracee(r, {})
    BY <1>1, <1>2, <1>3, <1>6, <1>8, <1>10, <1>13, <1>14, <1>17, Restart DEF SigsysDone, Answered, Held
  <1> QED BY <1>3, <1>15, <1>16, <1>17

\* A SIGSYS keeps the invariant.
LEMMA SigsysStopInv ==
    ASSUME Supported, IInv, SigsysStop PROVE IInv'
  <1> USE DEF IInv, SigsysDone, Answered
  <1>1. SigsysDone /\ stop = "SIGSYS" BY SigsysStopDone DEF SigsysStop
  <1> HIDE DEF SigsysDone
  <1>2. kernel \in Kernels BY KernelAssumption DEF Types
  <1>3. /\ kpc = "user" /\ cur \in {"trap"} \cup Voids
        /\ tracee.status = 0 => (cur \in NeedsExit => seen.exit = 1)
        /\ tracee.status = 1 => seen.exit = 0
        /\ nr \in {"trapped", "trapped void"}
        /\ tracee.status \in {0, 1}
    BY <1>1, WhereRejected DEF Types, Restarted, Fields
  <1>4. seen' \in [enter : {0, 1}, exit : {0, 1}] /\ (cur \in NeedsExit => seen'.exit = 1)
    <2>1. CASE tracee.status = 0 BY <1>1, <1>3, <2>1 DEF SigsysDone, Types
    <2>2. CASE tracee.status = 1
      <3>1. seen' = [seen EXCEPT !.exit = @ + 1] BY <1>1, <2>2 DEF SigsysDone
      <3> QED BY <1>3, <2>2, <3>1, SeenExit
    <2> QED BY <1>3, <2>1, <2>2
  <1>5. /\ UNCHANGED <<kernel, cur, nr>> /\ kpc' = "user" /\ stop' = "none"
        /\ how' \in {"CONT", "SYSCALL"}
        /\ UNCHANGED <<seccomp_detected, seccomp_after_ptrace_enter, eventmsg_state>>
        /\ UNCHANGED tracee.seccomp
        /\ tracee'.status = 0 /\ ~tracee'.already_handled /\ tracee'.chain = NULL
        /\ next' \in {NULL} \cup Rewritten
        /\ tracee'.rewritten => next' \in Rewritten /\ how' = "SYSCALL"
        /\ ~tracee'.rewritten => next' = NULL
        /\ how' = "CONT" => tracee'.seccomp = "ENABLED" /\ ~tracee'.sysexit_pending
    BY <1>1, <1>3 DEF SigsysDone
  <1>6. Types' BY <1>1, <1>4 DEF Types, SigsysDone
  <1> HIDE DEF Answered
  <1>7. Control' BY <1>3, <1>5 DEF Control, Kinds, Rewritten
  <1>8. Learnt' BY <1>5 DEF Learnt
  <1>9. Quiet' BY <1>5 DEF Quiet
  <1>10. NULL \notin Rewritten BY NullAssumption DEF Rewritten, AllKinds
  <1>11. Insertions' BY <1>5, <1>10 DEF Insertions, AtUser
  <1>12. Outside' /\ (cur' \in NeedsExit => seen'.exit = 1) BY <1>4, <1>5 DEF Outside
  <1>13. PhaseNew'
    BY <1>5 DEF PhaseNew, PastSysenter, Executing, Returning, Rejected
  <1>14. ASSUME kernel.order = "old" PROVE PhaseOld'
    <2>1. nr # "trapped void" BY <1>14 DEF Phase, PhaseOld
    <2> QED BY <1>5, <2>1 DEF PhaseOld, Executing, Returning, Rejected
  <1> QED BY <1>5, <1>6, <1>7, <1>8, <1>9, <1>11, <1>12, <1>13, <1>14 DEF Phase

\* At a seccomp event, the call is not translated, or the kernel is one of the
\* new order.
LEMMA WhereReported ==
    ASSUME IInv, stop = "SECCOMP"
    PROVE  /\ kernel.filter /\ next = NULL /\ ~tracee.already_handled
           /\ kpc = IF kernel.order = "new" THEN "recheck" ELSE "sysenter"
           /\ tracee.status = 0 => BeforeEntry
           /\ tracee.status = 0 /\ kernel.order = "new" => how = "CONT"
           /\ tracee.status = 1 => /\ kernel.order = "new" /\ how = "SYSCALL" /\ Inside
                                   /\ cur = "fork" => sysexit_necessary(tracee)
           /\ tracee.status = 1 => kernel.order = "new"
  <1>1. kernel \in Kernels BY KernelAssumption DEF IInv, Types
  <1>2. how \in {"CONT", "SYSCALL"} /\ kernel.filter BY DEF IInv, Types, Learnt
  <1>3. next = NULL BY DEF IInv, Insertions, AtUser
  <1>4. kpc = IF kernel.order = "new" THEN "recheck" ELSE "sysenter" BY DEF IInv, Control
  <1>5. CASE kernel.order = "new"
    <2>1. PhaseNew /\ PastSysenter BY <1>5 DEF IInv, Phase, PastSysenter
    <2>2. /\ how = "SYSCALL" => Inside /\ (cur = "fork" => sysexit_necessary(tracee))
          /\ how = "CONT" => BeforeEntry
      BY <2>1 DEF PhaseNew, AfterEntry
    <2>3. CASE how = "SYSCALL"
      <3>1. tracee.status # 0 /\ ~tracee.already_handled BY <2>2, <2>3 DEF Inside
      <3> QED BY <1>2, <1>3, <1>4, <1>5, <2>2, <2>3, <3>1
    <2>4. CASE how = "CONT"
      <3>1. tracee.status # 1 /\ ~tracee.already_handled BY <2>2, <2>4 DEF BeforeEntry, Outside
      <3> QED BY <1>2, <1>3, <1>4, <1>5, <2>2, <2>4, <3>1
    <2> QED BY <1>2, <2>3, <2>4
  <1>6. CASE kernel.order = "old"
    <2>1. BeforeEntry BY <1>6 DEF IInv, Phase, PhaseOld
    <2>2. tracee.status # 1 /\ ~tracee.already_handled BY <2>1 DEF BeforeEntry, Outside
    <2> QED BY <1>2, <1>3, <1>4, <1>6, <2>1, <2>2
  <1> QED BY <1>1, <1>5, <1>6 DEF Kernels

\* What PRoot knows after a seccomp event.
SeccompKnown ==
    /\ seccomp_detected' = TRUE
    /\ seccomp_after_ptrace_enter' = (kernel.order = "new")
    /\ eventmsg_state' \in {"UNKNOWN", "RELIABLE", "LOST"}
    /\ eventmsg_state' = "RELIABLE" => ~kernel.loses_msg

\* The event leaves the call to a stop that has been or is still to come.
SeccompLeft ==
    /\ Answered /\ SeccompKnown /\ UNCHANGED <<nr, next, seen>>
    /\ how' = "SYSCALL" /\ ~tracee'.already_handled
    /\ kernel.order = "new" => tracee.status = 1
    /\ UNCHANGED <<tracee.status, tracee.sysexit_pending, tracee.chain, tracee.rewritten>>

\* The event is taken for the entry.
SeccompEntered ==
    /\ Answered /\ SeccompKnown /\ next' = NULL
    /\ tracee'.seccomp = "ENABLED" /\ tracee'.chain = NULL /\ ~tracee'.rewritten
    /\ nr' = IF cur \in Voids /\ nr = "real" THEN "void" ELSE nr
    /\ seen' = [seen EXCEPT !.enter = @ + 1]
    /\ how' = "SYSCALL" =>
          /\ tracee'.status = 1 /\ (cur = "fork" => tracee'.sysexit_pending)
          /\ tracee'.already_handled = (kernel.order = "old" /\ ~(cur \in Voids /\ kernel.avoider_negative))
    /\ how' = "CONT" =>
          /\ tracee'.status = 0 /\ ~tracee'.sysexit_pending /\ ~tracee'.already_handled
          /\ cur \notin NeedsExit

\* The flags of the filter reach PRoot although PTRACE_GETEVENTMSG may read 0.
LEMMA EventFlags ==
    ASSUME IInv
    PROVE  /\ event_flags <=> cur \in FilterSysexit
           /\ eventmsg_next \in {"UNKNOWN", "RELIABLE", "LOST"}
           /\ eventmsg_next = "RELIABLE" => ~kernel.loses_msg
  BY DEF IInv, Types, Learnt, event_flags, eventmsg_next, filtered_sysnum_flags

\* Translating at the event, with the restart asked for.
LEMMA TranslateEvent ==
    ASSUME Types, NEW m \in Handled, NEW s \in AllKinds \ {"ficlone"},
           m.status = 0, m.chain = NULL, ~m.rewritten, ~m.sysexit_pending, ~m.already_handled,
           m.seccomp = "ENABLED"
    PROVE  LET x == translate_syscall(m, s) IN
           /\ x.suppressed = m.suppressed
           /\ x \in Handled /\ x.seccomp = "ENABLED" /\ x.chain = NULL /\ ~x.rewritten
           /\ ~x.already_handled
           /\ x.sysexit_pending = (s \in RequestsExit)
           /\ x.restart_how = IF s \in RequestsExit THEN "SYSCALL" ELSE m.restart_how
           /\ x.status = IF x.restart_how = "CONT" THEN 0 ELSE 1
           /\ x.cancelled = (s \in Voids /\ kernel.avoider_negative)
  <1>1. translate_syscall(m, s) = translate_enter(m, s) BY DEF translate_syscall, IsInSysenter
  <1> DEFINE x == translate_enter(m, s)
  <1>2. /\ SameFields(x, m) /\ x.seccomp = m.seccomp /\ x.chain = m.chain /\ x.rewritten = m.rewritten
        /\ x.sysexit_pending = (m.sysexit_pending \/ s \in RequestsExit)
        /\ x.restart_how = IF s \in RequestsExit THEN "SYSCALL" ELSE m.restart_how
        /\ x.status = IF x.restart_how = "CONT" THEN 0 ELSE 1
        /\ x.cancelled = (s \in Voids /\ kernel.avoider_negative)
    BY TranslateEnter
  <1> HIDE DEF x
  <1>3. x.sysexit_pending = (s \in RequestsExit)
    <2>1. x.sysexit_pending = (m.sysexit_pending \/ s \in RequestsExit) BY ONLY <1>2
    <2> QED BY ONLY <2>1, ~m.sysexit_pending
  <1> QED BY <1>1, <1>2, <1>3 DEF SameFields, x

\* With seccomp enabled the call is translated, or left to the entry stop that
\* follows.
LEMMA SeccompEnabledDone ==
    ASSUME Supported, IInv, NEW t \in Handled, NEW after \in BOOLEAN, SeccompEnabled(t, after),
           stop = "SECCOMP", tracee.status = 0, after = (kernel.order = "new"),
           t.status = 0, t.seccomp = "ENABLED", ~t.already_handled, t.restart_how # NULL,
           t.sysexit_pending = tracee.sysexit_pending, t.chain = tracee.chain,
           t.rewritten = tracee.rewritten, t.suppressed = tracee.suppressed,
           UNCHANGED <<kernel, kpc, cur, aborted>>, SeccompKnown
    PROVE  SeccompLeft \/ SeccompEntered
  <1>1. Types /\ aborted = FALSE /\ tracee.chain # Chained /\ next = NULL
    BY WhereReported DEF IInv, Types, Restarted, Fields
  <1>2. cur \in AllKinds \ {"ficlone"}
    BY KindsAssumption DEF IInv, Control, Supported, Kinds, AllKinds
  <1>3. event_flags <=> cur \in FilterSysexit BY EventFlags
  <1>4. kernel \in Kernels BY <1>1, KernelAssumption DEF Types
  <1>5. "CONT" # NULL /\ "SYSCALL" # NULL /\ NULL # Chained BY NullAssumption, ChainFacts
  <1>6. CASE event_flags \/ sysexit_necessary(t)
    <2> DEFINE m == [t EXCEPT !.restart_how = "SYSCALL"]
               y == translate_syscall(m, cur)
               z == [y EXCEPT !.restart_how = "SYSCALL"]
    <2>1. IF after THEN Translated(m) /\ restart_tracee(z, {})
          ELSE NotTranslated /\ restart_tracee(m, {})
      BY <1>6 DEF SeccompEnabled
    <2>2. /\ m \in Handled /\ m.restart_how = "SYSCALL" /\ m.status = 0 /\ m.seccomp = "ENABLED"
          /\ ~m.already_handled /\ m.sysexit_pending = t.sysexit_pending /\ m.suppressed = t.suppressed
          /\ m.chain = t.chain /\ m.rewritten = t.rewritten
      BY DEF Handled, Fields
    <2> HIDE DEF m
    <2>3. CASE after
      <3>1. tracee.chain = NULL /\ ~tracee.rewritten /\ ~tracee.sysexit_pending
        BY <2>3, WhereReported DEF IInv, Quiet
      <3>2. /\ y \in Handled /\ y.seccomp = "ENABLED" /\ y.chain = NULL /\ ~y.rewritten
            /\ ~y.already_handled
            /\ y.sysexit_pending = (cur \in RequestsExit)
            /\ y.status = 1 /\ y.suppressed = tracee.suppressed
        <4>1. m.chain = NULL /\ ~m.rewritten /\ ~m.sysexit_pending /\ m.suppressed = tracee.suppressed
          BY <2>2, <3>1
        <4>2. /\ y.suppressed = m.suppressed
              /\ y \in Handled /\ y.seccomp = "ENABLED" /\ y.chain = NULL /\ ~y.rewritten
              /\ ~y.already_handled
              /\ y.sysexit_pending = (cur \in RequestsExit)
              /\ y.restart_how = IF cur \in RequestsExit THEN "SYSCALL" ELSE m.restart_how
              /\ y.status = IF y.restart_how = "CONT" THEN 0 ELSE 1
          BY <1>1, <1>2, <2>2, <4>1, TranslateEvent
        <4> HIDE DEF y
        <4> QED BY <2>2, <4>1, <4>2
      <3> HIDE DEF y
      <3>3. /\ z \in Handled /\ z.seccomp = "ENABLED" /\ z.chain = NULL /\ ~z.rewritten
            /\ ~z.already_handled
            /\ z.sysexit_pending = y.sysexit_pending /\ z.status = 1 /\ z.restart_how = "SYSCALL"
            /\ z.suppressed = tracee.suppressed
        BY <3>2 DEF Handled, Fields
      <3> HIDE DEF z
      <3>4. /\ Answered /\ how' = "SYSCALL"
            /\ tracee'.seccomp = "ENABLED" /\ tracee'.chain = NULL /\ ~tracee'.rewritten
            /\ tracee'.status = 1 /\ ~tracee'.already_handled
            /\ tracee'.sysexit_pending = y.sysexit_pending
        BY <1>1, <1>5, <2>1, <2>3, <3>3, Restart DEF Answered, Held
      <3>5. cur = "fork" => cur \in RequestsExit BY DEF RequestsExit
      <3>6. cur = "fork" => tracee'.sysexit_pending BY <3>2, <3>4, <3>5
      <3>7. /\ next' = NULL /\ nr' = IF cur \in Voids /\ nr = "real" THEN "void" ELSE nr
            /\ seen' = [seen EXCEPT !.enter = @ + 1]
        BY <2>1, <2>2, <2>3, <3>1 DEF Translated, next_chained, IsInSysenter
      <3>8. tracee'.already_handled = (kernel.order = "old" /\ ~(cur \in Voids /\ kernel.avoider_negative))
        <4>1. tracee'.already_handled \in BOOLEAN BY <3>4 DEF Answered, Restarted, Fields
        <4> QED BY <2>3, <3>4, <4>1
      <3> QED BY <3>4, <3>6, <3>7, <3>8 DEF SeccompEntered
    <2>4. CASE ~after
      <3>1. /\ Answered /\ how' = "SYSCALL" /\ ~tracee'.already_handled
            /\ UNCHANGED <<tracee.status, tracee.sysexit_pending, tracee.chain, tracee.rewritten>>
        BY <1>1, <1>5, <2>1, <2>2, <2>4, Restart DEF Answered, Held
      <3> QED BY <2>1, <2>4, <3>1 DEF SeccompLeft, NotTranslated
    <2> QED BY <2>3, <2>4
  <1>7. CASE ~(event_flags \/ sysexit_necessary(t))
    <2> DEFINE m == [t EXCEPT !.restart_how = "CONT"]
               x == translate_syscall(m, cur)
               y == IF x.sysexit_pending \/ x.seccomp = "DISABLING"
                    THEN [x EXCEPT !.restart_how = "SYSCALL"] ELSE x
               z == IF ~after /\ y.restart_how = "SYSCALL" /\ ~y.cancelled
                    THEN [y EXCEPT !.already_handled = TRUE] ELSE y
    <2>1. Translated(m) /\ restart_tracee(z, {}) BY <1>7 DEF SeccompEnabled
    <2>2. /\ m \in Handled /\ m.restart_how = "CONT" /\ m.status = 0 /\ m.seccomp = "ENABLED"
          /\ ~m.already_handled /\ ~m.sysexit_pending /\ m.chain = NULL /\ ~m.rewritten
          /\ m.suppressed = tracee.suppressed
      BY <1>7 DEF Handled, Fields, sysexit_necessary
    <2> HIDE DEF m
    <2>3. /\ x \in Handled /\ x.seccomp = "ENABLED" /\ x.chain = NULL /\ ~x.rewritten
          /\ ~x.already_handled
          /\ x.sysexit_pending = (cur \in RequestsExit)
          /\ x.restart_how = IF cur \in RequestsExit THEN "SYSCALL" ELSE "CONT"
          /\ x.status = IF cur \in RequestsExit THEN 1 ELSE 0
          /\ x.cancelled = (cur \in Voids /\ kernel.avoider_negative)
          /\ x.suppressed = tracee.suppressed
      <3>1. /\ x.suppressed = m.suppressed
            /\ x \in Handled /\ x.seccomp = "ENABLED" /\ x.chain = NULL /\ ~x.rewritten
            /\ ~x.already_handled
            /\ x.sysexit_pending = (cur \in RequestsExit)
            /\ x.restart_how = IF cur \in RequestsExit THEN "SYSCALL" ELSE m.restart_how
            /\ x.status = IF x.restart_how = "CONT" THEN 0 ELSE 1
            /\ x.cancelled = (cur \in Voids /\ kernel.avoider_negative)
        BY <1>1, <1>2, <2>2, TranslateEvent
      <3> HIDE DEF x
      <3> QED BY <2>2, <3>1
    <2> HIDE DEF x
    <2>4. /\ y \in Handled /\ y.seccomp = "ENABLED" /\ y.chain = NULL /\ ~y.rewritten
          /\ ~y.already_handled
          /\ y.sysexit_pending = x.sysexit_pending /\ y.status = x.status /\ y.cancelled = x.cancelled
          /\ y.restart_how = x.restart_how /\ y.suppressed = tracee.suppressed
      <3>1. CASE cur \in RequestsExit
        <4>1. y = [x EXCEPT !.restart_how = "SYSCALL"] BY <2>3, <3>1
        <4> HIDE DEF y
        <4> QED BY <2>3, <3>1, <4>1 DEF Handled, Fields
      <3>2. CASE cur \notin RequestsExit BY <2>3, <3>2
      <3> QED BY <3>1, <3>2
    <2> HIDE DEF y
    <2>5. /\ z \in Handled /\ z.seccomp = "ENABLED" /\ z.chain = NULL /\ ~z.rewritten
          /\ z.sysexit_pending = y.sysexit_pending /\ z.status = y.status
          /\ z.restart_how = y.restart_how
          /\ z.suppressed = tracee.suppressed
          /\ z.already_handled = (~after /\ y.restart_how = "SYSCALL" /\ ~y.cancelled)
      <3>1. CASE ~after /\ y.restart_how = "SYSCALL" /\ ~y.cancelled
        <4>1. z = [y EXCEPT !.already_handled = TRUE] BY <3>1
        <4> HIDE DEF z
        <4> QED BY <2>4, <3>1, <4>1 DEF Handled, Fields
      <3>2. CASE ~(~after /\ y.restart_how = "SYSCALL" /\ ~y.cancelled)
        <4>1. z = y BY <3>2
        <4>2. y.already_handled = FALSE BY <2>4 DEF Handled, Fields
        <4> QED BY <2>4, <3>2, <4>1, <4>2
      <3> QED BY <3>1, <3>2
    <2> HIDE DEF z
    <2>6. z.restart_how \in {"CONT", "SYSCALL"} BY <2>3, <2>4, <2>5
    <2>7. /\ Answered /\ how' = z.restart_how
          /\ tracee'.seccomp = "ENABLED" /\ tracee'.chain = NULL /\ ~tracee'.rewritten
          /\ tracee'.status = z.status /\ tracee'.already_handled = z.already_handled
          /\ tracee'.sysexit_pending = z.sysexit_pending
      BY <1>1, <1>5, <2>1, <2>5, <2>6, Restart DEF Answered, Held
    <2>8. /\ next' = NULL /\ nr' = IF cur \in Voids /\ nr = "real" THEN "void" ELSE nr
          /\ seen' = [seen EXCEPT !.enter = @ + 1]
      BY <2>1, <2>2 DEF Translated, next_chained, IsInSysenter
    <2>9. CASE cur \in RequestsExit
      <3>1. how' = "SYSCALL" /\ tracee'.status = 1 /\ tracee'.sysexit_pending
        BY <2>3, <2>4, <2>5, <2>7, <2>9
      <3>2. tracee'.already_handled = (kernel.order = "old" /\ ~(cur \in Voids /\ kernel.avoider_negative))
        BY <1>4, <2>3, <2>4, <2>5, <2>7, <2>9 DEF Kernels
      <3> QED BY <2>7, <2>8, <3>1, <3>2 DEF SeccompEntered
    <2>10. CASE cur \notin RequestsExit
      <3>1. how' = "CONT" /\ tracee'.status = 0 /\ ~tracee'.sysexit_pending /\ ~tracee'.already_handled
        BY <2>3, <2>4, <2>5, <2>7, <2>10
      <3>2. cur \notin NeedsExit BY <1>2, <1>3, <1>7, <2>10 DEF NeedsExit
      <3> QED BY <2>7, <2>8, <3>1, <3>2 DEF SeccompEntered
    <2> QED BY <2>9, <2>10
  <1> QED BY <1>6, <1>7

\* A seccomp event, the first one included, from which PRoot learns the
\* kernel's order; the two assertions hold.
LEMMA SeccompStopDone ==
    ASSUME Supported, IInv, SeccompStop
    PROVE  \/ SeccompLeft
           \/ tracee.status = 0 /\ SeccompEntered
  <1> DEFINE d == default_restart(tracee)
             c == IF d.cancelled THEN [d EXCEPT !.already_handled = FALSE] ELSE d
             t == [c EXCEPT !.seccomp = IF seccomp_detected
                                        THEN @ ELSE "ENABLED", !.skip_signal = FALSE]
             after == IF seccomp_detected THEN seccomp_after_ptrace_enter ELSE ~IsInSysenter(c)
             l == [t EXCEPT !.restart_how = t.last_restart_how]
  <1>1. /\ d \in Handled /\ d = [tracee EXCEPT !.restart_how = d.restart_how]
        /\ d.restart_how = IF tracee.seccomp = "ENABLED" /\ ~sysexit_necessary(tracee)
                           THEN "CONT" ELSE "SYSCALL"
        /\ Types
    BY TraceeHandled, DefaultRestart DEF IInv
  <1>2. /\ tracee.seccomp \in {"DISABLED", "ENABLED"} /\ tracee.status \in {0, 1} /\ aborted = FALSE
        /\ tracee.last_restart_how = how /\ seccomp_detected \in BOOLEAN /\ tracee.chain # Chained
    BY DEF IInv, Types, Restarted, Fields
  <1>3. /\ seccomp_detected' = TRUE /\ seccomp_after_ptrace_enter' = after
        /\ IF ~IsInSysenter(t)
           THEN /\ NotTranslated /\ UNCHANGED eventmsg_state
                /\ IF after /\ t.last_restart_how # "CONT"
                   THEN restart_tracee(l, {}) /\ UNCHANGED aborted
                   ELSE aborted' = TRUE /\ UNCHANGED <<stop, how, tracee, sigs>>
           ELSE /\ UNCHANGED aborted
                /\ IF t.seccomp # "ENABLED"
                   THEN NotTranslated /\ restart_tracee(t, {}) /\ UNCHANGED eventmsg_state
                   ELSE SeccompEnabled(t, after) /\ eventmsg_state' = eventmsg_next
        /\ UNCHANGED <<kernel, kpc, cur>>
        /\ stop = "SECCOMP"
    BY DEF SeccompStop
  <1>4. /\ ~tracee.already_handled /\ kernel.filter
        /\ tracee.status = 1 => kernel.order = "new" /\ how = "SYSCALL"
        /\ tracee.status = 0 /\ kernel.order = "new" => how = "CONT"
    BY <1>3, WhereReported
  <1>5. /\ seccomp_detected => seccomp_after_ptrace_enter = (kernel.order = "new")
        /\ how = "CONT" => seccomp_detected /\ tracee.seccomp = "ENABLED"
        /\ tracee.seccomp = "ENABLED" => seccomp_detected
    BY DEF IInv, Learnt, Quiet
  <1> HIDE DEF d
  <1>6. /\ d.status = tracee.status /\ d.seccomp = tracee.seccomp /\ d.chain = tracee.chain
        /\ d.sysexit_pending = tracee.sysexit_pending /\ d.rewritten = tracee.rewritten
        /\ ~d.already_handled /\ d.last_restart_how = how /\ d.suppressed = tracee.suppressed
    BY <1>1, <1>2, <1>4, TraceeHandled DEF Handled, Fields
  <1>7. /\ c \in Handled /\ c.status = d.status /\ c.seccomp = d.seccomp /\ c.chain = d.chain
        /\ c.sysexit_pending = d.sysexit_pending /\ c.rewritten = d.rewritten
        /\ ~c.already_handled /\ c.last_restart_how = d.last_restart_how
        /\ c.restart_how = d.restart_how
        /\ c.suppressed = tracee.suppressed
    <2>1. CASE d.cancelled
      <3>1. c = [d EXCEPT !.already_handled = FALSE] BY <2>1
      <3> HIDE DEF c
      <3> QED BY <1>1, <3>1 DEF Handled, Fields
    <2>2. CASE ~d.cancelled
      <3>1. c = d BY <2>2
      <3> QED BY <1>1, <1>6, <3>1
    <2> QED BY <2>1, <2>2
  <1> HIDE DEF c
  <1>8. /\ t \in Handled /\ t.status = c.status /\ t.chain = c.chain
        /\ t.seccomp = IF seccomp_detected THEN c.seccomp ELSE "ENABLED"
        /\ t.sysexit_pending = c.sysexit_pending /\ t.rewritten = c.rewritten
        /\ ~t.already_handled /\ t.last_restart_how = c.last_restart_how
        /\ t.restart_how = c.restart_how
        /\ t.suppressed = tracee.suppressed
    BY <1>7 DEF Handled, Fields
  <1> HIDE DEF t
  <1>9. after = (kernel.order = "new")
    <2>1. CASE seccomp_detected BY <1>5, <2>1
    <2>2. CASE ~seccomp_detected
      <3>1. kernel.order = "new" => tracee.status # 0 BY <1>4, <1>5, <2>2
      <3>2. kernel.order # "new" => tracee.status = 0 BY <1>2, <1>4
      <3>3. IsInSysenter(c) <=> tracee.status = 0 BY <1>6, <1>7 DEF IsInSysenter
      <3> QED BY <2>2, <3>1, <3>2, <3>3
    <2> QED BY <2>1, <2>2
  <1>10. "CONT" # NULL /\ "SYSCALL" # NULL BY NullAssumption
  <1> HIDE DEF after
  <1>11. t.seccomp # "DISABLING" /\ t.chain # Chained /\ t.restart_how \in {"CONT", "SYSCALL"}
    BY <1>1, <1>2, <1>6, <1>7, <1>8
  <1>12. eventmsg_state \in {"UNKNOWN", "RELIABLE", "LOST"}
         /\ (eventmsg_state = "RELIABLE" => ~kernel.loses_msg)
    BY DEF IInv, Types, Learnt
  <1>13. CASE tracee.status = 1
    <2>1. ~IsInSysenter(t) /\ after /\ t.last_restart_how = "SYSCALL"
      BY <1>4, <1>6, <1>7, <1>8, <1>9, <1>13 DEF IsInSysenter
    <2>2. restart_tracee(l, {}) /\ UNCHANGED aborted /\ NotTranslated /\ UNCHANGED eventmsg_state
      BY <1>3, <2>1
    <2>3. /\ l \in Handled /\ l.restart_how = "SYSCALL" /\ l.seccomp = t.seccomp /\ l.chain = t.chain
          /\ ~l.already_handled /\ l.status = t.status /\ l.sysexit_pending = t.sysexit_pending
          /\ l.rewritten = t.rewritten /\ l.suppressed = tracee.suppressed
      BY <1>8, <2>1 DEF Handled, Fields
    <2> HIDE DEF l
    <2>4. /\ Answered /\ how' = "SYSCALL" /\ ~tracee'.already_handled
          /\ UNCHANGED <<tracee.status, tracee.sysexit_pending, tracee.chain, tracee.rewritten>>
      BY SMTT(30), <1>1, <1>2, <1>3, <1>6, <1>7, <1>8, <1>10, <1>11, <2>2, <2>3, Restart DEF Answered, Held
    <2>5. SeccompKnown BY <1>3, <1>9, <1>12, <2>2 DEF SeccompKnown
    <2> QED BY <1>13, <2>2, <2>4, <2>5 DEF SeccompLeft, NotTranslated
  <1>14. CASE tracee.status = 0
    <2>1. IsInSysenter(t) BY <1>6, <1>7, <1>8, <1>14 DEF IsInSysenter
    <2>2. CASE t.seccomp # "ENABLED"
      <3>1. NotTranslated /\ restart_tracee(t, {}) /\ UNCHANGED <<eventmsg_state, aborted>> BY <1>3,
      <2>1, <2>2
      <3>2. t.restart_how = "SYSCALL" BY <1>1, <1>2, <1>5, <1>6, <1>7, <1>8, <2>2
      <3>3. /\ Answered /\ how' = "SYSCALL" /\ ~tracee'.already_handled
            /\ UNCHANGED <<tracee.status, tracee.sysexit_pending, tracee.chain, tracee.rewritten>>
        BY SMTT(30), <1>1, <1>2, <1>3, <1>6, <1>7, <1>8, <1>10, <1>11, <3>1, <3>2, Restart DEF Answered, Held
      <3>4. SeccompKnown BY <1>3, <1>9, <1>12, <3>1 DEF SeccompKnown
      <3>5. kernel.order # "new" BY <1>4, <1>5, <1>6, <1>7, <1>8, <1>14, <2>2
      <3> QED BY <3>1, <3>3, <3>4, <3>5 DEF SeccompLeft, NotTranslated
    <2>3. CASE t.seccomp = "ENABLED"
      <3>1. SeccompEnabled(t, after) /\ eventmsg_state' = eventmsg_next /\ UNCHANGED aborted BY <1>3,
      <2>1, <2>3
      <3>2. SeccompKnown BY <1>3, <1>9, <3>1, EventFlags DEF SeccompKnown
      <3>3. after \in BOOLEAN BY <1>9
      <3>4. t.status = 0 BY <2>1 DEF IsInSysenter
      <3>5. t.restart_how # NULL BY <1>10, <1>11
      <3> QED BY <1>3, <1>6, <1>7, <1>8, <1>9, <1>14, <2>3, <3>1, <3>2, <3>3, <3>4, <3>5,
                 SeccompEnabledDone
    <2> QED BY <2>2, <2>3
  <1> QED BY <1>2, <1>13, <1>14

\* The invariant when the event leaves the call alone.
LEMMA SeccompLeftKeeps ==
    ASSUME Supported, IInv, stop = "SECCOMP", SeccompLeft PROVE IInv'
  <1>1. kernel \in Kernels BY KernelAssumption DEF IInv, Types
  <1>2. /\ UNCHANGED <<kernel, kpc, cur, nr, next, seen>> /\ stop' = "none" /\ how' = "SYSCALL"
        /\ ~tracee'.already_handled
        /\ UNCHANGED <<tracee.status, tracee.sysexit_pending, tracee.chain, tracee.rewritten>>
        /\ SeccompKnown
    BY DEF SeccompLeft, Answered
  <1>3. /\ kernel.filter /\ next = NULL
        /\ kpc = IF kernel.order = "new" THEN "recheck" ELSE "sysenter"
        /\ tracee.status = 0 => BeforeEntry
        /\ tracee.status = 0 /\ kernel.order = "new" => how = "CONT"
        /\ tracee.status = 1 => /\ kernel.order = "new" /\ how = "SYSCALL" /\ Inside
                                /\ cur = "fork" => sysexit_necessary(tracee)
    BY WhereReported
  <1>4. Types' BY <1>2 DEF IInv, Types, SeccompLeft, Answered, SeccompKnown
  <1>5. Control' BY <1>2, <1>3 DEF IInv, Control, Kinds, Rewritten
  <1>6. Learnt' BY <1>2, <1>3 DEF Learnt, SeccompKnown
  <1>7. Quiet' BY <1>2 DEF Quiet
  <1>8. Insertions' BY <1>2, <1>3 DEF IInv, Insertions, AtUser
  <1>9. tracee.status \in {0, 1} BY DEF IInv, Types, Restarted, Fields
  <1>10. CASE kernel.order = "new"
    <2>1. tracee.status = 1 BY <1>10 DEF SeccompLeft
    <2>2. Inside' BY <1>2, <1>3, <2>1 DEF Inside
    <2>3. AfterEntry' BY <1>2, <2>2 DEF AfterEntry
    <2>4. cur' = "fork" => sysexit_necessary(tracee)' BY <1>2, <1>3, <2>1 DEF sysexit_necessary
    <2>5. PhaseNew' BY <1>2, <1>3, <1>10, <2>3, <2>4 DEF PhaseNew, Rejected
    <2> QED BY <1>2, <1>3, <1>10, <1>4, <1>5, <1>6, <1>7, <1>8, <2>5 DEF IInv, Phase, AtUser
  <1>11. CASE kernel.order = "old"
    <2>1. tracee.status = 0 BY <1>3, <1>9, <1>11
    <2>2. BeforeEntry' BY <1>2, <1>3, <2>1 DEF BeforeEntry, Outside
    <2>3. nr # "trapped void" BY <1>3, <2>1 DEF BeforeEntry
    <2>4. PhaseOld' BY <1>2, <1>3, <1>11, <2>2, <2>3 DEF PhaseOld, Executing, Returning, Rejected
    <2> QED BY <1>2, <1>3, <1>11, <1>4, <1>5, <1>6, <1>7, <1>8, <2>4 DEF IInv, Phase, AtUser
  <1> QED BY <1>1, <1>10, <1>11 DEF Kernels

\* The invariant when the event is the entry.
LEMMA SeccompEnteredKeeps ==
    ASSUME Supported, IInv, stop = "SECCOMP", tracee.status = 0, SeccompEntered PROVE IInv'
  <1>1. kernel \in Kernels BY KernelAssumption DEF IInv, Types
  <1>2. /\ UNCHANGED <<kernel, kpc, cur>> /\ stop' = "none" /\ how' \in {"CONT", "SYSCALL"}
        /\ next' = NULL /\ SeccompKnown
        /\ tracee'.seccomp = "ENABLED" /\ tracee'.chain = NULL /\ ~tracee'.rewritten
        /\ how' = "CONT" =>
              /\ tracee'.status = 0 /\ ~tracee'.sysexit_pending /\ ~tracee'.already_handled
              /\ cur \notin NeedsExit
        /\ how' = "SYSCALL" =>
              /\ tracee'.status = 1 /\ (cur = "fork" => tracee'.sysexit_pending)
              /\ tracee'.already_handled = (kernel.order = "old"
                  /\ ~(cur \in Voids /\ kernel.avoider_negative))
    BY DEF SeccompEntered, Answered
  <1>3. /\ kernel.filter /\ kpc = IF kernel.order = "new" THEN "recheck" ELSE "sysenter"
        /\ nr = "real" /\ seen.enter = 0 /\ seen.exit = 0
    BY WhereReported DEF BeforeEntry
  <1>4. nr' = (IF cur \in Voids THEN "void" ELSE "real") BY <1>3 DEF SeccompEntered
  <1>5. seen' \in [enter : {0, 1}, exit : {0, 1}] /\ seen'.enter = 1 /\ seen'.exit = 0
    BY <1>3, SeenEntry DEF SeccompEntered, IInv
  <1>6. Types' BY <1>2, <1>5 DEF IInv, Types, SeccompEntered, Answered, SeccompKnown
  <1>7. Control' BY <1>2, <1>3, <1>4 DEF IInv, Control, Kinds, Rewritten
  <1>8. Learnt' BY <1>2, <1>3 DEF Learnt, SeccompKnown
  <1>9. Quiet' BY <1>2 DEF Quiet
  <1>10. Insertions' BY <1>2 DEF Insertions
  <1>11. CASE kernel.order = "new"
    <2>1. CASE how' = "SYSCALL"
      <3>1. ~tracee'.already_handled
        <4>1. tracee'.already_handled \in BOOLEAN BY <1>6 DEF Types, Restarted, Fields
        <4> QED BY <1>2, <1>11, <2>1, <4>1
      <3>2. AfterEntry' BY <1>2, <1>5, <2>1, <3>1 DEF AfterEntry, Inside
      <3>3. cur' = "fork" => sysexit_necessary(tracee)' BY <1>2, <2>1 DEF sysexit_necessary
      <3> QED BY <1>2, <1>3, <1>6, <1>7, <1>8, <1>9, <1>10, <1>11, <2>1, <3>2, <3>3
          DEF IInv, Phase, PhaseNew, Rejected, AtUser
    <2>2. CASE how' = "CONT"
      <3>1. AfterEntry' BY <1>5, <2>2 DEF AfterEntry
      <3>2. LeftAlone' BY <1>2, <1>5, <2>2 DEF LeftAlone
      <3> QED BY <1>2, <1>3, <1>6, <1>7, <1>8, <1>9, <1>10, <1>11, <2>2, <3>1, <3>2
          DEF IInv, Phase, PhaseNew, Rejected, PastSysenter, AtUser
    <2> QED BY <1>2, <2>1, <2>2
  <1>12. CASE kernel.order = "old"
    <2>1. nr' \notin {"trapped", "trapped void"} BY <1>4
    <2>2. CASE how' = "SYSCALL"
      <3>1. EntryHandled' BY <1>2, <1>4, <1>5, <1>12, <2>2 DEF EntryHandled
      <3>2. PhaseOld' BY <1>2, <1>3, <1>12, <2>1, <2>2, <3>1 DEF PhaseOld, Executing, Returning,
                         Rejected
      <3> QED BY <1>2, <1>3, <1>6, <1>7, <1>8, <1>9, <1>10, <1>12, <3>2 DEF IInv, Phase, AtUser
    <2>3. CASE how' = "CONT"
      <3>1. LeftAlone' BY <1>2, <1>5, <2>3 DEF LeftAlone
      <3>2. PhaseOld' BY <1>2, <1>3, <1>5, <1>12, <2>1, <2>3, <3>1 DEF PhaseOld, Executing,
                         Returning, Rejected
      <3> QED BY <1>2, <1>3, <1>6, <1>7, <1>8, <1>9, <1>10, <1>12, <3>2 DEF IInv, Phase, AtUser
    <2> QED BY <1>2, <2>2, <2>3
  <1> QED BY <1>1, <1>11, <1>12 DEF Kernels

\* Seccomp events keep the invariant.
LEMMA SeccompStopInv ==
    ASSUME Supported, IInv, SeccompStop PROVE IInv'
  BY SeccompStopDone, SeccompLeftKeeps, SeccompEnteredKeeps DEF SeccompStop

(***************************************************************************)
(* The theorems.                                                           *)
(***************************************************************************)

\* Every step keeps the invariant.
LEMMA NextInv ==
    ASSUME Supported, IInv, [Next]_vars PROVE IInv'
  <1>1. CASE UNCHANGED vars
    <2>1. Control /\ UNCHANGED <<kernel, kpc, cur, next, nr, stop, how, sigs, tracee>>
      BY <1>1 DEF vars, IInv
    <2>2. Control' BY <2>1, ZenonT(30) DEF Control, Kinds, Rewritten
    <2> USE <1>1 DEF vars, IInv
    <2>3. Types' BY DEF Types, Restarted
    <2>4. Learnt' /\ Quiet' BY DEF Learnt, Quiet
    <2>5. Insertions' BY DEF Insertions, AtUser
    <2>6. PhaseNew => PhaseNew'
      BY DEF PhaseNew, PastSysenter, Executing, Returning, Rejected, BeforeEntry, AfterEntry,
         Outside, Inside, LeftAlone, sysexit_necessary
    <2>7. PhaseOld => PhaseOld'
      BY DEF PhaseOld, Executing, Returning, Rejected, BeforeEntry, AfterEntry, Outside, Inside,
         LeftAlone, EntryHandled
    <2>8. Phase' BY <2>6, <2>7 DEF Phase, AtUser, Outside
    <2> QED BY <2>3, <2>2, <2>4, <2>5, <2>8
  <1>2. ASSUME NEW s \in Kinds \cup {"plain", "enter"}, GuestSyscall(s) PROVE IInv'
    BY <1>2, GuestSyscallInv
  <1>3. ASSUME NEW sig \in Signals, KernelSignal(sig) PROVE IInv'
    BY <1>3, KernelSignalInv
  <1>4. CASE Kernel
    BY <1>4, KernelSysenterInv, KernelFilterInv, KernelRecheckInv, KernelExecInv, KernelExitInv,
       KernelSigsysInv DEF Kernel
  <1>5. CASE PRoot
    <2>1. CASE ForkStop BY <2>1, ForkStopDone, EventPassed DEF ForkStop
    <2>2. CASE ExecStop BY <2>2, ExecStopDone, EventPassed DEF ExecStop
    <2> QED BY <1>5, <2>1, <2>2, SyscallStopInv, SeccompStopInv, SigsysStopInv, SignalStopInv DEF PRoot
  <1> QED BY <1>1, <1>2, <1>3, <1>4, <1>5 DEF Next

\* The invariant holds throughout, on every kernel and for every set of
\* supported calls.
THEOREM StopsInvariant ==
    ASSUME Supported PROVE Spec => []IInv
  BY InitInv, NextInv, PTL DEF Spec

\* None of the four assertions of handle_tracee_event() ever fails.
THEOREM NoAssertionFails ==
    ASSUME Supported PROVE Spec => []AssertionsHold
  <1>1. IInv => AssertionsHold BY DEF IInv, Types, AssertionsHold
  <1> QED BY <1>1, StopsInvariant, PTL

\* PRoot takes every stop of a call for what it is: tracee.status is never out
\* of phase with the kernel (event.c, handle_tracee_event()).
THEOREM StopsInPhase ==
    ASSUME Supported PROVE Spec => []InPhase
  <1>1. ASSUME IInv PROVE InPhase
    <2>1. tracee.status \in {0, 1} BY <1>1 DEF IInv, Types, Restarted, Fields
    <2>2. CASE stop = "SYSENTER" BY <1>1, <2>1, <2>2, WhereStopped DEF InPhase, IsInSysenter
    <2>3. CASE stop = "SYSEXIT" BY <1>1, <2>1, <2>3, WhereStopped DEF InPhase, IsInSysenter
    <2> QED BY <2>2, <2>3 DEF InPhase
  <1> QED BY <1>1, StopsInvariant, PTL

\* No call that the filter lists is executed before PRoot has translated it:
\* whichever of the entry stop and the seccomp event comes first, one of them
\* is taken for the entry, and only one.
THEOREM EntriesAreTranslated ==
    ASSUME Supported PROVE Spec => []TranslatedBeforeExec
  <1>1. ASSUME IInv, kpc = "exec", stop = "none", cur \in Filtered PROVE seen.enter = 1
    <2>1. kernel \in Kernels /\ how \in {"CONT", "SYSCALL"}
      BY <1>1, KernelAssumption DEF IInv, Types
    <2>2. nr \notin {"trapped", "trapped void"} BY <1>1 DEF IInv, Control
    <2>3. Executing /\ ~PastSysenter BY <1>1 DEF Executing, PastSysenter
    <2>4. AfterEntry /\ (how = "CONT" => LeftAlone)
      <3>1. CASE kernel.order = "new" BY <1>1, <2>3, <3>1 DEF IInv, Phase, PhaseNew
      <3>2. CASE kernel.order = "old" BY <1>1, <2>2, <2>3, <3>2 DEF IInv, Phase, PhaseOld
      <3> QED BY <2>1, <3>1, <3>2 DEF Kernels
    <2>5. CASE how = "CONT" BY <1>1, <2>4, <2>5 DEF LeftAlone
    <2>6. CASE how = "SYSCALL" BY <2>4, <2>6 DEF AfterEntry, Inside
    <2> QED BY <2>1, <2>5, <2>6
  <1>2. IInv => TranslatedBeforeExec BY <1>1 DEF TranslatedBeforeExec
  <1> QED BY <1>2, StopsInvariant, PTL

\* The guest does not get past a call whose exit PRoot has work to do at before
\* that work is done: no restart on the way through the call loses the request
\* for the exit.
THEOREM ExitsAreTranslated ==
    ASSUME Supported PROVE Spec => []ExitTranslated
  <1>1. IInv => ExitTranslated BY DEF IInv, Phase, AtUser, ExitTranslated
  <1> QED BY <1>1, StopsInvariant, PTL

\* No signal is reported that was not before, nor taken back.
StopStays == (stop # "SIGNAL" => stop' # "SIGNAL") /\ (stop = "SIGNAL" => UNCHANGED stop)

\* The guest's signals move only where the action says.
LEMMA SignalsMove ==
    ASSUME Supported, IInv, [Next]_vars
    PROVE  \/ UNCHANGED <<sigs, tracee>> /\ StopStays
           \/ stop \notin {"none", "SIGNAL"} /\ stop' = "none" /\ Held
           \/ SignalStop
           \/ \E sig \in Signals : KernelSignal(sig)
  <1> USE DEF StopStays
  <1>1. CASE UNCHANGED vars BY <1>1 DEF vars
  <1>2. ASSUME NEW s \in Kinds \cup {"plain", "enter"}, GuestSyscall(s)
        PROVE  UNCHANGED <<sigs, tracee, stop>>
    BY <1>2 DEF GuestSyscall
  <1>3. CASE Kernel
    <2>1. CASE KernelSysenter BY <2>1 DEF KernelSysenter, running
    <2>2. CASE KernelFilter BY <2>2 DEF KernelFilter, running
    <2>3. CASE KernelRecheck BY <2>3 DEF KernelRecheck, running
    <2>4. CASE KernelExec BY <2>4 DEF KernelExec, running
    <2>5. CASE KernelExit BY <2>5 DEF KernelExit, running
    <2>6. CASE KernelSigsys BY <2>6 DEF KernelSigsys, running
    <2> QED BY <1>3, <2>1, <2>2, <2>3, <2>4, <2>5, <2>6 DEF Kernel
  <1>4. CASE SyscallStop
    BY <1>4, SyscallStopDone DEF SyscallStop, EntryDone, ExitDone, HandledDone, Answered
  <1>5. CASE SeccompStop
    BY <1>5, SeccompStopDone DEF SeccompStop, SeccompLeft, SeccompEntered, Answered
  <1>6. CASE SigsysStop
    BY <1>6, SigsysStopDone DEF SigsysStop, SigsysDone, Answered
  <1>7. CASE ForkStop BY <1>7, ForkStopDone DEF ForkStop, Passed
  <1>8. CASE ExecStop BY <1>8, ExecStopDone DEF ExecStop, Passed
  <1> QED BY <1>1, <1>2, <1>3, <1>4, <1>5, <1>6, <1>7, <1>8 DEF Next, PRoot

\* No handler of a signal runs between a call and those PRoot chained to it
\* (syscall/chain.c), for any number of signals.
THEOREM ChainsAreNotInterrupted ==
    ASSUME Supported PROVE Spec => ChainNotInterrupted
  <1>1. ASSUME IInv, [Next]_vars PROVE [sigs'.delivered # sigs.delivered => next = NULL]_vars
    <2>1. CASE SignalStop
      <3>1. tracee.chain # NULL \/ tracee.rewritten => sigs'.delivered = sigs.delivered
        BY <1>1, <2>1, SignalStopDone
      <3>2. next # NULL => tracee.chain # NULL \/ tracee.rewritten BY <1>1 DEF IInv, Insertions
      <3> QED BY <3>1, <3>2
    <2>2. CASE Held BY <2>2 DEF Held, Resumed
    <2>3. ASSUME NEW sig \in Signals, KernelSignal(sig) PROVE sigs'.delivered = sigs.delivered
      BY <1>1, <2>3 DEF KernelSignal, IInv, Types, SigsType
    <2> QED BY <1>1, <2>1, <2>2, <2>3, SignalsMove
  <1> QED BY <1>1, StopsInvariant, PTL DEF Spec, ChainNotInterrupted

\* Every signal that was sent is somewhere, and none is in a stop that is not reported.
Accounted ==
    /\ NoSignalLost
    /\ stop # "SIGNAL" => sigs.in_stop = NULL

\* With one signal, which is what chain.suppressed_signal can hold, every
\* signal that is sent is delivered or still to be.  Of two signals in one
\* chain the first is lost, hence the hypothesis.
THEOREM SignalsAreKept ==
    ASSUME Supported, \A a, b \in Signals : a = b
    PROVE  Spec => []NoSignalLost
  <1>1. Init => Accounted
    <2> SUFFICES ASSUME Init PROVE Accounted OBVIOUS
    <2>1. sigs = [pending |-> {}, delivered |-> {}, sent |-> {}, in_stop |-> NULL] BY ZenonT(30) DEF Init
    <2>2. tracee = [status |-> 0, seccomp |-> "DISABLED", sysexit_pending |-> FALSE,
                    already_handled |-> FALSE, cancelled |-> FALSE, restart_how |-> NULL,
                    last_restart_how |-> "SYSCALL", chain |-> NULL, rewritten |-> FALSE,
                    suppressed |-> NULL, skip_signal |-> FALSE]
      BY ZenonT(30) DEF Init
    <2>3. sigs.sent = {} /\ sigs.pending = {} /\ sigs.delivered = {} /\ sigs.in_stop = NULL BY <2>1
    <2>4. tracee.suppressed = NULL BY <2>2
    <2> QED BY <2>3, <2>4 DEF Accounted, NoSignalLost
  <1>2. ASSUME IInv, Accounted, [Next]_vars PROVE Accounted'
    <2> USE DEF Accounted
    <2>1. Types /\ sigs.in_stop \in Signals \cup {NULL} /\ tracee.suppressed \in Signals \cup {NULL}
      BY <1>2 DEF IInv, Types, SigsType, Restarted, Fields
    <2>2. CASE UNCHANGED <<sigs, tracee>> /\ StopStays
      BY <1>2, <2>2 DEF NoSignalLost, StopStays
    <2>3. CASE stop \notin {"none", "SIGNAL"} /\ stop' = "none" /\ Held
      <3>1. sigs.in_stop = NULL /\ sigs'.in_stop = NULL BY <1>2, <2>3 DEF Held, Resumed
      <3>2. CASE Resumed({}) /\ tracee'.suppressed = tracee.suppressed
        BY <1>2, <2>3, <3>1, <3>2 DEF NoSignalLost, Resumed
      <3>3. CASE tracee.suppressed # NULL /\ Resumed({tracee.suppressed}) /\ tracee'.suppressed = NULL
        BY <1>2, <2>3, <3>1, <3>3 DEF NoSignalLost, Resumed
      <3> QED BY <2>3, <3>2, <3>3 DEF Held
    <2>4. CASE SignalStop
      <3>1. stop' = "none" /\ sigs.in_stop \in Signals
        BY <1>2, <2>4, SignalStopDone DEF Passed, SignalStop, IInv, Control
      <3>2. tracee.suppressed \in {NULL, sigs.in_stop} BY <2>1, <3>1
      <3>3. /\ sigs'.sent = sigs.sent /\ sigs'.pending = sigs.pending /\ sigs'.in_stop = NULL
            /\ \/ tracee'.suppressed = sigs.in_stop /\ sigs'.delivered = sigs.delivered
               \/ /\ tracee'.suppressed = tracee.suppressed
                  /\ sigs'.delivered = sigs.delivered \cup {sigs.in_stop}
        BY <1>2, <2>4, SignalStopDone
      <3> QED BY <1>2, <3>1, <3>2, <3>3, NullAssumption DEF NoSignalLost
    <2>5. ASSUME NEW sig \in Signals, KernelSignal(sig) PROVE Accounted'
      <3>1. /\ sigs'.pending = sigs.pending \ {sig} /\ sigs'.sent = sigs.sent \cup {sig}
            /\ sigs'.in_stop = sig /\ sigs'.delivered = sigs.delivered
            /\ stop' = "SIGNAL" /\ UNCHANGED tracee /\ sigs.in_stop = NULL
        BY <1>2, <2>1, <2>5 DEF KernelSignal, running, Types, SigsType
      <3> QED BY <1>2, <3>1, NullAssumption DEF NoSignalLost
    <2> QED BY <1>2, <2>2, <2>3, <2>4, <2>5, SignalsMove
  <1>3. Accounted => NoSignalLost BY DEF Accounted
  <1> QED BY <1>1, <1>2, <1>3, StopsInvariant, PTL DEF Spec

=============================================================================
