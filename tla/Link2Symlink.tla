----------------------------- MODULE Link2Symlink ------------------------------
(***************************************************************************)
(* The extension link2symlink fakes hard links with symbolic links         *)
(* (extension/link2symlink/link2symlink.c).  The first link(2) of a file   *)
(* moves it away under a name that ends with the number of its links (the  *)
(* "final"), and makes of its name a symbolic link to the "intermediate",  *)
(* a symbolic link to the final.  Every further link is a symbolic link to *)
(* the intermediate.                                                       *)
(*                                                                         *)
(* A path is <<n>> for a name of the guest, <<b, k>> for the intermediate  *)
(* number k of the files named b, and <<b, k, c>> for its final with c     *)
(* links.  PRoot handles the entry and the exit of a call at once, but the *)
(* guests run in between, and what PRoot does consists of several calls    *)
(* to the host, each of which may fail, or be the last before it is killed.*)
(***************************************************************************)
EXTENDS Integers, Sequences, FiniteSets, TLC, FiniteSetsExt

CONSTANTS Tracee,     \* the tracees
          Name,       \* the names they use
          Base,       \* their last components, those of the files of the l2s directory
          Guests,     \* what guests and hosts there are: sets of habits
          MaxSuffix,  \* 9999
          MaxCount,   \* MAX_LINK_COUNT
          MaxInodes,  \* files there are at a time: a bound of the model
          MaxFaults   \* calls of PRoot that lack space or are its last: a bound of the model

ASSUME L2SAssumption ==
    /\ MaxSuffix \in Nat \ {0} /\ MaxCount \in Nat \ {0, 1} /\ MaxInodes \in Nat \ {0}
    /\ MaxFaults \in Nat
    /\ Name = DOMAIN Base

Habits == {"symlinks",   \* the guest makes ordinary symbolic links
           "renames",    \* it uses rename(2)
           "flags",      \* and renameat2(2) with flags
           "tmpfiles",   \* it gives names to files without one, with linkat(2)
           "overlap",    \* calls on different names overlap
           "races",      \* calls on the same names do, too
           "eacces",     \* directories may not be writable
           "rejects",    \* the outer seccomp policy may reject calls after their entry
           "enospc",     \* symlink(2) may fail for lack of space
           "crashes"}    \* PRoot may be killed

VARIABLES guest,      \* the habits of this behaviour
          fs,         \* the files: path |-> [file |-> inode] or [link |-> path]
          call,       \* the call each tracee is in, with its Link2SymlinkConfig
          faults      \* how many calls of PRoot lacked space or were its last

vars == <<guest, fs, call, faults>>

Idle == [op |-> "none", names |-> {}]

\* A symbolic link that is no faked hard link: it leads out of this model.
Elsewhere == [link |-> <<>>]

IsLink(f, p) == p \in DOMAIN f /\ "link" \in DOMAIN f[p]
IsFile(f, p) == p \in DOMAIN f /\ "file" \in DOMAIN f[p]
Without(f, p) == [q \in DOMAIN f \ {p} |-> f[q]]

Inodes(f) == {f[p].file : p \in {q \in DOMAIN f : IsFile(f, q)}}
Fresh == 1..MaxInodes \ Inodes(fs)

\* The count in the name of a final, and the name for another count.
get_link_count(p) == p[3]
name_link_count(p, c) == <<p[1], p[2], c>>

\* The intermediate a faked hard link points to; <<>> for anything else.
read_faked_hard_link(f, p) == IF IsLink(f, p) THEN f[p].link ELSE <<>>

\* The final a faked hard link refers to, through its intermediate.
resolve_faked_hard_link(f, p) == read_faked_hard_link(f, read_faked_hard_link(f, p))

--------------------------------------------------------------------------------
\* What a call to the host, or a series of them, may leave behind.  A call that
\* can succeed may still fail, for the reasons this guest meets, and PRoot may be
\* killed just before it.
Outcome(f, s) == [fs |-> f, status |-> s]

Faults == {"enospc", "crashes"}
Met == IF faults < MaxFaults THEN guest ELSE guest \ Faults
Attempt(f, can, after, error, reasons) ==
    {IF can THEN Outcome(after, "ok") ELSE Outcome(f, error)}
        \union {Outcome(f, r) : r \in (reasons \union {"crashes"}) \intersect Met}

l2s_symlink(f, target, p, reasons) ==
    Attempt(f, p \notin DOMAIN f, f @@ (p :> [link |-> target]), "eexist", reasons)
l2s_unlink(f, p, reasons) == Attempt(f, p \in DOMAIN f, Without(f, p), "enoent", reasons)
Moved(f, old, new) == (new :> f[old]) @@ Without(f, old)
l2s_rename(f, old, new, reasons) ==
    Attempt(f, old \in DOMAIN f, Moved(f, old, new), "enoent", reasons)

\* What comes next if all went well; what is done about a failure.
Then(outcomes, Op(_)) ==
    UNION {IF o.status = "ok" THEN Op(o.fs) ELSE {o} : o \in outcomes}
OnFailure(outcomes, Op(_)) ==
    UNION {IF o.status \in {"ok", "crashes"} THEN {o}
           ELSE {Outcome(u.fs, IF u.status = "crashes" THEN "crashes" ELSE o.status) : u \in Op(o.fs)} :
           o \in outcomes}

--------------------------------------------------------------------------------
\* The final has been renamed: make the intermediate i lead to it again.
Repointed(f, i, final) ==
    Then(l2s_unlink(f, i, {}), LAMBDA g : l2s_symlink(g, final, i, {"enospc"}))

\* One link less.  The rename, or the first unlink, tells whether the directory
\* is writable.
decrement_intermediate_count(f, i) ==
    IF ~IsLink(f, i) THEN {Outcome(f, "ok")} ELSE
    LET final == f[i].link
        count == get_link_count(final) - 1
    IN  IF count > 0
        THEN Then(l2s_rename(f, final, name_link_count(final, count), {"eacces"}),
                  LAMBDA g : Repointed(g, i, name_link_count(final, count)))
        ELSE Then(l2s_unlink(f, i, {"eacces"}), LAMBDA g : l2s_unlink(g, final, {}))

\* A directory that is not writable is made so for a second try.
decrement_removed_link_count(f, i) ==
    UNION {IF o.status = "eacces"
           THEN {u \in decrement_intermediate_count(o.fs, i) : u.status # "eacces"} ELSE {o} :
           o \in decrement_intermediate_count(f, i)}

decrement_link_count(f, old) ==
    IF read_faked_hard_link(f, <<old>>) = <<>> THEN {Outcome(f, "ok")}
    ELSE {o \in decrement_intermediate_count(f, read_faked_hard_link(f, <<old>>)) :
             o.status # "eacces"}

\* The first link of a file: a free suffix is taken, the file moved there, and
\* put back if its name cannot be made a symbolic link.
FreeSuffixes(f, b) == {k \in 1..MaxSuffix : <<b, k>> \notin DOMAIN f /\ <<b, k, 2>> \notin DOMAIN f}
first_link(f, old) ==
    IF FreeSuffixes(f, Base[old]) = {} THEN {Outcome(f, "emlink")} ELSE
    LET i == <<Base[old], Min(FreeSuffixes(f, Base[old]))>>
        final == <<i[1], i[2], 2>>
        PutBack(g) == Then(l2s_rename(g, final, <<old>>, {}), LAMBDA h : l2s_unlink(h, i, {}))
    IN  Then(Then(l2s_symlink(f, final, i, {"eacces", "enospc"}),
                  LAMBDA g : OnFailure(l2s_rename(g, <<old>>, final, {"eacces"}),
                                       LAMBDA h : l2s_unlink(h, i, {}))),
             LAMBDA g : OnFailure(l2s_symlink(g, i, <<old>>, {"enospc"}), PutBack))

\* Another link of a file that has some.
further_link(f, i) ==
    IF ~IsLink(f, i) THEN {Outcome(f, "enoent")} ELSE
    LET final == f[i].link
        new_final == name_link_count(final, get_link_count(final) + 1)
    IN  IF get_link_count(final) >= MaxCount THEN {Outcome(f, "emlink")}
        ELSE Then(l2s_rename(f, final, new_final, {"eacces"}),
                  LAMBDA g : Repointed(g, i, new_final))

move_and_symlink_path(f, old, new) ==
    IF <<old>> \notin DOMAIN f THEN {Outcome(f, "enoent")}
    ELSE IF f[<<old>>] = Elsewhere
    THEN l2s_symlink(f, <<>>, <<new>>, {"eacces", "enospc"})
    ELSE Then(IF IsFile(f, <<old>>) THEN first_link(f, old) ELSE further_link(f, f[<<old>>].link),
              LAMBDA g : OnFailure(
                 l2s_symlink(g, read_faked_hard_link(g, <<old>>), <<new>>, {"eacces", "enospc"}),
                 LAMBDA h : decrement_link_count(h, old)))

--------------------------------------------------------------------------------
\* A tracee without a call makes one on the names ns.
Calls(t, ns) ==
    /\ call[t] = Idle
    /\ CASE "races" \in guest   -> TRUE
         [] "overlap" \in guest -> \A u \in Tracee : call[u].names \intersect ns = {}
         [] OTHER               -> \A u \in Tracee : call[u] = Idle

\* One of the outcomes of what PRoot does for a tracee, whose call is then as c
\* says.  If PRoot is killed its tracees are, too, and others come later.
Does(outcomes, t, c) ==
    \E o \in outcomes :
       /\ fs' = o.fs
       /\ faults' = faults + (IF o.status \in Faults THEN 1 ELSE 0)
       /\ call' = IF o.status = "crashes" THEN [u \in Tracee |-> Idle] ELSE [call EXCEPT ![t] = c]

\* open(2) with O_CREAT; symlink(2): the kernel's.
Create(t, n) ==
    /\ Calls(t, {n}) /\ <<n>> \notin DOMAIN fs /\ Fresh # {}
    /\ fs' = fs @@ (<<n>> :> [file |-> Min(Fresh)])
    /\ UNCHANGED <<guest, call, faults>>

Symlink(t, n) ==
    /\ "symlinks" \in guest
    /\ Calls(t, {n}) /\ <<n>> \notin DOMAIN fs
    /\ fs' = fs @@ (<<n>> :> Elsewhere)
    /\ UNCHANGED <<guest, call, faults>>

\* link(2) and linkat(2) are done at their entry.
Link(t, old, new) ==
    /\ Calls(t, {old, new})
    /\ Does(move_and_symlink_path(fs, old, new), t, Idle)
    /\ UNCHANGED guest

\* linkat(2) of a deleted file that is still open: it is copied.
LinkatDeleted(t, n) ==
    /\ "tmpfiles" \in guest
    /\ Calls(t, {n}) /\ Fresh # {}
    /\ \/ fs' = (<<n>> :> [file |-> Min(Fresh)]) @@ fs
       \/ "enospc" \in guest /\ fs' = Without(fs, <<n>>)
    /\ UNCHANGED <<guest, call, faults>>

\* The entries of unlink(2) and rename(2).  Two names of the same file make the
\* latter a rename of the old name onto itself.
remember_removed_link(t, n) ==
    /\ Calls(t, {n})
    /\ call' = [call EXCEPT ![t] =
                   [op |-> "unlink", names |-> {n}, old |-> n, new |-> n,
                    removed |-> read_faked_hard_link(fs, <<n>>)]]
    /\ UNCHANGED <<guest, fs, faults>>

prepare_rename_blind(t, old, new, flags) ==
    LET removed == IF flags = "none" THEN read_faked_hard_link(fs, <<new>>) ELSE <<>> IN
    /\ "renames" \in guest
    /\ Calls(t, {old, new})
    /\ call' = [call EXCEPT ![t] =
                   [op |-> "rename", names |-> {old, new}, old |-> old, flags |-> flags,
                    new |-> new, removed |-> removed]]
    /\ UNCHANGED <<guest, fs, faults>>

prepare_rename(t, old, new, flags) ==
    LET removed == IF flags = "none" THEN read_faked_hard_link(fs, <<new>>) ELSE <<>>
        same == removed # <<>> /\ read_faked_hard_link(fs, <<old>>) = removed
    IN  /\ "renames" \in guest
        /\ Calls(t, {old, new})
        /\ call' = [call EXCEPT ![t] =
                       [op |-> "rename", names |-> {old, new}, old |-> old, flags |-> flags,
                        new |-> IF same THEN old ELSE new,
                        removed |-> IF same THEN <<>> ELSE removed]]
        /\ UNCHANGED <<guest, fs, faults>>

\* The call itself, by the kernel.  One that is rejected changes nothing, but
\* its result register is not an error.
Returned(t, result) ==
    call' = [call EXCEPT ![t] = [op |-> "exit", names |-> @.names, link |-> @.new,
                                 removed |-> @.removed, result |-> result]]

KernelUnlinks(t) ==
    /\ call[t].op = "unlink" /\ <<call[t].new>> \in DOMAIN fs
    /\ fs' = Without(fs, <<call[t].new>>)
    /\ Returned(t, 0) /\ UNCHANGED <<guest, faults>>

KernelRenames(t) ==
    LET old == <<call[t].old>>
        new == <<call[t].new>>
    IN  /\ call[t].op = "rename"
        /\ old \in DOMAIN fs
        /\ call[t].flags = "noreplace" => new \notin DOMAIN fs
        /\ call[t].flags = "exchange" => new \in DOMAIN fs
        /\ fs' = IF call[t].flags = "exchange" THEN [fs EXCEPT ![old] = fs[new], ![new] = fs[old]]
                 ELSE Moved(fs, old, new)
        /\ Returned(t, 0) /\ UNCHANGED <<guest, faults>>

KernelFails(t) ==
    /\ call[t].op \in {"unlink", "rename"}
    /\ \/ Returned(t, 1)
       \/ "rejects" \in guest /\ Returned(t, 0)
    /\ UNCHANGED <<guest, fs, faults>>

\* The exit: one link less if the name is gone, or leads elsewhere.
forget_removed_trusting(t) ==
    LET c == call[t] IN
    /\ c.op = "exit"
    /\ Does(IF c.result = 0 /\ c.removed # <<>>
            THEN decrement_removed_link_count(fs, c.removed) ELSE {Outcome(fs, "ok")}, t, Idle)
    /\ UNCHANGED guest

forget_removed_link(t) ==
    LET c == call[t] IN
    /\ c.op = "exit"
    /\ Does(IF c.result = 0 /\ c.removed # <<>> /\ read_faked_hard_link(fs, <<c.link>>) # c.removed
            THEN decrement_removed_link_count(fs, c.removed) ELSE {Outcome(fs, "ok")}, t, Idle)
    /\ UNCHANGED guest

\* PRoot is killed while the guests run.
Killed ==
    /\ "crashes" \in Met
    /\ call' = [t \in Tracee |-> Idle]
    /\ faults' = faults + 1
    /\ UNCHANGED <<guest, fs>>

--------------------------------------------------------------------------------
Init ==
    /\ guest \in Guests
    /\ fs = <<>>
    /\ call = [t \in Tracee |-> Idle]
    /\ faults = 0

Flags == IF "flags" \in guest THEN {"none", "noreplace", "exchange"} ELSE {"none"}

Next ==
    \/ \E t \in Tracee :
          \/ \E n \in Name : \/ Create(t, n) \/ Symlink(t, n)
                             \/ LinkatDeleted(t, n) \/ remember_removed_link(t, n)
          \/ \E old, new \in Name : Link(t, old, new)
          \/ \E old, new \in Name, flags \in Flags : prepare_rename(t, old, new, flags)
          \/ KernelUnlinks(t) \/ KernelRenames(t) \/ KernelFails(t)
          \/ forget_removed_link(t)
    \/ Killed

Spec == Init /\ [][Next]_vars

--------------------------------------------------------------------------------
Finals == {p \in DOMAIN fs : DOMAIN p = 1..3}
Intermediates == {p \in DOMAIN fs : DOMAIN p = 1..2}
LinksTo(i) == {n \in Name : read_faked_hard_link(fs, <<n>>) = i}

TypeOK ==
    /\ guest \in Guests /\ Guests \subseteq SUBSET Habits
    /\ \A p \in DOMAIN fs :
          \/ \E n \in Name : p = <<n>> /\ (IsFile(fs, p) \/ IsLink(fs, p))
          \/ p \in Intermediates /\ p[2] \in 1..MaxSuffix /\ fs[p].link \in {p \o <<c>> : c \in 1..MaxCount}
          \/ p \in Finals /\ p[3] \in 1..MaxCount /\ fs[p].file \in 1..MaxInodes
    /\ faults \in 0..MaxFaults
    /\ \A t \in Tracee : call[t].op \in {"none", "unlink", "rename", "exit"}

\* The file a name leads to.
Leads(n) ==
    CASE <<n>> \notin DOMAIN fs    -> 0
      [] IsFile(fs, <<n>>)         -> fs[<<n>>].file
      [] fs[<<n>>] = Elsewhere     -> -1
      [] OTHER -> LET final == resolve_faked_hard_link(fs, <<n>>) IN
                  IF IsFile(fs, final) THEN fs[final].file ELSE 0

\* Guests whose calls are always carried through, one at a time for each name.
Sane == guest \intersect {"races", "enospc", "crashes"} = {}

HL == INSTANCE HardLinks
         WITH Inode <- 1..MaxInodes, names <- [n \in Name |-> Leads(n)], data <- Inodes(fs)

\* The kernel does what the tracee called for, in terms of hard links.
AsAsked(t) ==
    call'[t].op = "exit" =>
       CASE call[t].op = "unlink" -> HL!Unlink(call[t].old)
         [] call[t].op = "rename" ->
               \E n \in call[t].names : \/ HL!Rename(call[t].old, n)
                                        \/ call[t].flags = "exchange" /\ HL!Exchange(call[t].old, n)
         [] OTHER -> TRUE

\* To guests whose calls do not race on a name, and as long as PRoot is neither
\* killed nor out of space, faked hard links are hard links: names lead to the
\* file they were linked to, whatever else is linked, removed, renamed or fails,
\* and a file goes away only with its last name.
Implements ==
    HL!Init /\ [][Sane => HL!Next /\ \A t \in Tracee : AsAsked(t)]_<<[n \in Name |-> Leads(n)], Inodes(fs)>>

\* A name that is gone while its count is still to be decremented.
Owes(t, i) ==
    /\ call[t].op = "exit" /\ call[t].result = 0 /\ call[t].removed = i
    /\ read_faked_hard_link(fs, <<call[t].link>>) # i

\* The count in the name of a file is the number of its links, plus those that
\* calls in progress have removed; where linkat(2) took the place of a link it is
\* too high, never too low.  No file is left without its intermediate.
CountMatches ==
    Sane => /\ \A i \in Intermediates : IsFile(fs, fs[i].link)
            /\ \A p \in Finals :
                  LET i == <<p[1], p[2]>>
                      links == Cardinality(LinksTo(i)) + Cardinality({t \in Tracee : Owes(t, i)})
                  IN  /\ read_faked_hard_link(fs, i) = p
                      /\ IF "tmpfiles" \in guest THEN p[3] >= links ELSE p[3] = links

\* What lstat(2) and getdents(2) report of a name: translated_path() replaces a
\* faked hard link by its final, whose count handle_sysexit_end() reports.
translated_path(n) ==
    LET final == resolve_faked_hard_link(fs, <<n>>) IN IF final = <<>> THEN <<n>> ELSE final
KernelType(p) ==
    IF p \notin DOMAIN fs THEN "none" ELSE IF IsFile(fs, p) THEN "file" ELSE "link"
Stat(n) ==
    LET p == translated_path(n) IN
    [type |-> KernelType(p), nlink |-> IF DOMAIN p = 1..3 THEN get_link_count(p) ELSE 1]
get_faked_hard_link_type(n) ==
    LET final == resolve_faked_hard_link(fs, <<n>>) IN
    IF final # <<>> /\ KernelType(final) # "none" THEN KernelType(final) ELSE KernelType(<<n>>)

\* Between calls, the link count a guest sees is the number of names that lead to
\* the file, and directories list a name with the type lstat(2) gives it.
StatSeesHardLinks ==
    (Sane /\ "tmpfiles" \notin guest /\ \A t \in Tracee : call[t] = Idle) =>
       \A n \in Name :
          /\ Stat(n).type = get_faked_hard_link_type(n)
          /\ Leads(n) > 0 => /\ Stat(n).type = "file"
                             /\ Stat(n).nlink = Cardinality({m \in Name : Leads(m) = Leads(n)})

\* The file a broken chain left behind is not replaced (the comment in
\* move_and_symlink_path() on how an intermediate is reserved).
BrokenChainsKept ==
    [][\A p \in Finals : read_faked_hard_link(fs, <<p[1], p[2]>>) # p
          => fs[p].file \in Inodes(fs')]_vars

================================================================================
