---------------------------- MODULE ProcReadProofs ----------------------------
(***************************************************************************)
(* Proofs about reads of files of /proc that proc_isolation synthesizes or *)
(* filters, for any number of tasks, of descriptors and of slots in the    *)
(* table of synthesized descriptors.                                       *)
(***************************************************************************)
EXTENDS ProcIsolation, FiniteSetTheorems, TLAPS

\* Time limits of the provers, for every leaf below.
USE ZenonT(30), SMTT(30)

TaskStates == {"none", "new", "live", "dead"}
TaskTypes == ptask \in [PTask -> [state : TaskStates, tgid : PTask, pgid : PTask]]

Tame ==
    proc_guest \cap {"many", "reuses", "vectors", "preads", "over", "shares", "untracked",
                     "threads"} = {}
Active == InState({"new", "live"})

FileType ==
    [asked : {"none", "null", "maps", "plain"}, real : {"none", "null", "maps", "plain"}, pos : Nat,
     reader : PTask \X (PFd \cup {BadFd})]
EntryType == [kind : {"none", "synth", "maps", "nonmaps"}, off : Nat]
TableType == [PFd \cup {BadFd} -> EntryType]
ReadType ==
    [fd : PFd, how : {"read", "pread", "readv"}, step : {"kernel", "exit"}, exit : BOOLEAN,
     void : BOOLEAN, got : {"text", "end", "filtered", "unfiltered", "data"} \X Nat,
     want : {"text", "end", "filtered", "unfiltered", "data"} \X Nat]

ReadTypes ==
    /\ TaskTypes /\ ptask[PFirst].state = "live"
    /\ \A t \in PTask : ptask[t].state # "none" => Leader(t) = t
    /\ pfile \in [PFile -> FileType]
    /\ pfds \in [PTask -> [PFd -> PFile \cup {0}]]
    /\ synth \in [PTask -> TableType]
    /\ preading \in [PTask -> {NotReading} \cup ReadType]

\* Call c has read from f and PRoot has not answered it yet.
Answering(c, f) == c # NotReading /\ c.step = "exit" /\ c.fd = f

\* Entry e is right for descriptor me of the open file n, which is x: a synthesized file has
\* one, with the offset of the file if that is read through me, others have the right one
\* or none.
EntryFits(me, n, x, e, c) ==
    IF n = 0 THEN e = NoEntry
    ELSE /\ x.real = x.asked /\ x.pos \in 0 .. SynthText
         /\ \/ /\ x.asked = "null" /\ e.kind = "synth"
               /\ x.reader = me =>
                     IF Answering(c, me[2]) /\ e.off < SynthText THEN x.pos = e.off + 1
                     ELSE x.pos = e.off
            \/ x.asked = "maps" /\ (e = NoEntry \/ e.kind = "maps")
            \/ x.asked = "plain" /\ (e = NoEntry \/ e.kind = "nonmaps")

\* Call c, a read(2) of what me has open, gives what is wanted in the end.
Underway(me, n, x, e, c) ==
    /\ n # 0 /\ x.reader = me /\ c.how = "read" /\ ~c.void
    /\ c.step = "kernel" => (c.exit <=> x.asked # "plain")
    /\ c.step = "exit" =>
          \/ x.asked = "null" /\ c.want = IF e.off < SynthText THEN <<"text", e.off + 1>> ELSE <<"end", 0>>
          \/ x.asked = "maps" /\ c.got = <<"unfiltered", 0>> /\ c.want = <<"filtered", 0>>

Descriptor(t, f) == EntryFits(<<t, f>>, pfds[t][f], pfile[pfds[t][f]], synth[t][f], preading[t])
Reading(t) ==
    LET f == preading[t].fd IN
    preading[t] # NotReading =>
       t \in PLive /\ Underway(<<t, f>>, pfds[t][f], pfile[pfds[t][f]], synth[t][f], preading[t])

ReadInv ==
    /\ ReadTypes
    /\ \A t \in Active : synth[t][BadFd] = NoEntry /\ \A f \in PFd : Descriptor(t, f)
    /\ \A t \in PTask : Reading(t)
    /\ \A n \in PFile : pfile[n].reader[1] \in Active
    /\ plast = <<>>

\* What is right stays right while the file is the same, is not read through the descriptor
\* anew, and the entry is the same or one that only saves a readlink(2).
LEMMA EntryFitsStill ==
    ASSUME NEW me, NEW n, NEW x, NEW e, NEW c, NEW y, NEW d, NEW b, EntryFits(me, n, x, e, c),
           n # 0 => /\ y.asked = x.asked /\ y.real = x.real /\ y.pos \in 0 .. SynthText
                    /\ y.reader = me => /\ x.reader = me /\ y.pos = x.pos
                                        /\ Answering(b, me[2]) <=> Answering(c, me[2]),
           d = e \/ (e.kind = "nonmaps" /\ d = NoEntry)
    PROVE  EntryFits(me, n, y, d, b)
<1>1. CASE n = 0
  BY <1>1 DEF EntryFits, NoEntry
<1>2. CASE n # 0 /\ x.asked = "null"
  BY <1>2 DEF EntryFits
<1>3. CASE n # 0 /\ x.asked # "null"
  BY <1>3 DEF EntryFits
<1> QED
  BY <1>1, <1>2, <1>3

\* hpc_add_fd_kind() and hpc_copy_synth_fd(): the new entry is in the table or not, of the
\* others one may be gone that only saves a readlink(2).
LEMMA RecordedFacts ==
    ASSUME NEW tab \in TableType, NEW f \in PFd, tab[f] = NoEntry, NEW e \in EntryType,
           NEW new \in Recorded(tab, f, e)
    PROVE  /\ new \in TableType
           /\ new[f] \in {NoEntry, e}
           /\ \A g \in PFd \cup {BadFd} : g # f =>
                 new[g] = tab[g] \/ (tab[g].kind = "nonmaps" /\ new[g] = NoEntry)
           /\ \/ new[f] = e \/ e.kind = "nonmaps"
              \/ Cardinality(Entries(tab)) >= MAX_PROC_SYNTH_FDS /\ NonMaps(tab) = {}
<1>1. NoEntry \in EntryType
  BY DEF NoEntry, EntryType
<1>2. Entries(tab) \subseteq PFd \cup {BadFd} /\ NonMaps(tab) \subseteq Entries(tab)
  BY DEF Entries, NonMaps, TableType
<1>3. IsFiniteSet(Entries(tab)) /\ Cardinality(Entries(tab)) \in Nat
  <2>1. IsFiniteSet(PFd \cup {BadFd})
    BY ProcAssumption, FS_AddElement
  <2> QED
    BY <1>2, <2>1, FS_Subset, FS_CardinalityType
<1>4. CASE Cardinality(Entries(tab)) < MAX_PROC_SYNTH_FDS
  <2>1. new = [tab EXCEPT ![f] = e]
    BY <1>4 DEF Recorded
  <2>2. new \in TableType
    BY <2>1 DEF TableType
  <2>3. new[f] = e /\ \A g \in PFd \cup {BadFd} : g # f => new[g] = tab[g]
    BY <2>1 DEF TableType
  <2> QED
    BY <2>2, <2>3
<1>5. CASE ~(Cardinality(Entries(tab)) < MAX_PROC_SYNTH_FDS) /\ (e.kind = "nonmaps" \/ NonMaps(tab) = {})
  <2>1. new = tab
    BY <1>5 DEF Recorded
  <2>2. Cardinality(Entries(tab)) >= MAX_PROC_SYNTH_FDS
    BY <1>3, <1>5, ProcAssumption
  <2>3. e.kind = "nonmaps" \/ (Cardinality(Entries(tab)) >= MAX_PROC_SYNTH_FDS /\ NonMaps(tab) = {})
    BY <1>5, <2>2
  <2> QED
    BY <2>1, <2>3
<1>6. CASE ~(Cardinality(Entries(tab)) < MAX_PROC_SYNTH_FDS) /\ e.kind # "nonmaps" /\ NonMaps(tab) # {}
  <2>1. PICK g \in NonMaps(tab) : new = [tab EXCEPT ![g] = NoEntry, ![f] = e]
    BY <1>6 DEF Recorded
  <2>2. g \in PFd \cup {BadFd} /\ tab[g].kind = "nonmaps" /\ g # f
    BY <1>2 DEF NonMaps, Entries
  <2>3. new \in TableType
    BY <1>1, <2>1, <2>2 DEF TableType
  <2>4. new[f] = e /\ new[g] = NoEntry /\ \A h \in PFd \cup {BadFd} : h # f /\ h # g => new[h] = tab[h]
    BY <2>1, <2>2 DEF TableType
  <2> QED
    BY <2>2, <2>3, <2>4
<1> QED
  BY <1>4, <1>5, <1>6

\* What the invariant says of types, alone.
LEMMA ReadTyped ==
    ASSUME ReadInv
    PROVE  /\ TaskTypes /\ ptask[PFirst].state = "live"
           /\ \A t \in PTask : ptask[t].state # "none" => Leader(t) = t
           /\ pfile \in [PFile -> FileType]
           /\ pfds \in [PTask -> [PFd -> PFile \cup {0}]]
           /\ synth \in [PTask -> TableType]
           /\ preading \in [PTask -> {NotReading} \cup ReadType]
  BY DEF ReadInv, ReadTypes

\* A call under way is of a descriptor, and is what the invariant says of it.
LEMMA ReaderTyped ==
    ASSUME ReadInv, NEW v \in PTask
    PROVE  Reading(v) /\ (preading[v] # NotReading => preading[v].fd \in PFd)
<1>1. Reading(v)
  BY DEF ReadInv
<1>2. preading[v] # NotReading => preading[v] \in ReadType
  BY ReadTyped
<1> QED
  BY <1>1, <1>2 DEF ReadType

\* A descriptor of a task that has not exited is as the invariant says.
LEMMA DescriptorTyped ==
    ASSUME ReadInv, NEW v \in Active, NEW g \in PFd
    PROVE  v \in PTask /\ Descriptor(v, g) /\ pfds[v][g] \in PFile \cup {0}
<1>1. v \in PTask
  BY DEF Active, InState
<1>2. Descriptor(v, g)
  BY DEF ReadInv
<1>3. pfds[v][g] \in PFile \cup {0}
  BY <1>1, ReadTyped
<1> QED
  BY <1>1, <1>2, <1>3

\* The entries that may not be squeezed out are those of the files that need them.
LEMMA SlotThere ==
    ASSUME ReadInv, NEW t \in PLive, Cardinality(Special(t)) < MAX_PROC_SYNTH_FDS
    PROVE  ~(Cardinality(Entries(synth[t])) >= MAX_PROC_SYNTH_FDS /\ NonMaps(synth[t]) = {})
<1>1. t \in PTask /\ t \in Active /\ Leader(t) = t
  BY ReadTyped DEF PLive, Active, InState
<1> SUFFICES ASSUME NonMaps(synth[t]) = {}
             PROVE  Entries(synth[t]) \subseteq Special(t)
  <2>1. IsFiniteSet(Special(t))
    BY ProcAssumption, FS_Subset DEF Special
  <2>2. ASSUME Entries(synth[t]) \subseteq Special(t)
        PROVE  Cardinality(Entries(synth[t])) <= Cardinality(Special(t))
    BY <2>1, <2>2, FS_Subset
  <2>3. Cardinality(Special(t)) \in Nat
    BY <2>1, FS_CardinalityType
  <2>4. IsFiniteSet(Entries(synth[t])) => Cardinality(Entries(synth[t])) \in Nat
    BY FS_CardinalityType
  <2>5. Entries(synth[t]) \subseteq Special(t) => IsFiniteSet(Entries(synth[t]))
    BY <2>1, FS_Subset
  <2> QED
    BY <2>2, <2>3, <2>4, <2>5, ProcAssumption
<1> SUFFICES ASSUME NEW f \in Entries(synth[t])
             PROVE  f \in Special(t)
  OBVIOUS
<1>2. synth[t] \in TableType
  BY <1>1, ReadTyped
<1>3. f \in PFd /\ synth[t][f] # NoEntry
  BY <1>1, <1>2 DEF Entries, TableType, ReadInv
<1>4. synth[t][f].kind # "nonmaps"
  BY <1>3 DEF NonMaps
<1>5. Descriptor(t, f)
  BY <1>1, <1>3 DEF ReadInv
<1>6. FileOf(t, f) = pfds[t][f]
  BY <1>1, <1>3, ProcAssumption DEF FileOf
<1> QED
  BY <1>3, <1>4, <1>5, <1>6 DEF Descriptor, EntryFits, Special

LEMMA DescriptorStill ==
    ASSUME NEW v, NEW g, Descriptor(v, g), pfds'[v][g] = pfds[v][g], preading'[v] = preading[v],
           pfds[v][g] # 0 => pfile'[pfds[v][g]] = pfile[pfds[v][g]],
           synth'[v][g] = synth[v][g] \/ (synth[v][g].kind = "nonmaps" /\ synth'[v][g] = NoEntry)
    PROVE  Descriptor(v, g)'
<1>1. CASE pfds[v][g] = 0
  BY <1>1 DEF Descriptor, EntryFits, NoEntry
<1>2. CASE pfds[v][g] # 0
  <2>1. EntryFits(<<v, g>>, pfds[v][g], pfile[pfds[v][g]], synth[v][g], preading[v])
    BY DEF Descriptor
  <2>2. pfile[pfds[v][g]].pos \in 0 .. SynthText
    BY <1>2, <2>1 DEF EntryFits
  <2>3. EntryFits(<<v, g>>, pfds[v][g], pfile[pfds[v][g]], synth'[v][g], preading[v])
    BY ONLY <2>1, <2>2, EntryFitsStill,
            synth'[v][g] = synth[v][g] \/ (synth[v][g].kind = "nonmaps" /\ synth'[v][g] = NoEntry)
  <2> QED
    BY <1>2, <2>3 DEF Descriptor
<1> QED
  BY <1>1, <1>2

LEMMA ReadingStill ==
    ASSUME NEW v, Reading(v), preading'[v] = preading[v],
           preading[v] # NotReading =>
              /\ v \in PLive => v \in PLive'
              /\ pfds'[v][preading[v].fd] = pfds[v][preading[v].fd]
              /\ pfds[v][preading[v].fd] # 0 =>
                    pfile'[pfds[v][preading[v].fd]] = pfile[pfds[v][preading[v].fd]]
              /\ synth'[v][preading[v].fd] = synth[v][preading[v].fd]
    PROVE  Reading(v)'
<1>1. CASE preading[v] = NotReading
  BY <1>1 DEF Reading
<1>2. CASE preading[v] # NotReading
  <2>1. v \in PLive /\ pfds[v][preading[v].fd] # 0
    BY ZenonT(30), <1>2 DEF Reading, Underway
  <2> QED
    BY <1>2, <2>1 DEF Reading
<1> QED
  BY <1>1, <1>2

LEMMA SameTasks ==
    ASSUME ReadInv, ptask' = ptask
    PROVE  /\ Active' = Active /\ PLive' = PLive /\ TaskTypes' /\ ptask'[PFirst].state = "live"
           /\ \A t \in PTask : ptask'[t].state # "none" => Leader(t)' = t
  BY ReadTyped DEF Active, PLive, InState, TaskTypes, Leader

\* A task that calls is a process of its own and in no read(2).
LEMMA CallerFacts ==
    ASSUME ReadInv, NEW t \in PTask, Calling(t)
    PROVE  /\ t \in PLive /\ t \in Active /\ Leader(t) = t /\ preading[t] = NotReading
           /\ synth[t] \in TableType /\ pfds[t] \in [PFd -> PFile \cup {0}]
           /\ \A f \in PFd : FileOf(t, f) = pfds[t][f] /\ Descriptor(t, f)
           /\ synth[t][BadFd] = NoEntry
<1>1. t \in PLive /\ t \in Active /\ Leader(t) = t /\ preading[t] = NotReading
  BY ReadTyped DEF Calling, PLive, Active, InState
<1>2. synth[t] \in TableType /\ pfds[t] \in [PFd -> PFile \cup {0}]
  BY ReadTyped
<1>3. \A f \in PFd : f # BadFd
  BY ProcAssumption
<1>4. \A f \in PFd : FileOf(t, f) = pfds[t][f]
  BY <1>1, <1>3 DEF FileOf
<1> QED
  BY <1>1, <1>2, <1>4 DEF ReadInv

\* open(2): the table has the entry the file needs, whatever it had for the number before.
LEMMA OpenKeeps ==
    ASSUME Tame, ReadInv, NEW t \in PTask, NEW p, NEW again \in BOOLEAN, PathOpen(t, p, again)
    PROVE  ReadInv'
<1> DEFINE asked == OpensAs(p)
<1>1. ~again /\ Calling(t) /\ asked # "ENOENT" /\ SlotLeft(t, asked) /\ ~Dares("many")
  BY DEF PathOpen, Tame, Dares
<1>2. /\ t \in PLive /\ t \in Active /\ Leader(t) = t /\ preading[t] = NotReading
      /\ synth[t] \in TableType /\ pfds[t] \in [PFd -> PFile \cup {0}]
      /\ \A f \in PFd : FileOf(t, f) = pfds[t][f] /\ Descriptor(t, f)
      /\ synth[t][BadFd] = NoEntry
  BY <1>1, CallerFacts
<1>3. asked \in {"null", "maps", "plain"} /\ (hpc_proc_synth_kind(p) <=> asked = "null")
  BY <1>1 DEF OpensAs, hpc_proc_synth_kind, OfProcess
<1>4. PICK f \in PFd, n \in PFile :
         /\ pfds[t][f] = 0 /\ n \notin Referred(pfds)
         /\ NewFile(t, f, n, asked, asked)
         /\ \E tab \in IF asked = "null" THEN hpc_add_fd_kind(hpc_remove_synth_fd(synth[t], f), f, "synth")
                       ELSE {hpc_remove_synth_fd(synth[t], f)} :
               synth' = [synth EXCEPT ![t] = tab]
  BY ZenonT(30), <1>1, <1>2, <1>3 DEF PathOpen, LowestFd, LowestFile, FreeFile
<1> HIDE DEF asked
<1>5. synth[t][f] = NoEntry
  BY <1>2, <1>4 DEF Descriptor, EntryFits
<1>6. hpc_remove_synth_fd(synth[t], f) = synth[t]
  BY <1>2, <1>5 DEF hpc_remove_synth_fd, TableType
<1>7. PICK tab \in TableType :
         /\ synth' = [synth EXCEPT ![t] = tab]
         /\ IF asked = "null" THEN tab[f] = [kind |-> "synth", off |-> 0] ELSE tab[f] = NoEntry
         /\ \A g \in PFd \cup {BadFd} : g # f =>
               tab[g] = synth[t][g] \/ (synth[t][g].kind = "nonmaps" /\ tab[g] = NoEntry)
  <2>1. CASE asked # "null"
    BY ZenonT(30), <1>2, <1>4, <1>5, <1>6, <2>1
  <2>2. CASE asked = "null"
    <3> DEFINE e == [kind |-> "synth", off |-> 0]
    <3>1. PICK tab \in Recorded(synth[t], f, e) : synth' = [synth EXCEPT ![t] = tab]
      BY ZenonT(30), <1>4, <1>6, <2>2 DEF hpc_add_fd_kind
    <3>2. e \in EntryType /\ e.kind # "nonmaps"
      BY DEF EntryType
    <3> HIDE DEF e
    <3>3. /\ tab \in TableType
          /\ \A g \in PFd \cup {BadFd} : g # f =>
                tab[g] = synth[t][g] \/ (synth[t][g].kind = "nonmaps" /\ tab[g] = NoEntry)
          /\ \/ tab[f] = e \/ e.kind = "nonmaps"
             \/ Cardinality(Entries(synth[t])) >= MAX_PROC_SYNTH_FDS /\ NonMaps(synth[t]) = {}
      BY SMTT(30), <1>2, <1>5, <3>1, <3>2, RecordedFacts
    <3>4. Cardinality(Special(t)) < MAX_PROC_SYNTH_FDS
      BY <1>1, <2>2 DEF SlotLeft
    <3>5. tab[f] = e
      BY <1>2, <3>2, <3>3, <3>4, SlotThere
    <3> QED
      BY ZenonT(30), <2>2, <3>1, <3>3, <3>5 DEF e
  <2> QED
    BY <2>1, <2>2
<1> DEFINE file == [asked |-> asked, real |-> asked, pos |-> 0, reader |-> <<t, f>>]
<1>8. /\ pfds' = [pfds EXCEPT ![t][f] = n] /\ pfile' = [pfile EXCEPT ![n] = file]
      /\ ptask' = ptask /\ preading' = preading /\ plast' = plast
  BY ZenonT(30), <1>2, <1>4 DEF NewFile, PathOpen
<1>9. /\ Active' = Active /\ PLive' = PLive /\ TaskTypes' /\ ptask'[PFirst].state = "live"
      /\ \A u \in PTask : ptask'[u].state # "none" => Leader(u)' = u
  BY <1>8, SameTasks
<1>10. file \in FileType
  BY <1>3 DEF FileType
<1> HIDE DEF file
<1>11. ReadTypes'
  BY <1>7, <1>8, <1>9, <1>10, ReadTyped DEF ReadTypes
<1>12. \A v \in PTask, g \in PFd : pfds[v][g] # n
  BY SMTT(30), <1>4, ReadTyped DEF Referred, Range
<1>13. ASSUME NEW v \in PTask, NEW g \in PFd, ~(v = t /\ g = f)
       PROVE  /\ pfds'[v][g] = pfds[v][g]
              /\ pfds[v][g] # 0 => pfile'[pfds[v][g]] = pfile[pfds[v][g]]
              /\ v # t => synth'[v] = synth[v]
  BY SMTT(30), <1>7, <1>8, <1>12, <1>13, ReadTyped
<1>14. synth'[t] = tab /\ pfds'[t][f] = n /\ pfile'[n] = file /\ n # 0
  BY <1>7, <1>8, ProcAssumption, ReadTyped
<1>15. Descriptor(t, f)'
  <2>1. 0 \in 0 .. SynthText /\ preading'[t] = NotReading
    BY SMTT(30), <1>2, <1>8, ProcAssumption
  <2>2. EntryFits(<<t, f>>, n, file, tab[f], NotReading)
    BY SMTT(30), <1>3, <1>7, <1>14, <2>1 DEF EntryFits, file, Answering
  <2> QED
    BY <1>14, <2>1, <2>2 DEF Descriptor
<1>16. ASSUME NEW v \in Active, NEW g \in PFd
       PROVE  Descriptor(v, g)'
  <2>1. v \in PTask /\ Descriptor(v, g)
    BY DescriptorTyped
  <2>2. CASE v = t /\ g = f
    BY <1>15, <2>2
  <2>3. CASE ~(v = t /\ g = f)
    <3>1. synth'[v][g] = synth[v][g] \/ (synth[v][g].kind = "nonmaps" /\ synth'[v][g] = NoEntry)
      BY SMTT(30), <1>7, <1>13, <1>14, <2>1, <2>3
    <3> QED
      BY <1>8, <1>13, <2>1, <2>3, <3>1, DescriptorStill
  <2> QED
    BY <2>2, <2>3
<1>17. ASSUME NEW v \in Active
       PROVE  synth'[v][BadFd] = NoEntry
  <2>1. v \in PTask /\ synth[v][BadFd] = NoEntry /\ BadFd # f
    BY ProcAssumption DEF Active, InState, ReadInv
  <2> QED
    BY SMTT(30), <1>7, <1>13, <1>14, <2>1 DEF NoEntry
<1>18. ASSUME NEW v \in PTask
       PROVE  Reading(v)'
  <2>1. Reading(v) /\ (preading[v] # NotReading => preading[v].fd \in PFd)
    BY ReaderTyped
  <2> QED
    BY <1>2, <1>8, <1>9, <1>13, <2>1, ReadingStill
<1>19. \A m \in PFile : pfile'[m].reader[1] \in Active'
  BY <1>2, <1>8, <1>9, ReadTyped DEF file, ReadInv
<1> QED
  BY <1>8, <1>9, <1>11, <1>16, <1>17, <1>18, <1>19 DEF ReadInv

\* close(2): the entry is gone with the descriptor.
LEMMA CloseKeeps ==
    ASSUME ReadInv, NEW t \in PTask, NEW f \in PFd, PathClose(t, f)
    PROVE  ReadInv'
<1>1. Calling(t)
  BY DEF PathClose
<1>2. t \in Active /\ Leader(t) = t /\ preading[t] = NotReading
  BY <1>1, CallerFacts
<1>3. /\ pfds' = [pfds EXCEPT ![t][f] = 0]
      /\ pfile' = [m \in PFile |-> IF m \notin Referred(pfds') THEN NoFile ELSE pfile[m]]
      /\ synth' = [synth EXCEPT ![t] = [synth[t] EXCEPT ![f] = NoEntry]]
      /\ ptask' = ptask /\ preading' = preading /\ plast' = plast
  BY <1>2 DEF PathClose, Shuts, Leaves, hpc_remove_synth_fd
<1>4. /\ Active' = Active /\ PLive' = PLive /\ TaskTypes' /\ ptask'[PFirst].state = "live"
      /\ \A u \in PTask : ptask'[u].state # "none" => Leader(u)' = u
  BY <1>3, SameTasks
<1>5. NoFile \in FileType /\ NoEntry \in EntryType
  BY ProcAssumption DEF NoFile, FileType, NoEntry, EntryType
<1>6. pfds' \in [PTask -> [PFd -> PFile \cup {0}]] /\ pfile' \in [PFile -> FileType]
  BY <1>3, <1>5, ReadTyped
<1>7. synth' \in [PTask -> TableType]
  BY ZenonT(30), <1>3, <1>5, ReadTyped DEF TableType
<1>8. ReadTypes'
  BY ZenonT(30), <1>3, <1>4, <1>6, <1>7, ReadTyped DEF ReadTypes
<1>9. \A v \in PTask, g \in PFd : pfds'[v][g] \in Referred(pfds')
  BY SMTT(30), <1>6 DEF Referred, Range
<1>10. ASSUME NEW v \in PTask, NEW g \in PFd, ~(v = t /\ g = f)
       PROVE  /\ pfds'[v][g] = pfds[v][g]
              /\ pfds[v][g] # 0 => pfile'[pfds[v][g]] = pfile[pfds[v][g]]
              /\ synth'[v][g] = synth[v][g]
  <2>1. pfds'[v][g] = pfds[v][g] /\ synth'[v][g] = synth[v][g] /\ pfds[v][g] \in PFile \cup {0}
    BY <1>3, <1>10, ReadTyped DEF TableType
  <2> QED
    BY ZenonT(30), <1>3, <1>9, <2>1
<1>11. \A v \in PTask : synth'[v][BadFd] = synth[v][BadFd]
  BY <1>3, ProcAssumption, ReadTyped DEF TableType
<1>12. pfds'[t][f] = 0 /\ synth'[t][f] = NoEntry
  BY <1>3, ReadTyped DEF TableType
<1>13. ASSUME NEW v \in Active, NEW g \in PFd
       PROVE  Descriptor(v, g)'
  <2>1. v \in PTask /\ Descriptor(v, g)
    BY DescriptorTyped
  <2>2. CASE v = t /\ g = f
    BY <1>12, <2>2 DEF Descriptor, EntryFits
  <2>3. CASE ~(v = t /\ g = f)
    BY ZenonT(30), <1>3, <1>10, <2>1, <2>3, DescriptorStill
  <2> QED
    BY <2>2, <2>3
<1>14. ASSUME NEW v \in PTask
       PROVE  Reading(v)'
  <2>1. Reading(v) /\ (preading[v] # NotReading => preading[v].fd \in PFd)
    BY ReaderTyped
  <2> QED
    BY ZenonT(30), <1>2, <1>3, <1>4, <1>10, <2>1, ReadingStill
<1>15. \A m \in PFile : pfile'[m].reader[1] \in Active'
  <2>1. PFirst \in Active
    BY ProcAssumption, ReadTyped DEF Active, InState
  <2> QED
    BY <1>3, <1>4, <2>1 DEF NoFile, ReadInv
<1>16. \A v \in Active : synth'[v][BadFd] = NoEntry
  BY <1>11 DEF Active, InState, ReadInv
<1> QED
  BY ZenonT(30), <1>3, <1>4, <1>8, <1>13, <1>14, <1>15, <1>16 DEF ReadInv

\* dup(2) and its kin: the duplicate has an entry if the file needs one, with its offset.
LEMMA DupKeeps ==
    ASSUME Tame, ReadInv, NEW t \in PTask, NEW f \in PFd, NEW g \in PFd \cup {BadFd}, DupTo(t, f, g)
    PROVE  ReadInv'
<1>1. Calling(t) /\ FileOf(t, f) # 0 /\ f # g /\ FileOf(t, g) = 0 /\ g \in PFd
  BY DEF DupTo, Tame, Dares
<1>2. /\ t \in PLive /\ t \in Active /\ Leader(t) = t /\ preading[t] = NotReading
      /\ synth[t] \in TableType /\ pfds[t] \in [PFd -> PFile \cup {0}]
      /\ \A h \in PFd : FileOf(t, h) = pfds[t][h] /\ Descriptor(t, h)
      /\ synth[t][BadFd] = NoEntry
  BY <1>1, CallerFacts
<1> DEFINE n == pfds[t][f]
           x == pfile[n]
<1>3. n \in PFile /\ n # 0 /\ pfds[t][g] = 0 /\ x \in FileType
  BY <1>1, <1>2, ReadTyped
<1>4. x.reader = <<t, f>> /\ SlotLeft(t, x.asked) /\ ~Dares("many")
  BY <1>1, <1>2 DEF DupTo, MayRead, Tame, Dares
<1>5. /\ pfds' = [pfds EXCEPT ![t][g] = n]
      /\ pfile' = [m \in PFile |-> IF m = n THEN [x EXCEPT !.reader = <<t, g>>]
                                   ELSE IF m \notin Referred(pfds') THEN NoFile ELSE pfile[m]]
      /\ \E tab \in hpc_copy_synth_fd(synth[t], f, g) : synth' = [synth EXCEPT ![t] = tab]
      /\ ptask' = ptask /\ preading' = preading /\ plast' = plast
  <2>1. g # BadFd
    BY <1>1, ProcAssumption
  <2> QED
    BY ZenonT(30), <1>1, <1>2, <2>1 DEF DupTo
<1>6. synth[t][g] = NoEntry
  BY <1>1, <1>2, <1>3 DEF Descriptor, EntryFits
<1>7. EntryFits(<<t, f>>, n, x, synth[t][f], NotReading)
  BY <1>2 DEF Descriptor
<1> HIDE DEF x, n
<1>8. PICK tab \in TableType :
         /\ synth' = [synth EXCEPT ![t] = tab]
         /\ tab[g] = synth[t][f] \/ (tab[g] = NoEntry /\ x.asked # "null")
         /\ \A h \in PFd \cup {BadFd} : h # g =>
               tab[h] = synth[t][h] \/ (synth[t][h].kind = "nonmaps" /\ tab[h] = NoEntry)
  <2>1. hpc_remove_synth_fd(synth[t], g) = synth[t]
    BY <1>1, <1>2, <1>6 DEF hpc_remove_synth_fd, TableType
  <2>2. CASE synth[t][f] = NoEntry
    BY ZenonT(30), <1>2, <1>5, <1>6, <2>2 DEF hpc_copy_synth_fd
  <2>3. CASE synth[t][f] # NoEntry
    <3> DEFINE e == synth[t][f]
    <3>1. PICK tab \in Recorded(synth[t], g, e) : synth' = [synth EXCEPT ![t] = tab]
      BY ZenonT(30), <1>1, <1>5, <2>1, <2>3 DEF hpc_copy_synth_fd
    <3>2. e \in EntryType
      BY <1>2 DEF TableType
    <3>3. x.asked = "null" => e.kind # "nonmaps"
      BY <1>3, <1>7 DEF EntryFits
    <3> HIDE DEF e
    <3>4. /\ tab \in TableType /\ tab[g] \in {NoEntry, e}
          /\ \A h \in PFd \cup {BadFd} : h # g =>
                tab[h] = synth[t][h] \/ (synth[t][h].kind = "nonmaps" /\ tab[h] = NoEntry)
          /\ \/ tab[g] = e \/ e.kind = "nonmaps"
             \/ Cardinality(Entries(synth[t])) >= MAX_PROC_SYNTH_FDS /\ NonMaps(synth[t]) = {}
      BY SMTT(30), <1>1, <1>2, <1>6, <3>1, <3>2, RecordedFacts
    <3>5. x.asked = "null" => Cardinality(Special(t)) < MAX_PROC_SYNTH_FDS
      BY <1>4 DEF SlotLeft
    <3>6. x.asked = "null" => tab[g] = e
      BY <1>2, <3>3, <3>4, <3>5, SlotThere
    <3> QED
      BY ZenonT(30), <3>1, <3>4, <3>6 DEF e
  <2> QED
    BY <2>2, <2>3
<1> DEFINE y == [x EXCEPT !.reader = <<t, g>>]
<1>9. y \in FileType /\ y.asked = x.asked /\ y.real = x.real /\ y.pos = x.pos /\ y.reader = <<t, g>>
  BY <1>1, <1>3 DEF FileType
<1> HIDE DEF y
<1>10. /\ Active' = Active /\ PLive' = PLive /\ TaskTypes' /\ ptask'[PFirst].state = "live"
       /\ \A u \in PTask : ptask'[u].state # "none" => Leader(u)' = u
  BY <1>5, SameTasks
<1>11. NoFile \in FileType
  BY ProcAssumption DEF NoFile, FileType
<1>12. pfds' \in [PTask -> [PFd -> PFile \cup {0}]]
  BY ZenonT(30), <1>3, <1>5, ReadTyped
<1>13. pfile' \in [PFile -> FileType] /\ pfile'[n] = y
  <2>1. pfile' = [m \in PFile |-> IF m = n THEN y
                                  ELSE IF m \notin Referred(pfds') THEN NoFile ELSE pfile[m]]
    BY <1>5 DEF y
  <2> QED
    BY <1>3, <1>9, <1>11, <2>1, ReadTyped
<1>14. synth' \in [PTask -> TableType] /\ synth'[t] = tab
  BY <1>8, ReadTyped
<1>15. ReadTypes'
  BY ZenonT(30), <1>5, <1>10, <1>12, <1>13, <1>14, ReadTyped DEF ReadTypes
<1>16. \A v \in PTask, h \in PFd : pfds'[v][h] \in Referred(pfds')
  BY SMTT(30), <1>12 DEF Referred, Range
<1>17. ASSUME NEW v \in PTask, NEW h \in PFd, ~(v = t /\ h = g)
       PROVE  /\ pfds'[v][h] = pfds[v][h]
              /\ pfds[v][h] # 0 /\ pfds[v][h] # n => pfile'[pfds[v][h]] = pfile[pfds[v][h]]
              /\ v # t => synth'[v] = synth[v]
              /\ synth'[v][h] = synth[v][h] \/ (synth[v][h].kind = "nonmaps" /\ synth'[v][h] = NoEntry)
  <2>1. pfds'[v][h] = pfds[v][h] /\ pfds[v][h] \in PFile \cup {0}
    BY <1>5, <1>17, ReadTyped
  <2>2. v # t => synth'[v] = synth[v]
    BY <1>8, ReadTyped
  <2>3. synth'[v][h] = synth[v][h] \/ (synth[v][h].kind = "nonmaps" /\ synth'[v][h] = NoEntry)
    BY <1>8, <1>14, <1>17, <2>2
  <2>4. pfds[v][h] # 0 /\ pfds[v][h] # n => pfile'[pfds[v][h]] = pfile[pfds[v][h]]
    BY ZenonT(30), <1>5, <1>16, <2>1
  <2> QED
    BY <2>1, <2>2, <2>3, <2>4
<1>18. pfds'[t][g] = n
  BY <1>1, <1>5, ReadTyped
<1>19. Descriptor(t, g)'
  <2>1. ~Answering(NotReading, f) /\ ~Answering(NotReading, g)
    BY DEF Answering
  <2>2. EntryFits(<<t, g>>, n, y, tab[g], NotReading)
    BY <1>3, <1>4, <1>7, <1>8, <1>9, <2>1 DEF EntryFits
  <2> QED
    BY <1>2, <1>5, <1>13, <1>14, <1>18, <2>2 DEF Descriptor
<1>20. ASSUME NEW v \in Active, NEW h \in PFd
       PROVE  Descriptor(v, h)'
  <2>1. v \in PTask /\ Descriptor(v, h)
    BY DescriptorTyped
  <2>2. CASE v = t /\ h = g
    BY <1>19, <2>2
  <2>3. CASE ~(v = t /\ h = g) /\ pfds[v][h] # n
    BY ZenonT(30), <1>5, <1>17, <2>1, <2>3, DescriptorStill
  <2>4. CASE ~(v = t /\ h = g) /\ pfds[v][h] = n
    <3>1. synth'[v][h] = synth[v][h] \/ (synth[v][h].kind = "nonmaps" /\ synth'[v][h] = NoEntry)
      BY <1>17, <2>1, <2>4
    <3>2. EntryFits(<<v, h>>, n, x, synth[v][h], preading[v])
      BY <2>1, <2>4 DEF Descriptor, x
    <3>3. y.reader # <<v, h>> /\ y.pos \in 0 .. SynthText
      BY <1>3, <1>9, <2>4, <3>2 DEF EntryFits
    <3>4. EntryFits(<<v, h>>, n, y, synth'[v][h], preading[v])
      BY ONLY <1>9, <3>1, <3>2, <3>3, EntryFitsStill
    <3> QED
      BY <1>5, <1>13, <1>17, <2>1, <2>4, <3>4 DEF Descriptor
  <2> QED
    BY <2>2, <2>3, <2>4
<1>21. ASSUME NEW v \in Active
       PROVE  synth'[v][BadFd] = NoEntry
  <2>1. v \in PTask /\ synth[v][BadFd] = NoEntry /\ BadFd # g
    BY <1>1, ProcAssumption DEF Active, InState, ReadInv
  <2> QED
    BY <1>8, <1>14, <2>1, ReadTyped DEF NoEntry
<1>22. ASSUME NEW v \in PTask
       PROVE  Reading(v)'
  <2>1. Reading(v) /\ (preading[v] # NotReading => preading[v].fd \in PFd /\ v # t)
    BY <1>2, ReaderTyped
  <2>2. preading[v] # NotReading => pfds[v][preading[v].fd] # n
    <3> SUFFICES ASSUME preading[v] # NotReading, pfds[v][preading[v].fd] = n
                 PROVE  FALSE
      OBVIOUS
    <3>1. x.reader = <<v, preading[v].fd>>
      BY <2>1 DEF Reading, Underway, x
    <3> QED
      BY <1>4, <2>1, <3>1
  <2>3. preading[v] # NotReading =>
           /\ pfds'[v][preading[v].fd] = pfds[v][preading[v].fd]
           /\ pfds[v][preading[v].fd] # 0 =>
                 pfile'[pfds[v][preading[v].fd]] = pfile[pfds[v][preading[v].fd]]
           /\ synth'[v][preading[v].fd] = synth[v][preading[v].fd]
    BY <1>17, <2>1, <2>2
  <2> QED
    BY ZenonT(30), <1>5, <1>10, <2>1, <2>3, ReadingStill
<1>23. \A m \in PFile : pfile'[m].reader[1] \in Active'
  <2>1. PFirst \in Active
    BY ProcAssumption, ReadTyped DEF Active, InState
  <2>2. \A m \in PFile : pfile'[m] \in {y, NoFile, pfile[m]}
    BY <1>5 DEF y
  <2> QED
    BY SMTT(30), <1>2, <1>9, <1>10, <2>1, <2>2 DEF NoFile, ReadInv
<1> QED
  BY ZenonT(30), <1>5, <1>10, <1>15, <1>20, <1>21, <1>22, <1>23 DEF ReadInv

\* The enter of read(2): what the table says of the descriptor is what its file needs.
LEMMA ReadEnterKeeps ==
    ASSUME Tame, ReadInv, NEW t \in PTask, NEW f \in PFd, NEW how \in {"read", "pread", "readv"},
           ReadEnter(t, f, how)
    PROVE  ReadInv'
<1>1. Calling(t) /\ FileOf(t, f) # 0 /\ how = "read"
  BY DEF ReadEnter, Tame, Dares
<1>2. /\ t \in PLive /\ t \in Active /\ Leader(t) = t /\ preading[t] = NotReading
      /\ synth[t] \in TableType /\ pfds[t] \in [PFd -> PFile \cup {0}]
      /\ \A h \in PFd : FileOf(t, h) = pfds[t][h] /\ Descriptor(t, h)
      /\ synth[t][BadFd] = NoEntry
  BY <1>1, CallerFacts
<1> DEFINE n == pfds[t][f]
           x == pfile[n]
           e == synth[t][f]
           kind == hpc_classify_read_fd(t, f)
           call == [fd |-> f, how |-> how, step |-> "kernel", exit |-> how # "readv" /\ kind # "nonmaps",
                    void |-> how = "readv" /\ kind = "maps", got |-> <<"end", 0>>, want |-> <<"end", 0>>]
<1>3. n \in PFile /\ n # 0 /\ x \in FileType /\ e \in EntryType
  BY <1>1, <1>2, ReadTyped DEF TableType
<1>4. x.reader = <<t, f>>
  BY <1>1, <1>2 DEF ReadEnter, MayRead, Tame, Dares
<1>5. /\ \E tab \in hpc_add_fd_kind(synth[t], f, kind) : synth' = [synth EXCEPT ![t] = tab]
      /\ preading' = [preading EXCEPT ![t] = call]
      /\ ptask' = ptask /\ pfile' = pfile /\ pfds' = pfds /\ plast' = plast
  BY ZenonT(30) DEF ReadEnter
<1>6. EntryFits(<<t, f>>, n, x, e, NotReading)
  BY <1>2 DEF Descriptor
<1>7. RealOf(t, f) = x.real
  BY <1>1, <1>2 DEF RealOf
<1>8. kind = CASE x.asked = "null" -> "synth" [] x.asked = "maps" -> "maps" [] x.asked = "plain" -> "nonmaps"
  <2>1. CASE x.asked = "null"
    BY <1>3, <1>6, <2>1 DEF hpc_classify_read_fd, EntryFits, NoEntry
  <2>2. CASE x.asked = "maps"
    BY <1>3, <1>6, <1>7, <2>2 DEF hpc_classify_read_fd, EntryFits
  <2>3. CASE x.asked = "plain"
    BY <1>3, <1>6, <1>7, <2>3 DEF hpc_classify_read_fd, EntryFits
  <2> QED
    BY ZenonT(30), <1>3, <1>6, <2>1, <2>2, <2>3 DEF EntryFits
<1>9. x.asked \in {"null", "maps", "plain"}
  BY <1>3, <1>6 DEF EntryFits
<1> HIDE DEF kind, x, e, n
<1>10. PICK tab \in TableType :
          /\ synth' = [synth EXCEPT ![t] = tab]
          /\ tab[f] = e \/ (e = NoEntry /\ tab[f].kind = kind /\ x.asked # "null")
          /\ \A h \in PFd \cup {BadFd} : h # f =>
                tab[h] = synth[t][h] \/ (synth[t][h].kind = "nonmaps" /\ tab[h] = NoEntry)
  <2> DEFINE d == [kind |-> kind, off |-> 0]
  <2>1. PICK tab \in Recorded(synth[t], f, d) : synth' = [synth EXCEPT ![t] = tab]
    BY ZenonT(30), <1>5 DEF hpc_add_fd_kind
  <2>2. CASE e # NoEntry
    BY ZenonT(30), <1>2, <2>1, <2>2 DEF Recorded, e
  <2>3. CASE e = NoEntry
    <3>1. d \in EntryType /\ d.kind = kind
      BY <1>8, <1>9 DEF EntryType
    <3>2. x.asked # "null"
      BY <1>3, <1>6, <2>3 DEF EntryFits, NoEntry
    <3> HIDE DEF d
    <3>3. /\ tab \in TableType /\ tab[f] \in {NoEntry, d}
          /\ \A h \in PFd \cup {BadFd} : h # f =>
                tab[h] = synth[t][h] \/ (synth[t][h].kind = "nonmaps" /\ tab[h] = NoEntry)
      BY SMTT(30), <1>2, <2>1, <2>3, <3>1, RecordedFacts DEF e
    <3> QED
      BY ZenonT(30), <2>1, <2>3, <3>1, <3>2, <3>3
  <2> QED
    BY <2>2, <2>3
<1>11. /\ call \in ReadType /\ call.fd = f /\ call.how = "read" /\ ~call.void /\ call.step = "kernel"
       /\ call.exit <=> x.asked # "plain"
  <2>1. call.exit \in BOOLEAN /\ call.void \in BOOLEAN
    OBVIOUS
  <2> QED
    BY ZenonT(30), <1>1, <1>8, <1>9, <2>1 DEF ReadType
<1> HIDE DEF call
<1>12. /\ Active' = Active /\ PLive' = PLive /\ TaskTypes' /\ ptask'[PFirst].state = "live"
       /\ \A u \in PTask : ptask'[u].state # "none" => Leader(u)' = u
  BY <1>5, SameTasks
<1>13. /\ synth' \in [PTask -> TableType] /\ synth'[t] = tab /\ \A v \in PTask : v # t => synth'[v] = synth[v]
  BY <1>10, ReadTyped
<1>14. /\ preading' \in [PTask -> {NotReading} \cup ReadType] /\ preading'[t] = call
       /\ \A v \in PTask : v # t => preading'[v] = preading[v]
  BY <1>5, <1>11, ReadTyped
<1>15. ReadTypes'
  BY <1>5, <1>12, <1>13, <1>14, ReadTyped DEF ReadTypes
<1>16. ASSUME NEW v \in Active, NEW h \in PFd
       PROVE  Descriptor(v, h)'
  <2>1. v \in PTask /\ Descriptor(v, h)
    BY DescriptorTyped
  <2>2. CASE v # t
    BY <1>5, <1>13, <1>14, <2>1, <2>2 DEF Descriptor
  <2>3. CASE v = t /\ h # f
    <3> DEFINE m == pfds[t][h]
    <3>1. EntryFits(<<t, h>>, m, pfile[m], synth[t][h], NotReading)
      BY <1>2, <2>1, <2>3 DEF Descriptor
    <3>2. m # 0 => pfile[m].pos \in 0 .. SynthText
      BY <3>1 DEF EntryFits
    <3>3. ~Answering(call, h) /\ ~Answering(NotReading, h)
      BY <1>11 DEF Answering
    <3> HIDE DEF m
    <3>4. tab[h] = synth[t][h] \/ (synth[t][h].kind = "nonmaps" /\ tab[h] = NoEntry)
      BY <1>10, <2>3
    <3>5. EntryFits(<<t, h>>, m, pfile[m], tab[h], call)
      BY <3>1, <3>2, <3>3, <3>4, EntryFitsStill
    <3> QED
      BY <1>5, <1>13, <1>14, <2>3, <3>5 DEF Descriptor, m
  <2>4. CASE v = t /\ h = f
    <3>1. ~Answering(call, f) /\ ~Answering(NotReading, f)
      BY <1>11 DEF Answering
    <3>2. EntryFits(<<t, f>>, n, x, tab[f], call)
      BY <1>3, <1>6, <1>8, <1>9, <1>10, <3>1 DEF EntryFits
    <3> QED
      BY <1>5, <1>13, <1>14, <2>4, <3>2 DEF Descriptor, n, x
  <2> QED
    BY <2>2, <2>3, <2>4
<1>17. ASSUME NEW v \in Active
       PROVE  synth'[v][BadFd] = NoEntry
  <2>1. v \in PTask /\ synth[v][BadFd] = NoEntry /\ BadFd # f
    BY ProcAssumption DEF Active, InState, ReadInv
  <2> QED
    BY <1>10, <1>13, <2>1 DEF NoEntry
<1>18. ASSUME NEW v \in PTask
       PROVE  Reading(v)'
  <2>1. CASE v # t
    <3>1. Reading(v)
      BY DEF ReadInv
    <3> QED
      BY <1>5, <1>12, <1>13, <1>14, <2>1, <3>1 DEF Reading
  <2>2. CASE v = t
    <3>1. Underway(<<t, f>>, n, x, tab[f], call)
      BY <1>3, <1>4, <1>11 DEF Underway
    <3> QED
      BY <1>2, <1>5, <1>11, <1>12, <1>13, <1>14, <2>2, <3>1 DEF Reading, n, x
  <2> QED
    BY <2>1, <2>2
<1> QED
  BY <1>5, <1>12, <1>15, <1>16, <1>17, <1>18 DEF ReadInv

\* The kernel's part of read(2): the offset of the file goes on, and what is not answered at
\* an exit is right already.
LEMMA ReadKernelKeeps ==
    ASSUME ReadInv, NEW t \in PTask, ReadKernel(t)
    PROVE  ReadInv'
<1> DEFINE c == preading[t]
           f == c.fd
           n == pfds[t][f]
           x == pfile[n]
           e == synth[t][f]
<1>1. t \in PLive /\ c # NotReading /\ c.step = "kernel" /\ c \in ReadType /\ f \in PFd
  BY ReadTyped DEF ReadKernel, ReadType
<1>2. t \in Active /\ Leader(t) = t /\ FileOf(t, f) = n
  BY <1>1, ProcAssumption, ReadTyped DEF PLive, Active, InState, FileOf
<1>3. Underway(<<t, f>>, n, x, e, c) /\ EntryFits(<<t, f>>, n, x, e, c)
  BY <1>1, <1>2 DEF ReadInv, Reading, Descriptor
<1>4. n \in PFile /\ n # 0 /\ x \in FileType /\ e \in EntryType
  <2>1. pfds[t] \in [PFd -> PFile \cup {0}] /\ synth[t] \in TableType /\ pfile \in [PFile -> FileType]
    BY ReadTyped
  <2>2. n \in PFile \cup {0} /\ e \in EntryType
    BY <1>1, <2>1 DEF TableType
  <2>3. n # 0
    BY ZenonT(30), <1>3 DEF Underway
  <2> QED
    BY <2>1, <2>2, <2>3
<1> DEFINE got == KernelGives(n)
           want == Wanted(n, x.pos)
           y == IF x.pos = SynthText THEN x ELSE [x EXCEPT !.pos = @ + 1]
           d == [c EXCEPT !.step = "exit", !.got = got, !.want = want]
<1>5. /\ pfile' = IF x.pos = SynthText THEN pfile ELSE [pfile EXCEPT ![n].pos = @ + 1]
      /\ IF c.exit THEN preading' = [preading EXCEPT ![t] = d] /\ plast' = plast
         ELSE ReadEnds(t, got, want)
      /\ ptask' = ptask /\ pfds' = pfds /\ synth' = synth
  BY ZenonT(30), <1>2, <1>3 DEF ReadKernel, Underway
<1>6. x.real = x.asked /\ x.pos \in 0 .. SynthText /\ x.asked \in {"null", "maps", "plain"}
  BY ZenonT(30), <1>3, <1>4 DEF EntryFits
<1>0. SynthText \in Nat /\ x.pos \in Nat /\ x.pos <= SynthText
  <2>1. SynthText \in Nat
    BY ProcAssumption
  <2>2. x.pos \in 0 .. SynthText
    BY ZenonT(30), <1>6
  <2> HIDE DEF x
  <2> QED
    BY <2>1, <2>2
<1> HIDE DEF n
<1>7. /\ x.asked = "null" => /\ got = <<"end", 0>>
                            /\ want = IF x.pos < SynthText THEN <<"text", x.pos + 1>> ELSE <<"end", 0>>
      /\ x.asked = "maps" => got = <<"unfiltered", 0>> /\ want = <<"filtered", 0>>
      /\ x.asked = "plain" => got = <<"data", 0>> /\ want = <<"data", 0>>
  <2>1. CASE x.asked = "null"
    <3>1. got = <<"end", 0>>
      BY <1>6, <2>1 DEF KernelGives
    <3>2. CASE x.pos < SynthText
      BY <1>0, <2>1, <3>1, <3>2 DEF Wanted
    <3>3. CASE ~(x.pos < SynthText)
      BY <1>0, <2>1, <3>1, <3>3 DEF Wanted
    <3> QED
      BY <3>2, <3>3
  <2>2. CASE x.asked = "maps"
    BY <1>6, <2>2 DEF KernelGives, Wanted
  <2>3. CASE x.asked = "plain"
    BY <1>6, <2>3 DEF KernelGives, Wanted
  <2> QED
    BY <1>6, <2>1, <2>2, <2>3
<1> HIDE DEF got, want, x
<1>8. /\ got \in {"text", "end", "filtered", "unfiltered", "data"} \X Nat
      /\ want \in {"text", "end", "filtered", "unfiltered", "data"} \X Nat
  <2>1. CASE x.asked = "null"
    BY <1>7, <1>0, <2>1
  <2>2. CASE x.asked \in {"maps", "plain"}
    BY <1>7, <2>2
  <2> QED
    BY <1>6, <2>1, <2>2
<1>9. /\ d \in ReadType /\ d.fd = f /\ d.how = c.how /\ d.step = "exit" /\ d.void = c.void
      /\ d.got = got /\ d.want = want
  BY ZenonT(30), <1>1, <1>8 DEF ReadType
<1>10. /\ y \in FileType /\ y.asked = x.asked /\ y.real = x.real /\ y.reader = x.reader
       /\ y.pos \in 0 .. SynthText /\ y.pos = IF x.pos < SynthText THEN x.pos + 1 ELSE x.pos
  <2>2. CASE x.pos = SynthText
    BY <1>4, <1>6, <1>0, <2>2
  <2>3. CASE x.pos # SynthText
    <3>1. y = [x EXCEPT !.pos = @ + 1]
      BY <2>3
    <3>2. y \in FileType /\ y.pos = x.pos + 1
      BY SMTT(30), <1>4, <1>0, <3>1 DEF FileType
    <3>3. y.asked = x.asked /\ y.real = x.real /\ y.reader = x.reader
      BY <1>4, <3>1 DEF FileType
    <3> HIDE DEF y
    <3>4. x.pos + 1 \in 0 .. SynthText /\ x.pos < SynthText
      BY <1>0, <2>3
    <3> QED
      BY <3>2, <3>3, <3>4
  <2> QED
    BY <2>2, <2>3
<1>11. pfile' \in [PFile -> FileType] /\ pfile'[n] = y /\ \A m \in PFile : m # n => pfile'[m] = pfile[m]
  <2>1. pfile \in [PFile -> FileType]
    BY ReadTyped
  <2>2. pfile' = [pfile EXCEPT ![n] = y]
    BY ZenonT(30), <1>4, <1>5, <2>1 DEF x
  <2> HIDE DEF y
  <2> QED
    BY <1>4, <1>10, <2>1, <2>2
<1> DEFINE b == IF c.exit THEN d ELSE NotReading
<1>12. preading' = [preading EXCEPT ![t] = b] /\ (c.exit <=> x.asked # "plain")
  BY <1>1, <1>3, <1>5 DEF ReadEnds, Underway
<1> HIDE DEF y, d
<1>13. plast' = <<>>
  BY <1>5, <1>7, <1>12 DEF ReadEnds, ReadInv
<1>14. /\ preading' \in [PTask -> {NotReading} \cup ReadType] /\ preading'[t] = b
       /\ \A v \in PTask : v # t => preading'[v] = preading[v]
  BY <1>9, <1>12, ReadTyped
<1>15. /\ Active' = Active /\ PLive' = PLive /\ TaskTypes' /\ ptask'[PFirst].state = "live"
       /\ \A u \in PTask : ptask'[u].state # "none" => Leader(u)' = u
  BY <1>5, SameTasks
<1>16. ReadTypes'
  BY <1>5, <1>11, <1>14, <1>15, ReadTyped DEF ReadTypes
<1>17. x.reader = <<t, f>>
  BY <1>3 DEF Underway
<1> HIDE DEF b, c, f, n, x, e
<1>18. EntryFits(<<t, f>>, n, y, e, b)
  <2>1. CASE x.asked = "null"
    <3>1. b = d /\ Answering(b, f) /\ ~Answering(c, f)
      BY SMTT(30), <1>1, <1>9, <1>12, <2>1 DEF b, Answering, NotReading, ReadType
    <3>2. e.kind = "synth" /\ x.pos = e.off
      BY <1>3, <1>4, <1>17, <2>1, <3>1 DEF EntryFits
    <3> QED
      BY <1>4, <1>6, <1>10, <2>1, <3>1, <3>2, <1>0 DEF EntryFits
  <2>2. CASE x.asked # "null"
    BY <1>3, <1>10, <2>2 DEF EntryFits
  <2> QED
    BY <2>1, <2>2
<1>19. ASSUME NEW v \in Active, NEW h \in PFd
       PROVE  Descriptor(v, h)'
  <2>1. v \in PTask /\ Descriptor(v, h)
    BY DescriptorTyped
  <2>2. CASE v = t /\ h = f
    BY <1>5, <1>11, <1>14, <1>18, <2>2 DEF Descriptor, n, e
  <2>3. CASE ~(v = t /\ h = f) /\ pfds[v][h] = n
    <3>1. EntryFits(<<v, h>>, n, x, synth[v][h], preading[v])
      BY <2>1, <2>3 DEF Descriptor, x
    <3>2. y.reader # <<v, h>>
      BY <1>10, <1>17, <2>3
    <3>3. EntryFits(<<v, h>>, n, y, synth[v][h], preading'[v])
      BY SMTT(30), <1>10, <3>1, <3>2, EntryFitsStill
    <3> QED
      BY <1>5, <1>11, <2>3, <3>3 DEF Descriptor
  <2>4. CASE ~(v = t /\ h = f) /\ pfds[v][h] # n
    <3> DEFINE m == pfds[v][h]
    <3>1. m \in PFile \cup {0} /\ (m # 0 => pfile'[m] = pfile[m])
      BY SMTT(30), <1>11, <2>1, <2>4, ReadTyped
    <3>2. v = t => ~Answering(c, h) /\ ~Answering(b, h)
      BY <1>1, <1>9, <2>4 DEF b, Answering, f
    <3>3. Answering(preading'[v], h) <=> Answering(preading[v], h)
      BY <1>14, <2>1, <3>2 DEF c
    <3>4. EntryFits(<<v, h>>, m, pfile[m], synth[v][h], preading[v])
      BY <2>1 DEF Descriptor
    <3>5. m # 0 => pfile[m].pos \in 0 .. SynthText
      BY <3>4 DEF EntryFits
    <3> HIDE DEF m
    <3>6. EntryFits(<<v, h>>, m, pfile[m], synth[v][h], preading'[v])
      BY <3>3, <3>4, <3>5, EntryFitsStill
    <3> QED
      BY ZenonT(30), <1>5, <3>1, <3>6 DEF Descriptor, EntryFits, m
  <2> QED
    BY <2>2, <2>3, <2>4
<1>20. ASSUME NEW v \in PTask
       PROVE  Reading(v)'
  <2>1. Reading(v) /\ (preading[v] # NotReading => preading[v].fd \in PFd)
    BY ReaderTyped
  <2>2. CASE v # t
    <3>1. preading[v] # NotReading => pfds[v][preading[v].fd] # n /\ pfds[v][preading[v].fd] \in PFile
      <4> SUFFICES ASSUME preading[v] # NotReading
                   PROVE  pfds[v][preading[v].fd] # n /\ pfds[v][preading[v].fd] \in PFile
        OBVIOUS
      <4>1. pfds[v][preading[v].fd] # 0 /\ pfile[pfds[v][preading[v].fd]].reader = <<v, preading[v].fd>>
        BY ZenonT(30), <2>1 DEF Reading, Underway
      <4>2. pfds[v][preading[v].fd] \in PFile
        <5>1. pfds[v] \in [PFd -> PFile \cup {0}]
          BY ReadTyped
        <5> QED
          BY ZenonT(30), <2>1, <4>1, <5>1
      <4>3. ASSUME pfds[v][preading[v].fd] = n
            PROVE  FALSE
        <5>1. <<v, preading[v].fd>> = <<t, f>>
          BY <1>17, <4>1, <4>3 DEF x
        <5> QED
          BY <2>2, <5>1
      <4> QED
        BY <4>2, <4>3
    <3> QED
      BY <1>5, <1>11, <1>14, <1>15, <2>1, <2>2, <3>1, ReadingStill
  <2>3. CASE v = t /\ c.exit
    <3>1. b = d
      BY <2>3 DEF b
    <3>2. Underway(<<t, f>>, n, y, e, d)
      <4>1. x.asked = "null" => x.pos = e.off
        BY <1>1, <1>3, <1>4, <1>17 DEF EntryFits, Answering
      <4>2. c.how = "read" /\ ~c.void /\ x.asked # "plain"
        BY <1>3, <1>12, <2>3 DEF Underway
      <4> QED
        BY <1>4, <1>6, <1>7, <1>9, <1>10, <1>17, <4>1, <4>2 DEF Underway
    <3> QED
      BY <1>1, <1>5, <1>9, <1>11, <1>14, <1>15, <2>3, <3>1, <3>2 DEF Reading, n, e
  <2>4. CASE v = t /\ ~c.exit
    BY <1>14, <2>4 DEF Reading, b
  <2> QED
    BY <2>2, <2>3, <2>4
<1>21. \A m \in PFile : pfile'[m].reader[1] \in Active'
  <2>1. x.reader[1] \in Active
    BY <1>4 DEF ReadInv, x
  <2> QED
    BY <1>10, <1>11, <1>15, <2>1 DEF ReadInv
<1>22. \A v \in Active : synth'[v][BadFd] = NoEntry
  BY <1>5 DEF ReadInv
<1> QED
  BY <1>13, <1>15, <1>16, <1>19, <1>20, <1>21, <1>22 DEF ReadInv

\* The exit of read(2): the guest gets what it should, and the entry's offset follows the
\* file's.
LEMMA ReadExitKeeps ==
    ASSUME ReadInv, NEW t \in PTask, ReadExit(t)
    PROVE  ReadInv'
<1> DEFINE c == preading[t]
           f == c.fd
           n == pfds[t][f]
           x == pfile[n]
           e == synth[t][f]
<1>1. t \in PLive /\ c # NotReading /\ c.step = "exit" /\ c \in ReadType /\ f \in PFd
  BY ZenonT(30), ReadTyped DEF ReadExit, ReadType
<1>2. t \in Active /\ Leader(t) = t /\ FileOf(t, f) = n
  BY <1>1, ProcAssumption, ReadTyped DEF PLive, Active, InState, FileOf
<1>3. Underway(<<t, f>>, n, x, e, c) /\ EntryFits(<<t, f>>, n, x, e, c)
  BY <1>1, <1>2 DEF ReadInv, Reading, Descriptor
<1>4. n \in PFile /\ n # 0 /\ x \in FileType /\ e \in EntryType
  <2>1. pfds[t] \in [PFd -> PFile \cup {0}] /\ synth[t] \in TableType /\ pfile \in [PFile -> FileType]
    BY ReadTyped
  <2>2. n \in PFile \cup {0} /\ e \in EntryType
    BY <1>1, <2>1 DEF TableType
  <2>3. n # 0
    BY ZenonT(30), <1>3 DEF Underway
  <2> QED
    BY <2>1, <2>2, <2>3
<1>5. RealOf(t, f) = x.asked /\ x.reader = <<t, f>>
  BY ZenonT(30), <1>2, <1>3, <1>4 DEF RealOf, EntryFits, Underway
<1> DEFINE d == IF x.asked = "null" /\ e.off < SynthText THEN [e EXCEPT !.off = @ + 1] ELSE e
<1>6. /\ synth' = [synth EXCEPT ![t][f] = d] /\ ReadEnds(t, c.want, c.want)
      /\ ptask' = ptask /\ pfile' = pfile /\ pfds' = pfds
  <2>1. CASE x.asked = "null"
    <3>1. e.kind = "synth" /\ e # NoEntry
      <4> HIDE DEF e, x, n, c, f
      <4> QED
        BY <1>3, <1>4, <2>1 DEF EntryFits, NoEntry
    <3>2. c.want = IF e.off < SynthText THEN <<"text", e.off + 1>> ELSE <<"end", 0>>
      BY ZenonT(30), <1>1, <1>3, <2>1 DEF Underway
    <3> QED
      BY ZenonT(30), <1>5, <2>1, <3>1, <3>2 DEF ReadExit
  <2>2. CASE x.asked = "maps"
    <3>1. e = NoEntry \/ (e # NoEntry /\ e.kind = "maps")
      BY ZenonT(30), <1>3, <1>4, <2>2 DEF EntryFits
    <3>2. c.got = <<"unfiltered", 0>> /\ c.want = <<"filtered", 0>>
      BY ZenonT(30), <1>1, <1>3, <2>2 DEF Underway
    <3>3. hpc_handle_maps_read_exit(c.got) = c.want
      BY <3>2 DEF hpc_handle_maps_read_exit
    <3>4. d = e
      BY <2>2
    <3>5. CASE e = NoEntry
      <4>1. e.kind = "none"
        BY <3>5 DEF NoEntry
      <4> QED
        BY ZenonT(30), <1>5, <2>2, <3>3, <3>4, <3>5, <4>1 DEF ReadExit
    <3>6. CASE e # NoEntry /\ e.kind = "maps"
      BY ZenonT(30), <1>5, <2>2, <3>3, <3>4, <3>6 DEF ReadExit
    <3> QED
      BY ZenonT(30), <3>1, <3>5, <3>6
  <2> QED
    BY ZenonT(30), <1>1, <1>3, <2>1, <2>2 DEF Underway
<1>7. d \in EntryType /\ d.kind = e.kind
  <2> HIDE DEF e, x
  <2> QED
    BY SMTT(30), <1>4 DEF EntryType
<1>8. /\ synth' \in [PTask -> TableType] /\ synth'[t][f] = d
      /\ \A v \in PTask, h \in PFd \cup {BadFd} : ~(v = t /\ h = f) => synth'[v][h] = synth[v][h]
  <2> HIDE DEF d
  <2> QED
    BY ZenonT(30), <1>1, <1>6, <1>7, ReadTyped DEF TableType
<1>9. /\ preading' \in [PTask -> {NotReading} \cup ReadType] /\ preading'[t] = NotReading
      /\ \A v \in PTask : v # t => preading'[v] = preading[v]
  BY <1>6, ReadTyped DEF ReadEnds
<1>10. plast' = <<>>
  BY <1>6 DEF ReadEnds
<1>11. /\ Active' = Active /\ PLive' = PLive /\ TaskTypes' /\ ptask'[PFirst].state = "live"
       /\ \A u \in PTask : ptask'[u].state # "none" => Leader(u)' = u
  BY <1>6, SameTasks
<1>12. ReadTypes'
  BY ZenonT(30), <1>6, <1>8, <1>9, <1>11, ReadTyped DEF ReadTypes
<1>13. EntryFits(<<t, f>>, n, x, d, NotReading)
  <2>1. CASE x.asked = "null"
    <3>1. e.kind = "synth" /\ x.pos = IF e.off < SynthText THEN e.off + 1 ELSE e.off
      BY ZenonT(30), <1>1, <1>3, <1>4, <1>5, <2>1 DEF EntryFits, Answering
    <3>2. d.off = x.pos
      BY <1>4, <2>1, <3>1 DEF EntryType
    <3> HIDE DEF d
    <3> QED
      BY ZenonT(30), <1>3, <1>4, <1>7, <2>1, <3>1, <3>2 DEF EntryFits, Answering
  <2>2. CASE x.asked # "null"
    BY ZenonT(30), <1>3, <2>2 DEF EntryFits
  <2> QED
    BY ZenonT(30), <2>1, <2>2
<1> HIDE DEF d
<1>14. ASSUME NEW v \in Active, NEW h \in PFd
       PROVE  Descriptor(v, h)'
  <2>1. v \in PTask /\ Descriptor(v, h)
    BY DescriptorTyped
  <2>2. CASE v = t /\ h = f
    BY <1>6, <1>8, <1>9, <1>13, <2>2 DEF Descriptor
  <2>3. CASE v # t
    BY <1>6, <1>8, <1>9, <2>1, <2>3 DEF Descriptor
  <2>4. CASE v = t /\ h # f
    <3> DEFINE m == pfds[t][h]
    <3>1. EntryFits(<<t, h>>, m, pfile[m], synth[t][h], c)
      BY <2>1, <2>4 DEF Descriptor
    <3>2. m # 0 => pfile[m].pos \in 0 .. SynthText
      BY <3>1 DEF EntryFits
    <3>3. ~Answering(c, h) /\ ~Answering(NotReading, h)
      BY <2>4 DEF Answering
    <3> HIDE DEF m, c
    <3>4. EntryFits(<<t, h>>, m, pfile[m], synth[t][h], NotReading)
      BY <3>1, <3>2, <3>3, EntryFitsStill
    <3> QED
      BY <1>6, <1>8, <1>9, <2>4, <3>4 DEF Descriptor, m
  <2> QED
    BY <2>2, <2>3, <2>4
<1>15. ASSUME NEW v \in PTask
       PROVE  Reading(v)'
  <2>1. Reading(v) /\ (preading[v] # NotReading => preading[v].fd \in PFd)
    BY ReaderTyped
  <2>2. CASE v = t
    BY <1>9, <2>2 DEF Reading
  <2>3. CASE v # t
    BY <1>6, <1>8, <1>9, <1>11, <2>1, <2>3 DEF Reading
  <2> QED
    BY <2>2, <2>3
<1>16. \A v \in Active : synth'[v][BadFd] = NoEntry
  <2>1. BadFd # f
    BY <1>1, ProcAssumption
  <2> QED
    BY <1>8, <2>1 DEF Active, InState, ReadInv
<1> QED
  BY <1>6, <1>10, <1>11, <1>12, <1>14, <1>15, <1>16 DEF ReadInv

\* fork(2): the child has its parent's descriptors and table, and one of the two goes on
\* reading.
LEMMA ForkKeeps ==
    ASSUME Tame, ReadInv, NEW t \in PTask, NEW u \in PTask, NEW thread \in BOOLEAN,
           KernelForks(t, u, thread)
    PROVE  ReadInv'
<1>1. Calling(t) /\ ptask[u].state = "none" /\ ~thread
  BY DEF KernelForks, InState, Tame, Dares
<1>2. /\ t \in PLive /\ t \in Active /\ Leader(t) = t /\ preading[t] = NotReading
      /\ synth[t] \in TableType /\ pfds[t] \in [PFd -> PFile \cup {0}]
      /\ \A f \in PFd : FileOf(t, f) = pfds[t][f] /\ Descriptor(t, f)
      /\ synth[t][BadFd] = NoEntry
  BY <1>1, CallerFacts
<1>3. PICK heir \in BOOLEAN :
         pfile' = [n \in PFile |-> IF heir /\ pfile[n].reader[1] = t
                                   THEN [pfile[n] EXCEPT !.reader[1] = u] ELSE pfile[n]]
  BY SMTT(30), <1>1, <1>2 DEF KernelForks
<1>4. /\ ptask' = [ptask EXCEPT ![u] = [state |-> "new", tgid |-> u, pgid |-> ptask[t].pgid]]
      /\ pfds' = [pfds EXCEPT ![u] = pfds[t]] /\ synth' = [synth EXCEPT ![u] = synth[t]]
      /\ preading' = preading /\ plast' = plast
  BY <1>1, <1>2 DEF KernelForks
<1>5. u # t /\ u \notin Active /\ u \notin PLive
  BY <1>1, <1>2 DEF Active, PLive, InState
<1>6. preading[u] = NotReading
  BY ZenonT(30), <1>5 DEF ReadInv, Reading
<1>7. Active' = Active \cup {u} /\ PLive' = PLive
  BY <1>1, <1>4, ReadTyped DEF Active, PLive, InState, TaskTypes
<1>8. /\ TaskTypes' /\ ptask'[PFirst].state = "live"
      /\ \A v \in PTask : ptask'[v].state # "none" => Leader(v)' = v
  BY SMTT(30), <1>1, <1>4, ReadTyped DEF TaskTypes, TaskStates, Leader
<1>9. ASSUME NEW n \in PFile
      PROVE  /\ pfile'[n] \in FileType /\ pfile'[n].asked = pfile[n].asked
             /\ pfile'[n].real = pfile[n].real /\ pfile'[n].pos = pfile[n].pos
             /\ pfile'[n].reader = IF heir /\ pfile[n].reader[1] = t THEN <<u, pfile[n].reader[2]>>
                                   ELSE pfile[n].reader
  <2>1. pfile[n] \in FileType /\ pfile[n].reader \in PTask \X (PFd \cup {BadFd})
    BY ReadTyped DEF FileType
  <2>2. CASE heir /\ pfile[n].reader[1] = t
    <3>1. pfile'[n] = [pfile[n] EXCEPT !.reader = <<u, pfile[n].reader[2]>>]
      BY SMTT(30), <1>3, <2>1, <2>2 DEF FileType
    <3> QED
      BY SMTT(30), <2>1, <2>2, <3>1 DEF FileType
  <2>3. CASE ~(heir /\ pfile[n].reader[1] = t)
    BY <1>3, <2>1, <2>3
  <2> QED
    BY <2>2, <2>3
<1>10. pfile' \in [PFile -> FileType]
  BY ZenonT(30), <1>3, <1>9
<1>11. /\ pfds' \in [PTask -> [PFd -> PFile \cup {0}]] /\ synth' \in [PTask -> TableType]
       /\ pfds'[u] = pfds[t] /\ synth'[u] = synth[t]
       /\ \A v \in PTask : v # u => pfds'[v] = pfds[v] /\ synth'[v] = synth[v]
  BY <1>4, ReadTyped
<1>12. ReadTypes'
  BY <1>4, <1>8, <1>10, <1>11, ReadTyped DEF ReadTypes
<1>13. \A n \in PFile : pfile[n].reader[1] # u
  BY <1>5 DEF ReadInv
<1>14. ASSUME NEW v \in Active, NEW g \in PFd
       PROVE  Descriptor(v, g)'
  <2> DEFINE n == pfds[v][g]
  <2>1. v \in PTask /\ Descriptor(v, g) /\ v # u /\ n \in PFile \cup {0}
    BY <1>5, DescriptorTyped
  <2>2. EntryFits(<<v, g>>, n, pfile[n], synth[v][g], preading[v])
    BY <2>1 DEF Descriptor
  <2>3. n # 0 => /\ pfile'[n].asked = pfile[n].asked /\ pfile'[n].real = pfile[n].real
                 /\ pfile'[n].pos = pfile[n].pos /\ pfile'[n].pos \in 0 .. SynthText
                 /\ pfile'[n].reader = <<v, g>> => pfile[n].reader = <<v, g>>
    <3> SUFFICES ASSUME n # 0
                 PROVE  /\ pfile'[n].asked = pfile[n].asked /\ pfile'[n].real = pfile[n].real
                        /\ pfile'[n].pos = pfile[n].pos /\ pfile'[n].pos \in 0 .. SynthText
                        /\ pfile'[n].reader = <<v, g>> => pfile[n].reader = <<v, g>>
      OBVIOUS
    <3>1. n \in PFile /\ pfile[n].pos \in 0 .. SynthText
      BY <2>1, <2>2 DEF EntryFits
    <3>2. pfile'[n].reader = <<v, g>> => pfile[n].reader = <<v, g>>
      <4> HIDE DEF n
      <4>1. CASE heir /\ pfile[n].reader[1] = t
        <5>1. pfile'[n].reader = <<u, pfile[n].reader[2]>>
          BY ZenonT(30), <1>9, <3>1, <4>1
        <5> QED
          BY <2>1, <5>1
      <4>2. CASE ~(heir /\ pfile[n].reader[1] = t)
        BY ZenonT(30), <1>9, <3>1, <4>2
      <4> QED
        BY <4>1, <4>2
    <3> QED
      BY ZenonT(30), <1>9, <3>1, <3>2
  <2> HIDE DEF n
  <2>4. EntryFits(<<v, g>>, n, pfile'[n], synth[v][g], preading[v])
    BY <2>2, <2>3, EntryFitsStill
  <2> QED
    BY <1>4, <1>11, <2>1, <2>4 DEF Descriptor, n
<1>15. ASSUME NEW g \in PFd
       PROVE  Descriptor(u, g)'
  <2> DEFINE n == pfds[t][g]
             e == synth[t][g]
  <2>1. EntryFits(<<t, g>>, n, pfile[n], e, NotReading) /\ n \in PFile \cup {0}
    BY <1>2 DEF Descriptor
  <2>2. ~Answering(NotReading, g)
    BY DEF Answering
  <2>3. n # 0 => /\ pfile'[n].asked = pfile[n].asked /\ pfile'[n].real = pfile[n].real
                 /\ pfile'[n].pos = pfile[n].pos
                 /\ pfile'[n].reader = <<u, g>> => pfile[n].reader = <<t, g>>
    <3> SUFFICES ASSUME n # 0
                 PROVE  /\ pfile'[n].asked = pfile[n].asked /\ pfile'[n].real = pfile[n].real
                        /\ pfile'[n].pos = pfile[n].pos
                        /\ pfile'[n].reader = <<u, g>> => pfile[n].reader = <<t, g>>
      OBVIOUS
    <3>1. n \in PFile /\ pfile[n].reader \in PTask \X (PFd \cup {BadFd})
      BY <2>1, ReadTyped DEF FileType
    <3>2. pfile'[n].reader = <<u, g>> => pfile[n].reader = <<t, g>>
      <4> HIDE DEF n
      <4>1. CASE heir /\ pfile[n].reader[1] = t
        <5>1. pfile'[n].reader = <<u, pfile[n].reader[2]>>
          BY ZenonT(30), <1>9, <3>1, <4>1
        <5>2. pfile[n].reader = <<t, pfile[n].reader[2]>>
          BY <3>1, <4>1
        <5> QED
          BY <5>1, <5>2
      <4>2. CASE ~(heir /\ pfile[n].reader[1] = t)
        <5>1. pfile'[n].reader = pfile[n].reader /\ pfile[n].reader[1] # u
          BY ZenonT(30), <1>9, <1>13, <3>1, <4>2
        <5>2. <<u, g>>[1] = u
          OBVIOUS
        <5> QED
          BY <5>1, <5>2
      <4> QED
        BY <4>1, <4>2
    <3> QED
      BY ZenonT(30), <1>9, <3>1, <3>2
  <2> HIDE DEF n, e
  <2>4. EntryFits(<<u, g>>, n, pfile'[n], e, NotReading)
    BY <2>1, <2>2, <2>3 DEF EntryFits
  <2> QED
    BY <1>4, <1>6, <1>11, <2>4 DEF Descriptor, n, e
<1>16. \A v \in Active' : synth'[v][BadFd] = NoEntry
  BY <1>2, <1>5, <1>7, <1>11 DEF Active, InState, ReadInv
<1>17. ASSUME NEW v \in PTask
       PROVE  Reading(v)'
  <2>1. Reading(v) /\ (preading[v] # NotReading => preading[v].fd \in PFd)
    BY ReaderTyped
  <2>2. CASE preading[v] = NotReading
    BY <1>4, <2>2 DEF Reading
  <2>3. CASE preading[v] # NotReading
    <3> DEFINE f == preading[v].fd
               n == pfds[v][f]
    <3>1. v # t /\ v # u /\ v \in PLive /\ Underway(<<v, f>>, n, pfile[n], synth[v][f], preading[v])
      BY <1>2, <1>6, <2>1, <2>3 DEF Reading
    <3>2. pfile[n].reader = <<v, f>> /\ n # 0
      BY ZenonT(30), <3>1 DEF Underway
    <3>3. n \in PFile
      <4>1. pfds[v] \in [PFd -> PFile \cup {0}]
        BY ReadTyped
      <4> QED
        BY ZenonT(30), <2>1, <2>3, <3>2, <4>1
    <3>4. pfile'[n] = pfile[n]
      <4> HIDE DEF n, f
      <4>1. pfile[n].reader[1] = v
        BY <3>2
      <4> QED
        BY <1>3, <3>1, <3>3, <4>1
    <3> HIDE DEF n, f
    <3> QED
      BY <1>4, <1>7, <1>11, <3>1, <3>4 DEF Reading, n, f
  <2> QED
    BY <2>2, <2>3
<1>18. ASSUME NEW n \in PFile
       PROVE  pfile'[n].reader[1] \in Active'
  <2>1. pfile[n].reader[1] \in Active
    BY DEF ReadInv
  <2>2. CASE heir /\ pfile[n].reader[1] = t
    <3>1. pfile'[n].reader = <<u, pfile[n].reader[2]>>
      BY ZenonT(30), <1>9, <2>2
    <3> QED
      BY <1>7, <3>1
  <2>3. CASE ~(heir /\ pfile[n].reader[1] = t)
    BY ZenonT(30), <1>7, <1>9, <2>1, <2>3
  <2> QED
    BY <2>2, <2>3
<1> QED
  BY <1>4, <1>7, <1>12, <1>14, <1>15, <1>16, <1>17, <1>18 DEF ReadInv

\* exit(2): the descriptors are gone, and the files others have open are theirs to read.
LEMMA ExitKeeps ==
    ASSUME ReadInv, NEW t \in PTask, TaskExits(t)
    PROVE  ReadInv'
<1>1. Calling(t) /\ t # PFirst
  BY DEF TaskExits
<1>2. t \in PLive /\ t \in Active /\ Leader(t) = t /\ preading[t] = NotReading
  BY <1>1, CallerFacts
<1>3. /\ ptask' = [ptask EXCEPT ![t].state = "dead"]
      /\ pfds' = [pfds EXCEPT ![t] = [f \in PFd |-> 0]]
      /\ pfile' = [n \in PFile |-> IF n \notin Referred(pfds') THEN NoFile
                                   ELSE IF pfile[n].reader[1] = t
                                   THEN [pfile[n] EXCEPT !.reader = NoFile.reader] ELSE pfile[n]]
      /\ synth' = synth /\ preading' = preading /\ plast' = plast
  BY <1>2 DEF TaskExits
<1>4. Active' = Active \ {t} /\ PLive' = PLive \ {t}
  BY <1>3, ReadTyped DEF Active, PLive, InState, TaskTypes
<1>5. /\ TaskTypes' /\ ptask'[PFirst].state = "live"
      /\ \A v \in PTask : ptask'[v].state # "none" => Leader(v)' = v
  <2>1. TaskTypes'
    <3>1. TaskTypes
      BY ReadTyped
    <3> QED
      BY SMTT(30), <1>3, <3>1 DEF TaskTypes, TaskStates
  <2>2. /\ ptask'[t].tgid = ptask[t].tgid
        /\ \A v \in PTask : v # t => ptask'[v] = ptask[v]
    BY SMTT(30), <1>3, ReadTyped DEF TaskTypes
  <2>3. ptask'[PFirst] = ptask[PFirst]
    BY <1>1, <2>2, ProcAssumption
  <2> QED
    BY <1>2, <2>1, <2>2, <2>3, ReadTyped DEF Leader
<1>6. NoFile \in FileType /\ NoFile.reader = <<PFirst, BadFd>>
  BY ProcAssumption DEF NoFile, FileType
<1> DEFINE Left(n) == [pfile[n] EXCEPT !.reader = NoFile.reader]
<1>7. ASSUME NEW n \in PFile
      PROVE  /\ Left(n) \in FileType /\ Left(n).asked = pfile[n].asked /\ Left(n).real = pfile[n].real
             /\ Left(n).pos = pfile[n].pos /\ Left(n).reader = <<PFirst, BadFd>>
  <2>1. pfile[n] \in FileType /\ <<PFirst, BadFd>> \in PTask \X (PFd \cup {BadFd})
    BY ProcAssumption, ReadTyped
  <2> QED
    BY <1>6, <2>1 DEF FileType
<1>8. \A n \in PFile : pfile'[n] = IF n \notin Referred(pfds') THEN NoFile
                                   ELSE IF pfile[n].reader[1] = t THEN Left(n) ELSE pfile[n]
  BY <1>3
<1> HIDE DEF Left
<1>9. pfile' \in [PFile -> FileType]
  <2>1. \A n \in PFile : pfile'[n] \in FileType
    BY <1>6, <1>7, <1>8, ReadTyped
  <2> QED
    BY ZenonT(30), <1>3, <2>1
<1>10. /\ pfds' \in [PTask -> [PFd -> PFile \cup {0}]]
       /\ \A v \in PTask : v # t => pfds'[v] = pfds[v]
  BY <1>3, ReadTyped
<1>11. ReadTypes'
  BY ZenonT(30), <1>3, <1>5, <1>9, <1>10, ReadTyped DEF ReadTypes
<1>12. \A v \in PTask, g \in PFd : pfds'[v][g] \in Referred(pfds')
  BY SMTT(30), <1>10 DEF Referred, Range
<1>13. ASSUME NEW v \in PTask, v # t, NEW g \in PFd, pfds[v][g] # 0
       PROVE  /\ pfds[v][g] \in PFile
              /\ pfile'[pfds[v][g]] = IF pfile[pfds[v][g]].reader[1] = t THEN Left(pfds[v][g])
                                      ELSE pfile[pfds[v][g]]
  <2>1. pfds[v][g] \in PFile /\ pfds'[v] = pfds[v]
    BY SMTT(30), <1>10, <1>13, ReadTyped
  <2> QED
    BY <1>8, <1>12, <1>13, <2>1
<1>14. ASSUME NEW v \in Active', NEW g \in PFd
       PROVE  Descriptor(v, g)'
  <2> DEFINE n == pfds[v][g]
  <2>1. v \in PTask /\ Descriptor(v, g) /\ v # t /\ pfds'[v] = pfds[v]
    BY <1>4, <1>10 DEF Active, InState, ReadInv
  <2>2. EntryFits(<<v, g>>, n, pfile[n], synth[v][g], preading[v])
    BY <2>1 DEF Descriptor
  <2>3. g # BadFd
    BY ProcAssumption
  <2>4. n # 0 => /\ pfile'[n].asked = pfile[n].asked /\ pfile'[n].real = pfile[n].real
                 /\ pfile'[n].pos = pfile[n].pos /\ pfile'[n].pos \in 0 .. SynthText
                 /\ pfile'[n].reader = <<v, g>> => pfile[n].reader = <<v, g>>
    <3> SUFFICES ASSUME n # 0
                 PROVE  /\ pfile'[n].asked = pfile[n].asked /\ pfile'[n].real = pfile[n].real
                        /\ pfile'[n].pos = pfile[n].pos /\ pfile'[n].pos \in 0 .. SynthText
                        /\ pfile'[n].reader = <<v, g>> => pfile[n].reader = <<v, g>>
      OBVIOUS
    <3>1. /\ n \in PFile /\ pfile[n].pos \in 0 .. SynthText
          /\ pfile'[n] = IF pfile[n].reader[1] = t THEN Left(n) ELSE pfile[n]
      BY ZenonT(30), <1>13, <2>1, <2>2 DEF EntryFits
    <3> HIDE DEF n
    <3>2. CASE pfile[n].reader[1] = t
      BY <1>7, <2>3, <3>1, <3>2
    <3>3. CASE pfile[n].reader[1] # t
      BY <3>1, <3>3
    <3> QED
      BY <3>2, <3>3
  <2> HIDE DEF n
  <2>5. EntryFits(<<v, g>>, n, pfile'[n], synth[v][g], preading[v])
    BY <2>2, <2>4, EntryFitsStill
  <2> QED
    BY <1>3, <2>1, <2>5 DEF Descriptor, n
<1>15. \A v \in Active' : synth'[v][BadFd] = NoEntry
  BY <1>3, <1>4 DEF ReadInv
<1>16. ASSUME NEW v \in PTask
       PROVE  Reading(v)'
  <2>1. Reading(v) /\ (preading[v] # NotReading => preading[v].fd \in PFd)
    BY ReaderTyped
  <2>2. CASE preading[v] = NotReading
    BY <1>3, <2>2 DEF Reading
  <2>3. CASE preading[v] # NotReading
    <3> DEFINE f == preading[v].fd
               n == pfds[v][f]
    <3>1. v # t /\ v \in PLive /\ Underway(<<v, f>>, n, pfile[n], synth[v][f], preading[v])
      BY <1>2, <2>1, <2>3 DEF Reading
    <3>2. pfile[n].reader = <<v, f>> /\ n # 0
      BY ZenonT(30), <3>1 DEF Underway
    <3>3. pfile'[n] = pfile[n]
      <4>1. pfile[n].reader[1] = v
        <5> HIDE DEF n, f
        <5> QED
          BY <3>2
      <4> QED
        BY ZenonT(30), <1>13, <2>1, <2>3, <3>1, <3>2, <4>1
    <3>4. pfds'[v] = pfds[v]
      BY <1>10, <3>1
    <3> HIDE DEF n, f
    <3> QED
      BY ZenonT(30), <1>3, <1>4, <3>1, <3>3, <3>4 DEF Reading, n, f
  <2> QED
    BY <2>2, <2>3
<1>17. \A n \in PFile : pfile'[n].reader[1] \in Active'
  <2>1. PFirst \in Active'
    BY <1>1, <1>4, ProcAssumption, ReadTyped DEF Active, InState
  <2> QED
    BY SMTT(30), <1>4, <1>6, <1>7, <1>8, <2>1 DEF ReadInv
<1> QED
  BY ZenonT(30), <1>3, <1>4, <1>11, <1>14, <1>15, <1>16, <1>17 DEF ReadInv

\* Tasks whose descriptors stay as they are.
LEMMA OtherTasksKeep ==
    ASSUME ReadInv, NEW t \in PTask, ChildRegistered(t) \/ TaskReaped(t) \/ Regroups(t)
    PROVE  ReadInv'
<1>1. TaskTypes /\ \A v \in PTask : ptask[v].state # "none" => Leader(v) = v
  BY ReadTyped
<1>2. /\ pfile' = pfile /\ pfds' = pfds /\ preading' = preading /\ plast' = plast
      /\ t \notin Active => synth' \in {synth, [synth EXCEPT ![t] = [f \in PFd \cup {BadFd} |-> NoEntry]]}
      /\ t \in Active => synth' = synth
  BY DEF ChildRegistered, TaskReaped, Regroups, Active, InState
<1>3. Active' = Active /\ PLive \subseteq PLive'
  <2>1. CASE ChildRegistered(t)
    BY <1>1, <2>1 DEF ChildRegistered, TaskTypes, Active, PLive, InState
  <2>2. CASE TaskReaped(t)
    BY <1>1, <2>2 DEF TaskReaped, NoTask, TaskTypes, Active, PLive, InState
  <2>3. CASE Regroups(t)
    BY SMTT(30), <1>1, <2>3 DEF Regroups, TaskTypes, Active, PLive, InState
  <2> QED
    BY <2>1, <2>2, <2>3
<1>4. /\ TaskTypes' /\ ptask'[PFirst].state = "live"
      /\ \A v \in PTask : ptask'[v].state # "none" => Leader(v)' = v
  <2>0. ptask[PFirst].state = "live" /\ PFirst \in PTask
    BY ProcAssumption, ReadTyped
  <2>1. CASE ChildRegistered(t)
    BY SMTT(30), <1>1, <2>0, <2>1 DEF ChildRegistered, TaskTypes, TaskStates, Leader, InState
  <2>2. CASE TaskReaped(t)
    BY <1>1, <2>0, <2>2, ProcAssumption DEF TaskReaped, NoTask, TaskTypes, TaskStates, Leader, InState
  <2>3. CASE Regroups(t)
    BY SMTT(30), <1>1, <2>0, <2>3 DEF Regroups, TaskTypes, TaskStates, Leader
  <2> QED
    BY <2>1, <2>2, <2>3
<1>5. \A v \in Active : v \in PTask /\ synth'[v] = synth[v]
  BY <1>2, ReadTyped DEF Active, InState
<1>6. synth' \in [PTask -> TableType]
  <2>1. [f \in PFd \cup {BadFd} |-> NoEntry] \in TableType
    BY DEF TableType, EntryType, NoEntry
  <2> QED
    BY <1>2, <2>1, ReadTyped
<1>7. ReadTypes'
  BY <1>2, <1>4, <1>6, ReadTyped DEF ReadTypes
<1>8. \A v \in Active : synth'[v][BadFd] = NoEntry /\ \A g \in PFd : Descriptor(v, g)'
  BY <1>2, <1>5 DEF ReadInv, Descriptor
<1>9. ASSUME NEW v \in PTask
      PROVE  Reading(v)'
  <2>1. Reading(v)
    BY DEF ReadInv
  <2>2. v \in PLive => v \in Active
    BY DEF PLive, Active, InState
  <2> QED
    BY <1>2, <1>3, <1>5, <2>1, <2>2 DEF Reading
<1> QED
  BY <1>2, <1>3, <1>7, <1>8, <1>9 DEF ReadInv

\* The steps of a kill(2) and of a listing have nothing to do with descriptors.
LEMMA RestKeeps ==
    ASSUME ReadInv, UNCHANGED <<ptask, pfile, pfds, synth, preading, plast>>
    PROVE  ReadInv'
<1>1. /\ Active' = Active /\ PLive' = PLive /\ TaskTypes' /\ ptask'[PFirst].state = "live"
      /\ \A u \in PTask : ptask'[u].state # "none" => Leader(u)' = u
  BY SameTasks
<1>2. ReadTypes'
  BY <1>1, ReadTyped DEF ReadTypes
<1> QED
  BY <1>1, <1>2 DEF ReadInv, Descriptor, Reading

LEMMA ReadNext ==
    ASSUME Tame, ReadInv, ProcNext
    PROVE  ReadInv'
<1>1. PICK t \in PTask :
         \/ \E p \in ProcPaths, again \in BOOLEAN : PathOpen(t, p, again)
         \/ UntrackedOpen(t)
         \/ \E f \in PFd : UntrackedClose(t, f) \/ PathClose(t, f)
         \/ \E f \in PFd, g \in PFd \cup {BadFd} : DupTo(t, f, g)
         \/ \E f \in PFd, how \in {"read", "pread", "readv"} : ReadEnter(t, f, how)
         \/ ReadKernel(t) \/ ReadExit(t)
         \/ \E u \in PTask, thread \in BOOLEAN : KernelForks(t, u, thread)
         \/ ChildRegistered(t) \/ TaskExits(t) \/ TaskReaped(t) \/ Regroups(t)
         \/ UNCHANGED <<ptask, pfile, pfds, synth, preading, plast>>
  BY ZenonT(30) DEF ProcNext, ProcStep, hpc_handle_kill_enter, KillOne, ListingStarts, hpc_handle_getdents_exit
<1>2. ~UntrackedOpen(t) /\ \A f \in PFd : ~UntrackedClose(t, f)
  BY DEF UntrackedOpen, UntrackedClose, Tame, Dares
<1>3. CASE \E p \in ProcPaths, again \in BOOLEAN : PathOpen(t, p, again)
  BY <1>3, OpenKeeps
<1>4. CASE \E f \in PFd : PathClose(t, f)
  BY <1>4, CloseKeeps
<1>5. CASE \E f \in PFd, g \in PFd \cup {BadFd} : DupTo(t, f, g)
  BY <1>5, DupKeeps
<1>6. CASE \E f \in PFd, how \in {"read", "pread", "readv"} : ReadEnter(t, f, how)
  BY <1>6, ReadEnterKeeps
<1>7. CASE ReadKernel(t) \/ ReadExit(t)
  BY <1>7, ReadKernelKeeps, ReadExitKeeps
<1>8. CASE \E u \in PTask, thread \in BOOLEAN : KernelForks(t, u, thread)
  BY <1>8, ForkKeeps
<1>9. CASE ChildRegistered(t) \/ TaskExits(t) \/ TaskReaped(t) \/ Regroups(t)
  BY <1>9, ExitKeeps, OtherTasksKeep
<1>10. CASE UNCHANGED <<ptask, pfile, pfds, synth, preading, plast>>
  BY <1>10, RestKeeps
<1> QED
  BY <1>1, <1>2, <1>3, <1>4, <1>5, <1>6, <1>7, <1>8, <1>9, <1>10

LEMMA InitRead == ProcInit => ReadInv
<1> SUFFICES ASSUME ProcInit PROVE ReadInv
  OBVIOUS
<1>1. /\ ptask = [t \in PTask |-> IF t = PFirst THEN [NoTask EXCEPT !.state = "live"] ELSE NoTask]
      /\ pfile = [n \in PFile |-> NoFile] /\ pfds = [t \in PTask |-> [f \in PFd |-> 0]]
      /\ synth = [t \in PTask |-> [f \in PFd \cup {BadFd} |-> NoEntry]]
      /\ preading = [t \in PTask |-> NotReading] /\ plast = <<>>
  BY DEF ProcInit
<1>2. /\ TaskTypes /\ ptask[PFirst].state = "live"
      /\ \A t \in PTask : ptask[t].state # "none" => Leader(t) = t
  BY <1>1, ProcAssumption DEF TaskTypes, TaskStates, NoTask, Leader
<1>3. NoFile \in FileType /\ NoFile.reader[1] = PFirst /\ NoEntry \in EntryType
  BY ProcAssumption DEF NoFile, FileType, NoEntry, EntryType
<1>4. ReadTypes
  BY <1>1, <1>2, <1>3 DEF ReadTypes, TableType
<1>5. PFirst \in Active
  BY <1>2, ProcAssumption DEF Active, InState
<1>6. \A t \in Active : synth[t][BadFd] = NoEntry /\ \A f \in PFd : Descriptor(t, f)
  BY <1>1 DEF Active, InState, Descriptor, EntryFits
<1>7. \A t \in PTask : Reading(t)
  BY <1>1 DEF Reading
<1>8. \A n \in PFile : pfile[n].reader[1] \in Active
  BY <1>1, <1>3, <1>5
<1> QED
  BY ZenonT(30), <1>1, <1>4, <1>6, <1>7, <1>8 DEF ReadInv

\* However many tasks and descriptors there are, and whatever the size of the table: an entry
\* that a synthesized or a maps file needs is never squeezed out, and what is read is what was
\* opened.
THEOREM ReadsAreLikeOpened == ProcSpec => []ReadsLikeOpened
<1> DEFINE I == Tame => ReadInv
<1>1. ProcInit => I
  BY InitRead
<1>2. I /\ [ProcNext]_procVars => I'
  <2> SUFFICES ASSUME I, [ProcNext]_procVars, Tame' PROVE ReadInv'
    OBVIOUS
  <2>1. proc_guest' = proc_guest
    BY DEF ProcNext, procVars
  <2>2. Tame /\ ReadInv
    BY <2>1 DEF Tame
  <2>3. CASE ProcNext
    BY <2>2, <2>3, ReadNext
  <2>4. CASE UNCHANGED procVars
    BY <2>2, <2>4, RestKeeps DEF procVars
  <2> QED
    BY <2>3, <2>4
<1>3. I => ReadsLikeOpened
  BY DEF ReadsLikeOpened, Tame, ReadInv
<1> QED
  BY <1>1, <1>2, <1>3, PTL DEF ProcSpec

================================================================================
