------------------------------- MODULE VirtualNet ------------------------------
(***************************************************************************)
(* The sockets of the virtual_net extension: instances of PRoot with the   *)
(* same --proxy NAME find each other's ports in a registry file they       *)
(* share.  A bind() of a port gets the abstract name of the port and of    *)
(* the instance's token and is written to the registry under an exclusive  *)
(* lock; a connect() is given the name by the instance's own table of      *)
(* descriptors, by its published ports, or by the registry, of which each  *)
(* instance has a cache that the generation of the file keeps valid.       *)
(* PRoot handles the entry of a call, the kernel executes it afterwards:   *)
(* other tasks, of this and of other instances, come between.              *)
(***************************************************************************)
EXTENDS Integers, Sequences, FiniteSets

CONSTANTS
    Instance,       \* the instances, each with its token: vnp_generate_token()
    InstOf,         \* the instance of each task
    Roots,          \* the tasks there are from the start
    VFd,            \* the descriptors
    VPort,          \* the ports the guests name
    AutoPort,       \* the port that bind() to 0 chooses for a descriptor: fd ^ token
    Published,      \* the virtual ports of -p, of each instance: expose_map
    NetGuests,      \* what the guests do: a set of sets of NetHabits
    VNP_MAX_FDS, VNP_REG_MAX,
    MaxVSockets,    \* how many sockets there are at once
    MaxVBinds, MaxVConnects, MaxCleanups

(***************************************************************************)
(* Guests bind and listen ("serves"), connect, bind to port 0, have        *)
(* threads and children, use dup2(2), end, use more than one port, pass    *)
(* descriptors that are no sockets ("stray").  "exits": another extension  *)
(* asks for the exits of socket(2); "cleanup": something removes the       *)
(* directory of the registry; "full": the file system has no space.        *)
(***************************************************************************)
NetHabits == {"serves", "connects", "port0", "threads", "forks", "dups", "ends", "ports",
              "stray", "exits", "cleanup", "full"}

VTask == DOMAIN InstOf

ASSUME VnpAssumption ==
    /\ Roots \subseteq VTask /\ InstOf \in [VTask -> Instance]
    /\ NetGuests \subseteq SUBSET NetHabits /\ VNP_MAX_FDS \in Nat /\ VNP_REG_MAX \in Nat
    /\ \A i \in Instance : \A f, g \in VFd : AutoPort[i][f] = AutoPort[i][g] => f = g

VARIABLES
    net_guest,  \* the habits of this behaviour
    fd_map,     \* VnpConfig.fd_map of each instance, shared by all its tracees
    registry,   \* the registry: whether its directory exists, the file there, all the files
    reg_cache,  \* the cache of each instance: generation, entries, the open file, vnp_dirs_ready
    vtasks,     \* each task: whether it lives, and whose table of descriptors it has
    vtables,    \* the sockets in each table
    vsockets,   \* the sockets of the kernel
    vcalls,     \* the calls the kernel is about to execute
    last_bind,  \* which instance bound a port last
    vcount      \* calls so far, for the bounds

vnetVars == <<net_guest, fd_map, registry, reg_cache, vtasks, vtables, vsockets, vcalls, last_bind, vcount>>
kernelVars == <<vtasks, vtables, vsockets>>
prootVars == <<fd_map, registry, reg_cache>>

Does(habit) == habit \in net_guest

\* The abstract name of a port of an instance; the address of the guest, not rewritten.
vnp_fill_abstract_sa(port, i) == <<port, i>>
Raw == <<>>

NoSocket == 0
VSocket == 1 .. MaxVSockets
FreeSocket == [used |-> FALSE, name |-> Raw, peer |-> Raw, pending |-> 0]

VIdle == [op |-> "none"]
Alive(t) == vtasks[t].lives
Lives == {t \in VTask : Alive(t)}
Ready(t) == Alive(t) /\ vcalls[t] = VIdle
At(t, f) == vtables[vtasks[t].table][f]

\* The guests call with the descriptor of a socket, or stray, and use one port, or several.
Calls(t, f, port) ==
    /\ Ready(t)
    /\ At(t, f) # NoSocket \/ Does("stray")
    /\ port \in VPort => port = (CHOOSE p \in VPort : \A q \in VPort : p <= q) \/ Does("ports")

-----------------------------------------------------------------------------
(* The table of descriptors of an instance. *)

VnpFd(t, f, port) == [pid |-> t, fd |-> f, port |-> port]
vnp_find_fd(map, f, t) == {e \in map : e.fd = f /\ e.pid = t}
vnp_remove_fd(map, f, t) == map \ vnp_find_fd(map, f, t)

\* Only a full table is searched for the entries of tasks that are gone.
Swept(map) ==
    IF Cardinality(map) >= VNP_MAX_FDS THEN {e \in map : e.pid \in Lives} ELSE map

AddTo(map, e) == IF Cardinality(map) >= VNP_MAX_FDS THEN map ELSE map \union {e}

vnp_add_fd(map, e) == AddTo(Swept(map), e)

\* What bind() and connect() do with the table; when the entry is not there afterwards the
\* call goes to the kernel as it is.
Tracked(map, f, t, port) ==
    IF vnp_find_fd(map, f, t) = {} THEN vnp_add_fd(map, VnpFd(t, f, port))
    ELSE vnp_remove_fd(map, f, t) \union {VnpFd(t, f, port)}

HasRoom(map, f, t) == vnp_find_fd(Tracked(map, f, t, 0), f, t) # {}

-----------------------------------------------------------------------------
(* The registry.  An operation has a state of its own: the registry, the   *)
(* cache of the instance, and the file it has opened (0: none).            *)

EmptyFile == [generation |-> 0, entries |-> <<>>]
NoGeneration == -1

vnp_ensure_directories(st) ==
    IF st.cache.ready THEN st ELSE [st EXCEPT !.registry.dirs = TRUE, !.cache.ready = TRUE]

\* open(O_CREAT): without the directory it fails, and the next call makes the directory again.
OpenFile(st) ==
    IF ~st.registry.dirs THEN [st EXCEPT !.cache.ready = FALSE]
    ELSE IF st.registry.current # 0 THEN [st EXCEPT !.file = st.registry.current]
    ELSE LET n == Len(st.registry.files) + 1
         IN  [st EXCEPT !.file = n,
                        !.registry = [@ EXCEPT !.current = n, !.files = Append(@, EmptyFile)]]

\* The file of LOCK_SH stays open and is used again, whatever has become of its name.
CachedShared(st) == IF st.file = 0 THEN st ELSE [st EXCEPT !.cache.shared = st.file]

vnp_registry_open(st, shared) ==
    IF shared /\ st.cache.shared # 0 THEN [st EXCEPT !.file = st.cache.shared]
    ELSE IF shared THEN CachedShared(OpenFile(vnp_ensure_directories(st)))
    ELSE OpenFile(vnp_ensure_directories(st))

vnp_cache_update(st, header) ==
    [st EXCEPT !.cache.generation = header.generation, !.cache.entries = header.entries]

\* The last one to register a port has it.
With(entries, port, i) == [p \in DOMAIN entries \union {port} |-> IF p = port THEN i ELSE entries[p]]

\* A plausible defect: only a new port changes the generation.
vnp_registry_add_silent(header, port, i) ==
    IF port \in DOMAIN header.entries THEN [header EXCEPT !.entries[port] = i]
    ELSE IF Cardinality(DOMAIN header.entries) >= VNP_REG_MAX THEN header
    ELSE [generation |-> header.generation + 1, entries |-> With(header.entries, port, i)]

\* A plausible defect: a port that is there stays with the instance it was registered for.
vnp_registry_add_first(header, port, i) ==
    IF port \notin DOMAIN header.entries /\ Cardinality(DOMAIN header.entries) >= VNP_REG_MAX
    THEN header
    ELSE [generation |-> header.generation + 1,
          entries |-> IF port \in DOMAIN header.entries THEN header.entries
                      ELSE With(header.entries, port, i)]

vnp_registry_add(header, port, i) ==
    IF port \notin DOMAIN header.entries /\ Cardinality(DOMAIN header.entries) >= VNP_REG_MAX
    THEN header
    ELSE [generation |-> header.generation + 1, entries |-> With(header.entries, port, i)]

Header(st) == st.registry.files[st.file]

\* vnp_registry_write() may fail, the cache has the header all the same.
Written(st, header, fails) ==
    vnp_cache_update(IF fails THEN st ELSE [st EXCEPT !.registry.files[st.file] = header], header)

Registered(st, port, i, fails) ==
    IF st.file = 0 THEN st ELSE Written(st, vnp_registry_add(Header(st), port, i), fails)

Count(entries) == Cardinality(DOMAIN entries)

\* vnp_registry_read_meta(): the cache is as good as the file.
CacheMatches(cache, header) ==
    /\ cache.generation = header.generation
    /\ Count(cache.entries) = Count(header.entries)

Refreshed(st) ==
    IF st.file = 0 \/ CacheMatches(st.cache, Header(st)) THEN st ELSE vnp_cache_update(st, Header(st))

\* vnp_registry_find(): the entries are those of the cache, refreshed or not.
vnp_registry_find(st, port) ==
    IF st.file # 0 /\ port \in DOMAIN st.cache.entries
    THEN vnp_fill_abstract_sa(port, st.cache.entries[port])
    ELSE Raw

Operation(i) == [registry |-> registry, cache |-> reg_cache[i], file |-> 0]

Concludes(i, st) == registry' = st.registry /\ reg_cache' = [reg_cache EXCEPT ![i] = st.cache]

-----------------------------------------------------------------------------
(* The entries of the calls. *)

UsedPort(map, port) == \E e \in map : e.port = port

\* vnp_classify_destination(), for a loopback address: no look at the registry itself.
vnp_classify_destination(i, port) ==
    IF port \in Published[i] THEN "bridge"
    ELSE IF UsedPort(fd_map[i], port) \/ port \in DOMAIN reg_cache[i].entries THEN "virtual"
    ELSE "unknown"

\* bind(f, port): the descriptor is tracked, the registry has the port before the kernel binds.
vnp_handle_bind(t, f, port, fails) ==
    LET i == InstOf[t] IN
    /\ Calls(t, f, port) /\ Does("serves") /\ vcount.binds < MaxVBinds
    /\ fails => Does("full")
    /\ vcount' = [vcount EXCEPT !.binds = @ + 1]
    /\ fd_map' = [fd_map EXCEPT ![i] = Tracked(@, f, t, port)]
    /\ IF HasRoom(fd_map[i], f, t)
       THEN /\ Concludes(i, Registered(vnp_registry_open(Operation(i), FALSE), port, i, fails))
            /\ last_bind' = With(last_bind, port, i)
            /\ vcalls' = [vcalls EXCEPT ![t] = [op |-> "bind", fd |-> f, port |-> port,
                                                 name |-> vnp_fill_abstract_sa(port, i)]]
       ELSE /\ vcalls' = [vcalls EXCEPT ![t] = [op |-> "bind", fd |-> f, port |-> port, name |-> Raw]]
            /\ UNCHANGED <<registry, reg_cache, last_bind>>
    /\ UNCHANGED <<net_guest, kernelVars>>

\* Port 0: the port is chosen by the descriptor.
BindAny(t, f) == Does("port0") /\ vnp_handle_bind(t, f, AutoPort[InstOf[t]][f], FALSE)

\* The port is one of this instance as soon as one of its descriptors has it.
vnp_lookup_virtual_port(i, port, st) ==
    IF UsedPort(fd_map[i], port) \/ port \in Published[i] THEN vnp_fill_abstract_sa(port, i)
    ELSE vnp_registry_find(st, port)

Looked(i, port) ==
    IF UsedPort(fd_map[i], port) \/ port \in Published[i] THEN Operation(i)
    ELSE Refreshed(vnp_registry_open(Operation(i), TRUE))

ConnectTo(t, f, port, name) ==
    LET i == InstOf[t] IN
    IF name # Raw /\ HasRoom(fd_map[i], f, t)
    THEN /\ fd_map' = [fd_map EXCEPT ![i] = Tracked(@, f, t, port)]
         /\ vcalls' = [vcalls EXCEPT ![t] = [op |-> "connect", fd |-> f, port |-> port, name |-> name]]
    ELSE /\ fd_map' = IF name = Raw THEN fd_map ELSE [fd_map EXCEPT ![i] = Tracked(@, f, t, port)]
         /\ vcalls' = [vcalls EXCEPT ![t] = [op |-> "connect", fd |-> f, port |-> port, name |-> Raw]]

vnp_handle_connect(t, f, port) ==
    LET i == InstOf[t] IN
    /\ Calls(t, f, port) /\ Does("connects") /\ vcount.connects < MaxVConnects
    /\ vcount' = [vcount EXCEPT !.connects = @ + 1]
    /\ Concludes(i, Looked(i, port))
    /\ ConnectTo(t, f, port, vnp_lookup_virtual_port(i, port, Looked(i, port)))
    /\ UNCHANGED <<net_guest, kernelVars, last_bind>>

-----------------------------------------------------------------------------
(* The kernel executes the call; what the other calls do, with PRoot's part *)
(* of them.                                                                 *)

\* The sockets that no table has any more are gone.
Kept(tables, sockets) ==
    [s \in VSocket |-> IF \E u \in VTask, f \in VFd : tables[u][f] = s THEN sockets[s] ELSE FreeSocket]

Returns(t) == vcalls' = [vcalls EXCEPT ![t] = VIdle]
Named(name) == {s \in VSocket : vsockets[s].used /\ vsockets[s].name = name}


Binds(s, name) == s # NoSocket /\ name # Raw /\ vsockets[s].name = Raw /\ Named(name) = {}

\* The guests that bind() a socket listen() on it.
KernelBind(t) ==
    LET s == At(t, vcalls[t].fd) IN
    /\ Alive(t) /\ vcalls[t].op = "bind"
    /\ Returns(t)
    /\ vsockets' = IF Binds(s, vcalls[t].name) THEN [vsockets EXCEPT ![s].name = vcalls[t].name]
                   ELSE vsockets
    /\ UNCHANGED <<net_guest, prootVars, vtasks, vtables, last_bind, vcount>>

Connects(s, name) ==
    s # NoSocket /\ name # Raw /\ vsockets[s].peer = Raw /\ vsockets[s].name = Raw /\ Named(name) # {}

KernelConnect(t) ==
    LET s == At(t, vcalls[t].fd) IN
    /\ Alive(t) /\ vcalls[t].op = "connect"
    /\ Returns(t)
    /\ vsockets' =
          IF Connects(s, vcalls[t].name)
          THEN [v \in VSocket |->
                  IF v = s THEN [vsockets[v] EXCEPT !.peer = vcalls[t].name]
                  ELSE IF v \in Named(vcalls[t].name) THEN [vsockets[v] EXCEPT !.pending = @ + 1]
                  ELSE vsockets[v]]
          ELSE vsockets
    /\ UNCHANGED <<net_guest, prootVars, vtasks, vtables, last_bind, vcount>>

FreeFds(t) == {f \in VFd : At(t, f) = NoSocket}
FreeSockets == {s \in VSocket : ~vsockets[s].used}
Lowest(S) == CHOOSE x \in S : \A y \in S : x <= y

Opens(t, new) ==
    /\ FreeFds(t) # {} /\ FreeSockets # {}
    /\ vtables' = [vtables EXCEPT ![vtasks[t].table][Lowest(FreeFds(t))] = Lowest(FreeSockets)]
    /\ vsockets' = [new EXCEPT ![Lowest(FreeSockets)].used = TRUE]

\* An entry for the new descriptor, unless there is an old one.
Notes(t, f, port) ==
    fd_map' = IF vnp_find_fd(fd_map[InstOf[t]], f, t) # {} THEN fd_map
              ELSE [fd_map EXCEPT ![InstOf[t]] = vnp_add_fd(@, VnpFd(t, f, port))]

\* socket(AF_INET) makes an AF_UNIX socket.  Its exit is seen when another extension asks
\* for the exits of socket().
vnp_handle_socket(t) ==
    /\ Ready(t)
    /\ Opens(t, vsockets)
    /\ IF Does("exits") THEN Notes(t, Lowest(FreeFds(t)), 0) ELSE UNCHANGED fd_map
    /\ UNCHANGED <<net_guest, registry, reg_cache, vtasks, vcalls, last_bind, vcount>>

\* The descriptor that accept() returns is tracked if the listener is, for this task.
vnp_handle_accept_exit(t, f) ==
    LET s == At(t, f)
        entry == vnp_find_fd(fd_map[InstOf[t]], f, t) IN
    /\ Ready(t) /\ s # NoSocket
    /\ vsockets[s].pending > 0
    /\ Opens(t, [vsockets EXCEPT ![s].pending = @ - 1, ![Lowest(FreeSockets)].peer = vsockets[s].name])
    /\ IF \E e \in entry : e.port # 0
       THEN Notes(t, Lowest(FreeFds(t)), (CHOOSE e \in entry : TRUE).port)
       ELSE UNCHANGED fd_map
    /\ UNCHANGED <<net_guest, registry, reg_cache, vtasks, vcalls, last_bind, vcount>>

Rearranged(tables) == vtables' = tables /\ vsockets' = Kept(tables, vsockets)

vnp_handle_close(t, f) ==
    /\ Ready(t) /\ At(t, f) # NoSocket
    /\ fd_map' = [fd_map EXCEPT ![InstOf[t]] = vnp_remove_fd(@, f, t)]
    /\ Rearranged([vtables EXCEPT ![vtasks[t].table][f] = NoSocket])
    /\ UNCHANGED <<net_guest, registry, reg_cache, vtasks, vcalls, last_bind, vcount>>

\* dup2(f, g) passes PRoot by.
Dup2(t, f, g) ==
    /\ Ready(t) /\ Does("dups") /\ At(t, f) # NoSocket /\ At(t, g) # At(t, f)
    /\ Rearranged([vtables EXCEPT ![vtasks[t].table][g] = At(t, f)])
    /\ UNCHANGED <<net_guest, prootVars, vtasks, vcalls, last_bind, vcount>>

\* A new task: a thread with the table of its creator, or a process with a copy of it.  The
\* configuration is shared, no entry of the creator is one of the new task's.
Clone(t, u, thread) ==
    /\ Ready(t) /\ Does(IF thread THEN "threads" ELSE "forks")
    /\ InstOf[u] = InstOf[t] /\ ~vtasks[u].born
    /\ vtasks' = [vtasks EXCEPT ![u] = [born |-> TRUE, lives |-> TRUE, table |-> IF thread THEN vtasks[t].table ELSE u]]
    /\ vtables' = IF thread THEN vtables ELSE [vtables EXCEPT ![u] = vtables[vtasks[t].table]]
    /\ UNCHANGED <<net_guest, prootVars, vsockets, vcalls, last_bind, vcount>>

LastOfTable(t) == \A u \in Lives \ {t} : vtasks[u].table # vtasks[t].table

\* A task ends, also within a call.  Its extension is removed: REMOVED closes the cached file
\* of the registry, the entries of the task stay.  Another task has another pid.
Ended(t) == [vtasks EXCEPT ![t].lives = FALSE]
vnp_removed(t) ==
    /\ Alive(t) /\ Does("ends")
    /\ vtasks' = Ended(t)
    /\ IF LastOfTable(t)
       THEN Rearranged([vtables EXCEPT ![vtasks[t].table] = [f \in VFd |-> NoSocket]])
       ELSE UNCHANGED <<vtables, vsockets>>
    /\ Returns(t)
    /\ reg_cache' = [reg_cache EXCEPT ![InstOf[t]].shared = 0]
    /\ UNCHANGED <<net_guest, fd_map, registry, last_bind, vcount>>

\* A cleaner removes the directory of the registry.
TmpCleanup ==
    /\ Does("cleanup") /\ registry.dirs /\ vcount.cleanups < MaxCleanups
    /\ registry' = [registry EXCEPT !.dirs = FALSE, !.current = 0]
    /\ vcount' = [vcount EXCEPT !.cleanups = @ + 1]
    /\ UNCHANGED <<net_guest, fd_map, reg_cache, kernelVars, vcalls, last_bind>>

-----------------------------------------------------------------------------

\* vnp_configure() has made the directory.
VnetInit ==
    /\ net_guest \in NetGuests
    /\ fd_map = [i \in Instance |-> {}]
    /\ registry = [dirs |-> TRUE, current |-> 0, files |-> <<>>]
    /\ reg_cache = [i \in Instance |->
                      [generation |-> NoGeneration, entries |-> <<>>, shared |-> 0, ready |-> TRUE]]
    /\ vtasks = [t \in VTask |-> [born |-> t \in Roots, lives |-> t \in Roots, table |-> t]]
    /\ vtables = [t \in VTask |-> [f \in VFd |-> NoSocket]]
    /\ vsockets = [s \in VSocket |-> FreeSocket]
    /\ vcalls = [t \in VTask |-> VIdle]
    /\ last_bind = <<>>
    /\ vcount = [binds |-> 0, connects |-> 0, cleanups |-> 0]

VnetNext ==
    \/ \E t \in VTask, f \in VFd :
         \/ \E port \in VPort : \/ \E fails \in BOOLEAN : vnp_handle_bind(t, f, port, fails)
                                 \/ vnp_handle_connect(t, f, port)
         \/ BindAny(t, f) \/ vnp_handle_accept_exit(t, f) \/ vnp_handle_close(t, f)
         \/ \E g \in VFd : Dup2(t, f, g)
    \/ \E t \in VTask :
         \/ KernelBind(t) \/ KernelConnect(t) \/ vnp_handle_socket(t) \/ vnp_removed(t)
         \/ \E u \in VTask, thread \in BOOLEAN : Clone(t, u, thread)
    \/ TmpCleanup

VnetSpec == VnetInit /\ [][VnetNext]_vnetVars

-----------------------------------------------------------------------------

\* The file a lookup would read.
FileOf(i) == IF reg_cache[i].shared # 0 THEN reg_cache[i].shared ELSE registry.current

\* Nothing happens to the file but what the instances write.
Undisturbed == net_guest \intersect {"cleanup", "full"} = {}

\* "a matching generation guarantees the cache mirrors the file exactly" (the fast path of
\* vnp_lookup_virtual_port()): whatever the instances have registered in whichever order, a
\* cache with the generation and the count of the file has its entries.
CacheMirrors ==
    Undisturbed =>
        \A i \in Instance :
           FileOf(i) # 0 /\ CacheMatches(reg_cache[i], registry.files[FileOf(i)])
              => reg_cache[i].entries = registry.files[FileOf(i)].entries

\* t enters connect() to the port.
Enters(t, port) == vcalls[t] = VIdle /\ vcalls'[t].op = "connect" /\ vcalls'[t].port = port

\* The table of the instance has, or gets by the sweep, room for a descriptor.
Room(i) == Cardinality({e \in fd_map[i] : e.pid \in Lives}) < VNP_MAX_FDS

Own(i, port) == UsedPort(fd_map[i], port) \/ port \in Published[i]

\* vnp_handle_bind(), the registry and vnp_lookup_virtual_port() of two instances together: a
\* connect() to a port that a listening socket was bound to, the last one to be bound to it,
\* gets the name of that socket, if the instance of the caller does not use the port itself,
\* the table of descriptors has room for one more and the registry for all the ports.
ListenerReached ==
    [][\A t \in VTask, port \in VPort :
          /\ Enters(t, port) /\ Undisturbed
          /\ port \in DOMAIN last_bind /\ Cardinality(DOMAIN last_bind) <= VNP_REG_MAX
          /\ Named(vnp_fill_abstract_sa(port, last_bind[port])) # {}
          /\ Room(InstOf[t]) /\ ~Own(InstOf[t], port)
          => vcalls'[t].name = vnp_fill_abstract_sa(port, last_bind[port])]_vnetVars

\* vnp_classify_destination() decides without the registry what the policy takes the
\* destination for: what it calls virtual, or a bridge, is never sent to a real address.
ClassifiedAsRouted ==
    [][\A t \in VTask, port \in VPort :
          /\ Enters(t, port) /\ Undisturbed /\ Room(InstOf[t])
          /\ vnp_classify_destination(InstOf[t], port) # "unknown"
          => vcalls'[t].name # Raw]_vnetVars

\* "Check if port belongs to a local socket (our own bind)", "For local ports (our own bind),
\* the name is reconstructed": a connect() gets the name of its own instance only for a port
\* that a socket of the instance is bound to, or is about to be, or that is published.
LocalIsOwnBind ==
    [][\A t \in VTask, port \in VPort :
          /\ Enters(t, port)
          /\ vcalls'[t].name = vnp_fill_abstract_sa(port, InstOf[t])
          => \/ port \in Published[InstOf[t]]
             \/ port \in DOMAIN last_bind /\ last_bind[port] = InstOf[t]
             \/ Named(vcalls'[t].name) # {}]_vnetVars

================================================================================
