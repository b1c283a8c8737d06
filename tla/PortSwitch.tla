------------------------------- MODULE PortSwitch -------------------------------
(***************************************************************************)
(* Ports without --proxy.  "-p HOST:PORT" maps a port of the guests to one  *)
(* of the host, and a bare "-p" moves privileged ports up.  At the enter of *)
(* a bind(2), and of a connect(2) or sendto(2) to the loopback address, the *)
(* extension looks for a port that it can itself bind, from the one wanted  *)
(* upwards, and writes it to the guest's buffer; the kernel then uses it.   *)
(***************************************************************************)
EXTENDS Integers, Sequences, FiniteSets

CONSTANTS
    NTask,              \* guests; each has one socket and one buffer for its address
    PortOptions,        \* command lines, as sequences of options
    HighPort,           \* the last port: 65535
    PORT_THRESHOLD, PORT_ADDITION, MAX_PORT_SEARCH,
    MaxMappings,        \* 64
    MaxHostPorts,       \* how often another program of the host takes a port
    PortGuests          \* what the guests do, as sets of habits

(***************************************************************************)
(* Which calls a guest makes; it closes its socket; "rebinds": it uses the *)
(* buffer of an earlier call again; "races": another call, or another      *)
(* program of the host, comes between the enter of a call and the kernel.  *)
(***************************************************************************)
PortHabits == {"bind", "connect", "sendto", "races", "rebinds", "closes"}

ASSUME PortAssumption ==
    /\ PortGuests \subseteq SUBSET PortHabits
    /\ HighPort \in Nat /\ PORT_ADDITION \in Nat
    /\ PORT_THRESHOLD \in 1 .. HighPort /\ MAX_PORT_SEARCH \in Nat \ {0}
    /\ \A o \in PortOptions :
          o \in Seq([host_port : 0 .. HighPort, container_port : 0 .. HighPort])
    /\ NTask \intersect {"free", "host"} = {}

VARIABLES
    port_guest,
    poptions,    \* what is left of the command line
    switch,      \* PortSwitchConfig
    owner,       \* who has each port of the host: a guest, "host", "free"
    buffer,      \* the port in each guest's buffer, and the one it wrote there
    ncall,       \* the call each guest is in
    nlast,       \* whether the last bind(2) failed though a port had been there to be found
    host_takes   \* how often the host took a port

portVars == <<port_guest, poptions, switch, owner, buffer, ncall, nlast, host_takes>>

Likes(h) == h \in port_guest

Port == 1 .. HighPort
NoAddress == [port |-> 0, meant |-> 0]
NoNetCall == [op |-> "none", findable |-> FALSE]

--------------------------------------------------------------------------------
(* Options: handle_option_port_mapping() without --proxy, and handle_option_p(). *)

Mapping(host, container) == [host_port |-> host, container_port |-> container]
AutoRedirect == Mapping(0, 0)

PortOption ==
    /\ poptions # <<>>
    /\ IF Head(poptions) = AutoRedirect
       THEN poptions' = Tail(poptions) /\ switch' = [switch EXCEPT !.auto_redirect = TRUE]
       ELSE IF Len(switch.mappings) >= MaxMappings
       THEN poptions' = <<>> /\ switch' = [switch EXCEPT !.failed = TRUE]
       ELSE /\ poptions' = Tail(poptions)
            /\ switch' = [switch EXCEPT !.mappings = Append(@, Head(poptions))]
    /\ UNCHANGED <<owner, buffer, ncall, nlast, host_takes>>

Guesting == poptions = <<>> /\ ~switch.failed

--------------------------------------------------------------------------------
(* Translation. *)

\* bind(2) of a socket of PRoot, which has the guests' privileges, to the loopback address.
\* Port 0 is any port.
is_port_available(port) == port = 0 \/ (port >= PORT_THRESHOLD /\ owner[port] = "free")

find_available_port_blind(start_port) == start_port

\* The loop counts in 16 bits: past the last port it comes to port 0, which can be bound and
\* which tells the caller that there is none.
find_available_port(start_port) ==
    LET candidate(i) == (start_port + i) % (HighPort + 1)
        found == {i \in 0 .. MAX_PORT_SEARCH - 1 : is_port_available(candidate(i))}
    IN IF found = {} THEN 0 ELSE candidate(CHOOSE i \in found : \A j \in found : i <= j)

find_mapping(port) == {i \in DOMAIN switch.mappings : switch.mappings[i].container_port = port}

Covered(port) ==
    port # 0 /\ (find_mapping(port) # {} \/ (switch.auto_redirect /\ port < PORT_THRESHOLD))

\* The port the search begins with: that of the first mapping.
WantedPort(port) ==
    IF find_mapping(port) # {}
    THEN switch.mappings[CHOOSE i \in find_mapping(port) : \A j \in find_mapping(port) : i <= j].host_port
    ELSE port + PORT_ADDITION

Target(port) == IF Covered(port) THEN find_available_port(WantedPort(port)) ELSE 0

\* What the buffer holds then.
handle_port_translation(port) == IF Target(port) = 0 THEN port ELSE Target(port)

\* A guest writes a port to its buffer, or uses what the buffer holds since an earlier call.
Fills(t, port, meant) ==
    \/ meant = port
    \/ Likes("rebinds") /\ port = buffer[t].port /\ meant = buffer[t].meant

\* The guests start one call at a time unless they race.
Alone(t) == Likes("races") \/ \A u \in NTask \ {t} : ncall[u].op = "none"

\* SYSCALL_ENTER_END of bind(2), connect(2) and sendto(2), and of their socketcall(2).
NetEnter(t, op, port, meant, localhost) ==
    /\ Guesting /\ ncall[t].op = "none" /\ Alone(t) /\ Fills(t, port, meant)
    /\ Likes(op) /\ (op = "bind" => \A p \in Port : owner[p] # t)
    /\ buffer' = [buffer EXCEPT ![t] =
          [meant |-> meant,
           port |-> IF op = "bind" \/ localhost THEN handle_port_translation(port) ELSE port]]
    /\ ncall' = [ncall EXCEPT ![t] = [op |-> op, findable |-> Target(meant) # 0]]
    /\ UNCHANGED <<poptions, switch, owner, nlast, host_takes>>

--------------------------------------------------------------------------------
(* The kernel and the host. *)

Bindable == {p \in Port : p >= PORT_THRESHOLD /\ owner[p] = "free"}

\* The buffer matters after the call only to those who use it again.
Buffered(t) == IF Likes("rebinds") THEN buffer ELSE [buffer EXCEPT ![t] = NoAddress]

\* bind(2) in the kernel; port 0 is any port.
BindInKernel(t, port) ==
    /\ ncall[t].op = "bind" /\ port \in Port
    /\ IF buffer[t].port = 0 THEN port \in Bindable ELSE port = buffer[t].port
    /\ owner' = IF port \in Bindable THEN [owner EXCEPT ![port] = t] ELSE owner
    /\ nlast' = (port \notin Bindable /\ ncall[t].findable)
    /\ ncall' = [ncall EXCEPT ![t] = NoNetCall] /\ buffer' = Buffered(t)
    /\ UNCHANGED <<poptions, switch, host_takes>>

OtherInKernel(t) ==
    /\ ncall[t].op \in {"connect", "sendto"}
    /\ ncall' = [ncall EXCEPT ![t] = NoNetCall] /\ buffer' = Buffered(t)
    /\ UNCHANGED <<poptions, switch, owner, nlast, host_takes>>

CloseSocket(t, port) ==
    /\ Likes("closes") /\ ncall[t].op = "none" /\ owner[port] = t
    /\ owner' = [owner EXCEPT ![port] = "free"]
    /\ UNCHANGED <<poptions, switch, buffer, ncall, nlast, host_takes>>

\* Other programs take ports, in the middle of a call if the guests are said to race.
HostTakes(port) ==
    /\ owner[port] = "free" /\ host_takes < MaxHostPorts
    /\ Likes("races") \/ \A t \in NTask : ncall[t].op = "none"
    /\ owner' = [owner EXCEPT ![port] = "host"]
    /\ host_takes' = host_takes + 1
    /\ UNCHANGED <<poptions, switch, buffer, ncall, nlast>>

--------------------------------------------------------------------------------
PortInit ==
    /\ port_guest \in PortGuests
    /\ poptions \in PortOptions
    /\ switch = [mappings |-> <<>>, auto_redirect |-> FALSE, failed |-> FALSE]
    /\ owner = [p \in Port |-> "free"]
    /\ buffer = [t \in NTask |-> NoAddress]
    /\ ncall = [t \in NTask |-> NoNetCall]
    /\ nlast = FALSE
    /\ host_takes = 0

PortStep ==
    \/ PortOption
    \/ \E t \in NTask :
          \/ OtherInKernel(t)
          \/ \E op \in {"bind", "connect", "sendto"}, localhost \in BOOLEAN,
                port, meant \in 0 .. HighPort : NetEnter(t, op, port, meant, localhost)
          \/ \E port \in Port : BindInKernel(t, port) \/ CloseSocket(t, port)
    \/ \E port \in Port : HostTakes(port)

PortNext == PortStep /\ UNCHANGED port_guest

PortSpec == PortInit /\ [][PortNext]_portVars

--------------------------------------------------------------------------------
\* A bind(2) of a port that is mapped, or moved up, succeeds if at its enter one of the
\* MAX_PORT_SEARCH ports from the mapped one can be bound - unless someone else binds in the
\* meantime, or the guest uses the buffer of an earlier call again, which PRoot has overwritten.
SwitchedBindSucceeds == nlast => Likes("races") \/ Likes("rebinds")

================================================================================
