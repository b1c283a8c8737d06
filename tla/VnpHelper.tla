------------------------------- MODULE VnpHelper -------------------------------
(***************************************************************************)
(* Published ports, -p HOST:PORT with --proxy.  PRoot starts a helper and   *)
(* sends it, over a pipe, one request at a time; the helper listens on the *)
(* ports of the host, and for every connection it accepts it connects to   *)
(* the guest's server and forks a bridge that forwards between the two.    *)
(* A helper is told to end (BYE) and then killed when an extension of      *)
(* virtual_net is removed: with a second --proxy, and with every tracee    *)
(* that ends.  It also ends when PRoot is gone and the pipe is closed.     *)
(***************************************************************************)
EXTENDS Integers, Sequences, FiniteSets

CONSTANTS
    PubOptions,     \* the command lines: a set of sequences of options
    TakenPorts,     \* the ports of the host that other programs listen on
    Clients,        \* connections from the host
    PubTasks,       \* the tracees; the first is the server
    FirstTask,
    VNP_EXPOSE_MAX,
    UnixBacklog,    \* how many connections a guest's server lets wait
    MaxReplies      \* messages the server sends over a connection

VARIABLES
    pub_left,   \* the options that are left
    pub,        \* the VnpConfig: expose_map, helper_pid, and what PRoot is doing
    pipes,      \* the request to the helper and its response; hup, PRoot's ends are closed
    helper,     \* the helper: what it is doing, its listeners, the client it connects for
    pub_tasks,  \* the tracees that live
    serving,    \* the ports of the virtual network the server listens on
    clients,    \* the connections: state, the port of the host, replies got
    served,     \* the server's end of each connection: state, replies sent
    bridges     \* the bridges that run, by connection; those that are tracked

pubVars == <<pub_left, pub, pipes, helper, pub_tasks, serving, clients, served, bridges>>

OptionProxy == [opt |-> "proxy"]
OptionPublish(host, port) == [opt |-> "publish", host |-> host, port |-> port]

NoRequest == [op |-> "none"]
NoClient == "none"

Publication(o) == [host |-> o.host, port |-> o.port]
HostPorts(S) == {p.host : p \in S}
PortOf(S, host) == (CHOOSE p \in S : p.host = host).port

\* PRoot waits for the helper: it handles no tracee meanwhile.
Waits == pub.doing \in {"expose", "bye"}
GuestMoves == pub.doing = "runs"

-----------------------------------------------------------------------------
(* PRoot. *)

\* vnp_configure(): a second --proxy removes the first extension, helper and all.
vnp_configure ==
    /\ pub.doing = "options" /\ pub_left # <<>> /\ Head(pub_left) = OptionProxy
    /\ IF pub.pid
       THEN /\ pipes' = [pipes EXCEPT !.request = [op |-> "bye"]]
            /\ pub' = [pub EXCEPT !.doing = "bye", !.next = "options"]
            /\ UNCHANGED pub_left
       ELSE /\ pub' = [pub EXCEPT !.proxy = TRUE, !.expose = {}]
            /\ pub_left' = Tail(pub_left)
            /\ UNCHANGED pipes
    /\ UNCHANGED <<helper, pub_tasks, serving, clients, served, bridges>>

\* vnp_add_expose() up to the request: the publication is in expose_map already.  The helper is
\* started for the first one and has said HELLO.
Starts ==
    IF pub.pid THEN UNCHANGED helper
    ELSE helper' = [state |-> "runs", listeners |-> {}, connects |-> NoClient]

CannotPublish(o) ==
    o.host \in HostPorts(pub.expose) \/ Cardinality(pub.expose) >= VNP_EXPOSE_MAX

vnp_add_expose ==
    /\ pub.doing = "options" /\ pub_left # <<>> /\ Head(pub_left).opt = "publish"
    /\ pub_left' = Tail(pub_left)
    /\ IF ~pub.proxy THEN UNCHANGED <<pub, pipes, helper>>
       ELSE IF CannotPublish(Head(pub_left))
       THEN pub' = [pub EXCEPT !.doing = "failed"] /\ UNCHANGED <<pipes, helper>>
       ELSE /\ pub' = [pub EXCEPT !.doing = "expose", !.pid = TRUE,
                                  !.expose = @ \union {Publication(Head(pub_left))}]
            /\ pipes' = [pipes EXCEPT !.request = [op |-> "expose", what |-> Publication(Head(pub_left))]]
            /\ Starts
    /\ UNCHANGED <<pub_tasks, serving, clients, served, bridges>>

\* The answer to EXPOSE.  A publication the helper could not make is taken back; the option
\* has failed.
vnp_send_expose(result, what) ==
    IF result = 0 THEN [pub EXCEPT !.doing = "options"]
    ELSE [pub EXCEPT !.doing = "failed", !.expose = @ \ {what}]

ExposeAnswered ==
    /\ pub.doing = "expose" /\ pipes.response # NoRequest
    /\ pub' = vnp_send_expose(pipes.response.result, pipes.response.what)
    /\ pipes' = [pipes EXCEPT !.response = NoRequest]
    /\ UNCHANGED <<pub_left, helper, pub_tasks, serving, clients, served, bridges>>

\* The options are done: the guest is launched.
Launch ==
    /\ pub.doing = "options" /\ pub_left = <<>>
    /\ pub' = [pub EXCEPT !.doing = "runs"]
    /\ pub_tasks' = {FirstTask}
    /\ UNCHANGED <<pub_left, pipes, helper, serving, clients, served, bridges>>

\* vnp_stop_helper() with the answer to BYE: SIGTERM, wherever the helper is, and waitpid().
Killed == [state |-> "gone", listeners |-> {}, connects |-> NoClient]
StopHelper ==
    /\ pub.doing = "bye" /\ pipes.response # NoRequest
    /\ pub' = [pub EXCEPT !.doing = pub.next, !.pid = FALSE]
    /\ helper' = Killed
    /\ pipes' = [pipes EXCEPT !.response = NoRequest]
    /\ UNCHANGED <<pub_left, pub_tasks, serving, clients, served, bridges>>

-----------------------------------------------------------------------------
(* The guest, as long as PRoot handles its calls. *)

PubFork(t) ==
    /\ GuestMoves /\ FirstTask \in pub_tasks /\ t \notin pub_tasks \union {FirstTask}
    /\ pub_tasks' = pub_tasks \union {t}
    /\ UNCHANGED <<pub_left, pub, pipes, helper, serving, clients, served, bridges>>

\* The server's sockets are closed with it.
ServerDropped(t) ==
    IF t # FirstTask THEN UNCHANGED <<serving, served>>
    ELSE /\ serving' = {}
         /\ served' = [c \in Clients |-> [served[c] EXCEPT !.state = IF @ = "none" THEN @ ELSE "closed"]]

\* A tracee ends and its extension is removed, and the helper stopped with it; with the last
\* one PRoot ends and closes the pipes.
PubRemoved(t) ==
    /\ GuestMoves /\ t \in pub_tasks
    /\ pub_tasks' = pub_tasks \ {t}
    /\ IF pub.pid
       THEN /\ pipes' = [pipes EXCEPT !.request = [op |-> "bye"]]
            /\ pub' = [pub EXCEPT !.doing = "bye", !.next = IF pub_tasks = {t} THEN "gone" ELSE "runs"]
       ELSE /\ pub' = [pub EXCEPT !.doing = IF pub_tasks = {t} THEN "gone" ELSE "runs"]
            /\ UNCHANGED pipes
    /\ ServerDropped(t)
    /\ UNCHANGED <<pub_left, helper, clients, bridges>>

Serve(port) ==
    /\ GuestMoves /\ FirstTask \in pub_tasks /\ port \notin serving
    /\ serving' = serving \union {port}
    /\ UNCHANGED <<pub_left, pub, pipes, helper, pub_tasks, clients, served, bridges>>

ServerAccepts(c) ==
    /\ GuestMoves /\ FirstTask \in pub_tasks /\ served[c].state = "queued"
    /\ served' = [served EXCEPT ![c].state = "open"]
    /\ UNCHANGED <<pub_left, pub, pipes, helper, pub_tasks, serving, clients, bridges>>

ServerReplies(c) ==
    /\ GuestMoves /\ FirstTask \in pub_tasks
    /\ served[c].state = "open" /\ served[c].sent < MaxReplies
    /\ served' = [served EXCEPT ![c].sent = @ + 1]
    /\ UNCHANGED <<pub_left, pub, pipes, helper, pub_tasks, serving, clients, bridges>>

ServerCloses(c) ==
    /\ GuestMoves /\ FirstTask \in pub_tasks
    /\ served[c].state = "open"
    /\ served' = [served EXCEPT ![c].state = "closed"]
    /\ UNCHANGED <<pub_left, pub, pipes, helper, pub_tasks, serving, clients, bridges>>

\* PRoot is killed, or gives up after an option.  Its tracees, if it has any, live on.
ProotEnds ==
    /\ pub.doing \in {"failed", "runs", "bye"}
    /\ pub' = [pub EXCEPT !.doing = "gone"]
    /\ UNCHANGED <<pub_left, pipes, helper, pub_tasks, serving, clients, served, bridges>>

OrphanEnds(t) ==
    /\ pub.doing = "gone" /\ t \in pub_tasks
    /\ pub_tasks' = pub_tasks \ {t}
    /\ ServerDropped(t)
    /\ UNCHANGED <<pub_left, pub, pipes, helper, clients, bridges>>

-----------------------------------------------------------------------------
(* The helper. *)

Hangup == pub.doing = "gone" /\ pub_tasks = {}

\* poll() tells of the end of the pipe before a request in it is read.
HasCommand == pipes.request # NoRequest /\ ~Hangup

\* create_tcp_listener()
ListenerFails(host) ==
    host \in TakenPorts \union HostPorts(helper.listeners) \/ Cardinality(helper.listeners) >= VNP_EXPOSE_MAX

\* Without an answer for the listener that could not be made.
helper_handle_expose_silent ==
    LET what == pipes.request.what IN
    /\ helper.state = "runs" /\ HasCommand /\ pipes.request.op = "expose"
    /\ helper' = IF ListenerFails(what.host) THEN helper ELSE [helper EXCEPT !.listeners = @ \union {what}]
    /\ pipes' = IF ListenerFails(what.host) THEN [pipes EXCEPT !.request = NoRequest]
                ELSE [request |-> NoRequest, response |-> [op |-> "expose", what |-> what, result |-> 0]]
    /\ UNCHANGED <<pub_left, pub, pub_tasks, serving, clients, served, bridges>>

helper_handle_expose ==
    LET what == pipes.request.what IN
    /\ helper.state = "runs" /\ HasCommand /\ pipes.request.op = "expose"
    /\ helper' = IF ListenerFails(what.host) THEN helper ELSE [helper EXCEPT !.listeners = @ \union {what}]
    /\ pipes' = [pipes EXCEPT !.request = NoRequest,
                              !.response = [op |-> "expose", what |-> what,
                                            result |-> IF ListenerFails(what.host) THEN -1 ELSE 0]]
    /\ UNCHANGED <<pub_left, pub, pub_tasks, serving, clients, served, bridges>>

\* The connections that wait for a listener are reset with it.
Reset == [c \in Clients |-> [clients[c] EXCEPT !.state = IF @ = "waits" THEN "closed" ELSE @]]

\* BYE is answered first; the end of the helper comes after.
HelperBye ==
    /\ helper.state = "runs" /\ HasCommand /\ pipes.request.op = "bye"
    /\ helper' = [helper EXCEPT !.state = "ends", !.listeners = {}]
    /\ pipes' = [pipes EXCEPT !.request = NoRequest, !.response = [op |-> "bye", result |-> 0]]
    /\ clients' = Reset
    /\ UNCHANGED <<pub_left, pub, pub_tasks, serving, served, bridges>>

\* POLLHUP: PRoot's end of the pipe is closed, also that the tracees have inherited.
HelperHangup ==
    /\ helper.state = "runs" /\ Hangup
    /\ helper' = [helper EXCEPT !.state = "ends", !.listeners = {}]
    /\ clients' = Reset
    /\ UNCHANGED <<pub_left, pub, pipes, pub_tasks, serving, served, bridges>>

\* "kill any lingering bridge children": one after the other, then the helper exits.
CutOff(c) ==
    /\ clients' = [clients EXCEPT ![c].state = "closed"]
    /\ served' = [served EXCEPT ![c].state = "closed"]
    /\ bridges' = bridges \ {c}

HelperKills ==
    /\ helper.state = "ends"
    /\ IF bridges = {} THEN helper' = Killed /\ UNCHANGED <<clients, served, bridges>>
       ELSE \E c \in bridges : CutOff(c) /\ UNCHANGED helper
    /\ UNCHANGED <<pub_left, pub, pipes, pub_tasks, serving>>

\* accept_and_fork(): the connection of a client is accepted, then the helper connects to the
\* server, and waits while the server's queue is full.
Accepts(c) ==
    /\ helper.state = "runs" /\ ~HasCommand /\ clients[c].state = "waits"
    /\ clients[c].host \in HostPorts(helper.listeners)
    /\ helper' = [helper EXCEPT !.state = "connects", !.connects = c]
    /\ clients' = [clients EXCEPT ![c].state = "open"]
    /\ UNCHANGED <<pub_left, pub, pipes, pub_tasks, serving, served, bridges>>

Queued == {c \in Clients : served[c].state = "queued"}

ConnectFails(c) ==
    /\ PortOf(helper.listeners, clients[c].host) \notin serving
    /\ clients' = [clients EXCEPT ![c].state = "closed"]
    /\ UNCHANGED <<served, bridges>>

ForksBridge(c) ==
    /\ PortOf(helper.listeners, clients[c].host) \in serving
    /\ Cardinality(Queued) < UnixBacklog
    /\ served' = [served EXCEPT ![c].state = "queued"]
    /\ bridges' = bridges \union {c}
    /\ UNCHANGED clients

accept_and_fork ==
    LET c == helper.connects IN
    /\ helper.state = "connects"
    /\ ConnectFails(c) \/ ForksBridge(c)
    /\ helper' = [helper EXCEPT !.state = "runs", !.connects = NoClient]
    /\ UNCHANGED <<pub_left, pub, pipes, pub_tasks, serving>>

-----------------------------------------------------------------------------
(* The bridges and the clients. *)

ClientGone(c) == clients[c].state \in {"shut", "closed"}

\* The end of the server's stream is not one of the bridge.
bridge_fds_one_way(c) ==
    /\ c \in bridges
    /\ \/ ClientGone(c) /\ CutOff(c)
       \/ /\ ~ClientGone(c) /\ clients[c].got < served[c].sent
          /\ clients' = [clients EXCEPT ![c].got = served[c].sent]
          /\ UNCHANGED <<served, bridges>>
    /\ UNCHANGED <<pub_left, pub, pipes, helper, pub_tasks, serving>>

\* A cycle of bridge_fds(): the end of the client's stream, or the end of the server's, even
\* with replies that wait, ends the bridge; otherwise what there is is forwarded.
bridge_fds(c) ==
    /\ c \in bridges
    /\ \/ (ClientGone(c) \/ served[c].state = "closed") /\ CutOff(c)
       \/ /\ ~ClientGone(c) /\ served[c].state # "closed" /\ clients[c].got < served[c].sent
          /\ clients' = [clients EXCEPT ![c].got = served[c].sent]
          /\ UNCHANGED <<served, bridges>>
    /\ UNCHANGED <<pub_left, pub, pipes, helper, pub_tasks, serving>>

ClientConnects(c, host) ==
    /\ clients[c].state = "new" /\ host \in HostPorts(helper.listeners)
    /\ clients' = [clients EXCEPT ![c].state = "waits", ![c].host = host]
    /\ UNCHANGED <<pub_left, pub, pipes, helper, pub_tasks, serving, served, bridges>>

\* shutdown(SHUT_WR), or the connection is closed.
ClientEnds(c, how) ==
    /\ clients[c].state = "open" \/ (clients[c].state = "shut" /\ how = "closed")
    /\ clients' = [clients EXCEPT ![c].state = how]
    /\ UNCHANGED <<pub_left, pub, pipes, helper, pub_tasks, serving, served, bridges>>

-----------------------------------------------------------------------------

PubInit ==
    /\ pub_left \in PubOptions
    /\ pub = [doing |-> "options", proxy |-> FALSE, expose |-> {}, pid |-> FALSE, next |-> "options"]
    /\ pipes = [request |-> NoRequest, response |-> NoRequest]
    /\ helper = Killed
    /\ pub_tasks = {} /\ serving = {}
    /\ clients = [c \in Clients |-> [state |-> "new", host |-> 0, got |-> 0]]
    /\ served = [c \in Clients |-> [state |-> "none", sent |-> 0]]
    /\ bridges = {}

ProotSteps == vnp_configure \/ vnp_add_expose \/ ExposeAnswered \/ Launch \/ StopHelper
HelperSteps == helper_handle_expose \/ HelperBye \/ HelperHangup \/ HelperKills \/ accept_and_fork
               \/ \E c \in Clients : Accepts(c)
ServerSteps == \E c \in Clients : ServerAccepts(c) \/ ServerReplies(c) \/ ServerCloses(c)

PubNext ==
    \/ ProotSteps \/ HelperSteps \/ ServerSteps \/ ProotEnds
    \/ \E t \in PubTasks : PubFork(t) \/ PubRemoved(t) \/ OrphanEnds(t)
    \/ \E p \in pub.expose : Serve(p.port)
    \/ \E c \in Clients : \/ bridge_fds(c)
                          \/ \E p \in pub.expose : ClientConnects(c, p.host)
                          \/ \E how \in {"shut", "closed"} : ClientEnds(c, how)

\* PRoot handles its options and the answers of the helper; the helper and the bridges poll; a
\* server accepts the connections it is offered.
PubFairness ==
    /\ WF_pubVars(ProotSteps) /\ WF_pubVars(HelperSteps)
    /\ \A c \in Clients : WF_pubVars(bridge_fds(c)) /\ WF_pubVars(ServerAccepts(c))

PubSpec == PubInit /\ [][PubNext]_pubVars /\ PubFairness

-----------------------------------------------------------------------------

\* vnp_add_expose() with its rollback, vnp_send_expose() and the helper together: when PRoot
\* waits for no answer and the helper runs, the helper listens for exactly the publications of
\* expose_map.
PublicationAgrees ==
    pub.doing # "gone" /\ ~Waits /\ pub.pid => helper.listeners = pub.expose

\* vnp_helper_request() has no time limit: every request is answered all the same, as long as
\* no more connections come than the server's queue holds.
RequestsAnswered == (Waits /\ Cardinality(Clients) <= UnixBacklog) ~> ~Waits

\* "B6: bridge children ... are tracked here so they can be killed when the helper exits": when
\* PRoot and its tracees are gone no bridge stays, and no client is left connected to nobody,
\* whichever of BYE, SIGTERM and the closed pipe came first.
BridgesEnd ==
    Hangup ~> (bridges = {} /\ \A c \in Clients : clients[c].state \notin {"open", "shut"})

\* "-p 8080:8080 ... Ahora localhost:8080 desde el host llega al servidor en el guest", "REMOVED
\* fires only when the last talloc reference drops": the helper listens as long as there is a
\* tracee.
PublishedWhileAlive ==
    GuestMoves /\ pub_tasks # {} => helper.listeners = pub.expose

\* "B6: ... killed when the helper exits": a helper that is gone has left no bridge.
NoOrphanBridges == helper.state = "gone" => bridges = {}

\* "Bridge: bidirectional data forwarding between two fds": what the server has sent before
\* it closed the connection reaches a client that reads to the end.
RepliesForwarded ==
    \A c \in Clients :
       served[c].state = "closed" /\ c \notin bridges /\ GuestMoves => clients[c].got = served[c].sent

================================================================================
