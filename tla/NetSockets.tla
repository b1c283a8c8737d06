------------------------------ MODULE NetSockets -------------------------------
(***************************************************************************)
(* The static part of extension/net_policy: the rules of the command line, *)
(* with the domains that are resolved before the guest starts, the ports   *)
(* remembered from bind(2) to listen(2), and the DNS queries of the guest, *)
(* which PRoot answers itself from the addresses it has resolved.          *)
(*                                                                         *)
(* The guest is one process with several threads: they share descriptors,  *)
(* and PRoot knows them by their thread ids.                               *)
(***************************************************************************)
EXTENDS Integers, Sequences, FiniteSets, Functions

CONSTANTS
    Threads, Fds,
    Answers,      \* Answers[n]: the addresses the host resolves the domain n to
    Ports,        \* ports the guest binds to; 0 asks the kernel for one of Ephemeral
    Ephemeral,
    Sessions,     \* what the guest does (habits), the options of PRoot (options), among them
                  \* --net-allow-bind and --net-deny-bind (binds: sets of ports, or of AnyPort)
    MaxPolicyRules, MaxBinds, MaxQueries, \* 128, 256 and 64 in the code
    MaxSockets, MaxSent                   \* bounds of the model

(***************************************************************************)
(* "listens", "queries": what the guest does; "reuses": it closes sockets  *)
(* that have answers to come, and their descriptors are used again.        *)
(***************************************************************************)
SocketHabits == {"listens", "queries", "reuses"}

ASSUME SocketsAssumption ==
    /\ 0 \notin Ephemeral \union Threads /\ MaxBinds \in Nat \ {0} /\ MaxQueries \in Nat \ {0}
    /\ \A s \in Sessions : s.habits \subseteq SocketHabits

VARIABLES
    guest,    \* what the guest does
    options,  \* those that are left; failed, whether one could not be applied
    policy,   \* the rules of NetPolicyConfig: mode, allow, deny, binds
    binds,    \* the table of remember_bind()
    queries,  \* the table of dns_remember_query()
    fds,      \* what each descriptor is
    opened,   \* how many files and sockets there have been
    sent,     \* the queries PRoot has taken: through which socket; other queries: 0
    got,      \* which answers have been received, and from which file or socket
    refused   \* the last socket listen() was refused for

socketVars == <<guest, options, policy, binds, queries, fds, opened, sent, got, refused>>

\* The guest runs when all the options are applied.
Running == options = [left |-> <<>>, failed |-> FALSE]

--------------------------------------------------------------------------------
(* The rules.  That of a domain matches nothing: the addresses it is      *)
(* resolved to follow, as rules of their own.                             *)

DomainRule(n) == [domain |-> TRUE, host |-> n, resolved |-> FALSE]
AddressRule(a, source) == [domain |-> FALSE, host |-> a, source |-> source]

Addresses(rules) == {rules[i].host : i \in {j \in DOMAIN rules : ~rules[j].domain}}

\* Addresses that have a rule get no second one.
resolve_rule(rules, i) ==
    IF ~rules[i].domain \/ rules[i].resolved THEN rules
    ELSE LET n == rules[i].host
             fresh == Answers[n] \ Addresses(rules)
             new == CHOOSE order \in Bijection(1 .. Cardinality(fresh), fresh) : TRUE
         IN  [rules EXCEPT ![i].resolved = TRUE] \o [j \in DOMAIN new |-> AddressRule(new[j], n)]

resolve_pending_domains(rules) ==
    LET after[i \in 0 .. Len(rules)] == IF i = 0 THEN rules ELSE resolve_rule(after[i - 1], i)
    IN  after[Len(rules)]

\* Rules that are too many fail, and domains without addresses where they are resolved.
Fails(p) ==
    \E rules \in {p.allow, p.deny} :
        \/ Len(rules) > MaxPolicyRules
        \/ p.mode # "off" /\ \E i \in DOMAIN rules : rules[i].domain /\ Answers[rules[i].host] = {}

OptionPolicy(mode) == [opt |-> "policy", mode |-> mode]
OptionRule(list, rule) == [opt |-> list, rule |-> rule]

net_policy_configure(p, mode) ==
    LET q == [p EXCEPT !.mode = mode]
    IN  IF mode = "off" THEN q
        ELSE [q EXCEPT !.allow = resolve_pending_domains(@), !.deny = resolve_pending_domains(@)]

net_policy_add_destination(p, list, rule) ==
    LET q == [p EXCEPT ![list] = Append(@, rule)]
    IN  IF rule.domain /\ p.mode # "off" THEN [q EXCEPT ![list] = resolve_pending_domains(@)] ELSE q

\* An option that fails ends PRoot.
Option ==
    /\ options.left # <<>> /\ ~options.failed
    /\ LET o == Head(options.left) IN
          policy' = IF o.opt = "policy" THEN net_policy_configure(policy, o.mode)
                    ELSE net_policy_add_destination(policy, o.opt, o.rule)
    /\ options' = [left |-> Tail(options.left), failed |-> Fails(policy')]
    /\ UNCHANGED <<guest, binds, queries, fds, opened, sent, got, refused>>

--------------------------------------------------------------------------------
(* The descriptors.                                                       *)

Closed == [kind |-> "closed", serial |-> 0]
File(n) == [kind |-> "file", serial |-> n]

\* port: what the socket is bound to, asked: what the last bind() was called with, by whom.
Socket(n) ==
    [kind |-> "socket", serial |-> n, port |-> 0, asked |-> 0, by |-> 0, listening |-> FALSE]

IsSocket(f) == fds[f].kind = "socket"

OpenFd(f) ==
    /\ Running /\ guest # {} /\ fds[f] = Closed /\ opened < MaxSockets
    /\ \E x \in {File(opened + 1), Socket(opened + 1)} : fds' = [fds EXCEPT ![f] = x]
    /\ opened' = opened + 1
    /\ UNCHANGED <<guest, options, policy, binds, queries, sent, got, refused>>

Answered(i) == \E g \in got : g.query = i
Awaits(f) == \E i \in DOMAIN sent : sent[i] = fds[f].serial /\ ~Answered(i)

\* PRoot does not look at close(2).
CloseFd(f) ==
    /\ Running /\ fds[f] # Closed
    /\ "reuses" \in guest \/ ~IsSocket(f) \/ ~Awaits(f)
    /\ fds' = [fds EXCEPT ![f] = Closed]
    /\ UNCHANGED <<guest, options, policy, binds, queries, opened, sent, got, refused>>

--------------------------------------------------------------------------------
(* Ports.                                                                 *)

AnyPort == 65536 \* the rule "*"

bind_matches(ports, port) == AnyPort \in ports \/ port \in ports

Allowed(port) ==
    /\ ~bind_matches(policy.binds.deny, port)
    /\ policy.mode = "deny" => bind_matches(policy.binds.allow, port)

BoundBy(t, f) == {i \in DOMAIN binds : binds[i].pid = t /\ binds[i].fd = f}

\* A table that is full forgets what is new.
remember_bind(t, f, port) ==
    IF BoundBy(t, f) # {}
    THEN [i \in DOMAIN binds |-> IF i \in BoundBy(t, f) THEN [binds[i] EXCEPT !.port = port] ELSE binds[i]]
    ELSE IF Len(binds) < MaxBinds THEN Append(binds, [pid |-> t, fd |-> f, port |-> port])
    ELSE binds

remembered_bind(t, f) ==
    IF BoundBy(t, f) = {} THEN 0 ELSE binds[CHOOSE i \in BoundBy(t, f) : TRUE].port

\* bind(2) to an address with a port, which is remembered whatever becomes of the call; the
\* kernel refuses a second one.
Bind(t, f, port) ==
    /\ Running /\ "listens" \in guest /\ policy.mode # "off" /\ IsSocket(f)
    /\ binds' = remember_bind(t, f, port)
    /\ LET asked == [fds[f] EXCEPT !.asked = port, !.by = t] IN
          \/ /\ fds[f].port = 0 /\ (port = 0 \/ Allowed(port))
             /\ \E p \in IF port = 0 THEN Ephemeral ELSE {port} :
                   fds' = [fds EXCEPT ![f] = [asked EXCEPT !.port = p]]
          \/ fds' = [fds EXCEPT ![f] = asked]
    /\ UNCHANGED <<guest, options, policy, queries, opened, sent, got, refused>>

\* listen(2); the kernel binds a socket that is not bound yet.
Listen(t, f) ==
    /\ Running /\ "listens" \in guest /\ policy.mode # "off" /\ IsSocket(f) /\ ~fds[f].listening
    /\ IF Allowed(remembered_bind(t, f))
       THEN /\ \E p \in IF fds[f].port = 0 THEN Ephemeral ELSE {fds[f].port} :
                  fds' = [fds EXCEPT ![f] = [@ EXCEPT !.port = p, !.listening = TRUE]]
            /\ UNCHANGED refused
       ELSE /\ refused' =
                  {[socket |-> fds[f], pid |-> t, forgotten |-> BoundBy(t, f) = {}]}
            /\ UNCHANGED fds
    /\ UNCHANGED <<guest, options, policy, binds, queries, opened, sent, got>>

--------------------------------------------------------------------------------
(* DNS.                                                                   *)

\* The table does not shrink; once it is full the last query is replaced.
dns_remember_query(qs, q) ==
    IF Len(qs) = MaxQueries THEN [qs EXCEPT ![MaxQueries] = q] ELSE Append(qs, q)

Query(t, f, n) == [pid |-> t, fd |-> f, query |-> n, ready |-> n # 0]

dns_prepare_response(n) ==
    {policy.allow[i].host :
        i \in {j \in DOMAIN policy.allow : ~policy.allow[j].domain /\ policy.allow[j].source = n}}

\* sendto(2) of a query for addresses: PRoot answers, and the call ends.
SendQuery(t, f) ==
    /\ Running /\ "queries" \in guest /\ policy.mode # "off" /\ IsSocket(f) /\ Len(sent) < MaxSent
    /\ queries' = dns_remember_query(queries, Query(t, f, Len(sent) + 1))
    /\ sent' = Append(sent, fds[f].serial)
    /\ UNCHANGED <<guest, options, policy, binds, fds, opened, got, refused>>

\* Any other query is remembered twice, and left to the rules for its destination.
SendOther(t, f) ==
    /\ Running /\ "queries" \in guest /\ policy.mode # "off" /\ IsSocket(f) /\ Len(sent) < MaxSent
    /\ queries' = dns_remember_query(dns_remember_query(queries, Query(t, f, 0)), Query(t, f, 0))
    /\ sent' = Append(sent, 0)
    /\ UNCHANGED <<guest, options, policy, binds, fds, opened, got, refused>>

dns_pending_of_thread(t, f) == {i \in DOMAIN queries : queries[i].pid = t /\ queries[i].ready}

dns_pending_query(t, f) ==
    {i \in DOMAIN queries : queries[i].pid = t /\ queries[i].fd = f /\ queries[i].ready}

\* recvfrom(2), recvmsg(2) or read(2) from a descriptor with a pending query: the last one.
Receive(t, f) ==
    /\ Running /\ policy.mode # "off" /\ fds[f] # Closed /\ dns_pending_query(t, f) # {}
    /\ LET i == CHOOSE x \in dns_pending_query(t, f) : \A y \in dns_pending_query(t, f) : y <= x IN
          /\ queries' = [queries EXCEPT ![i].ready = FALSE]
          /\ got' = got \union {[query |-> queries[i].query, serial |-> fds[f].serial]}
    /\ UNCHANGED <<guest, options, policy, binds, fds, opened, sent, refused>>

--------------------------------------------------------------------------------
SocketsInit ==
    /\ \E s \in Sessions :
          /\ guest = s.habits /\ options = [left |-> s.options, failed |-> FALSE]
          /\ policy = [mode |-> "off", allow |-> <<>>, deny |-> <<>>, binds |-> s.binds]
    /\ binds = <<>> /\ queries = <<>>
    /\ fds = [f \in Fds |-> Closed] /\ opened = 0
    /\ sent = <<>> /\ got = {} /\ refused = {}

SocketsNext ==
    \/ Option
    \/ \E f \in Fds : OpenFd(f) \/ CloseFd(f)
    \/ \E t \in Threads, f \in Fds :
          \/ \E port \in Ports : Bind(t, f, port)
          \/ Listen(t, f) \/ SendQuery(t, f) \/ SendOther(t, f) \/ Receive(t, f)

SocketsSpec == SocketsInit /\ [][SocketsNext]_socketVars

--------------------------------------------------------------------------------
(* Properties.                                                            *)

\* resolve_pending_domains(), whatever the order of the options: with a policy, no domain is
\* left to be resolved when the guest starts, and each of its addresses has a rule.
DomainsFixed ==
    Running /\ policy.mode # "off" =>
        \A list \in {"allow", "deny"} : \A i \in DOMAIN policy[list] :
            policy[list][i].domain =>
                policy[list][i].resolved /\ Answers[policy[list][i].host] \subseteq Addresses(policy[list])

\* "las consultas DNS UDP del guest se contestan de forma sintetica usando unicamente ese
\* snapshot": a query for a domain that was allowed is answered with its addresses.
DomainsAnswered ==
    Running /\ policy.mode # "off" =>
        \A i \in DOMAIN policy.allow : policy.allow[i].domain =>
            dns_prepare_response(policy.allow[i].host) = Answers[policy.allow[i].host]

\* listen(2) follows the rules for ports.  A socket that listens on a port the guest has asked
\* for has one that is allowed, whoever called bind(2) and whatever its descriptor was before;
\* a socket bound to an allowed port is refused only to another thread than the one that called
\* bind(2), after a bind(2) that has failed, or when the table was full.
ListenFollowsRules ==
    /\ \A f \in Fds : IsSocket(f) /\ fds[f].listening /\ fds[f].port \notin Ephemeral =>
          Allowed(fds[f].port)
    /\ \A r \in refused : r.socket.port # 0 /\ Allowed(r.socket.port) =>
          r.socket.by # r.pid \/ r.socket.asked # r.socket.port \/ r.forgotten

\* The answers PRoot makes are read once, and from the socket the query was sent through,
\* unless the guest has closed that socket before; while the table has room none is lost.
AnswersReachAsker ==
    /\ "reuses" \notin guest => \A g \in got : g.serial = sent[g.query]
    /\ Len(queries) < MaxQueries =>
          \A i \in DOMAIN sent : sent[i] # 0 /\ ~Answered(i) =>
             \E q \in DOMAIN queries : queries[q].query = i /\ queries[q].ready

================================================================================
