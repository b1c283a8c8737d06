------------------------------ MODULE NetworkProofs ------------------------------
(***************************************************************************)
(* Proofs about sockets, for any number of threads, of descriptors, of     *)
(* ports and of queries and any size of the tables: the answers to DNS     *)
(* queries are read from the sockets the queries were sent through,        *)
(* listen(2) follows the rules for ports, and the port that is written to  *)
(* the guest's buffer can be bound when it is written, and still can when  *)
(* the kernel binds it if nobody else binds a port meanwhile.              *)
(***************************************************************************)
EXTENDS NetSockets, PortSwitch, WellFoundedInduction, TLAPS

\* Time limits of the provers, for every leaf below.
USE ZenonT(30), SMTT(30)

FileType == [kind : {"file"}, serial : Nat \ {0}]
PortValue == Ports \cup Ephemeral \cup {0}
SocketType ==
    [kind : {"socket"}, serial : Nat \ {0}, port : PortValue, asked : PortValue,
     by : Threads \cup {0}, listening : BOOLEAN]
FdType == {Closed} \cup FileType \cup SocketType
FdTypes == fds \in [Fds -> FdType] /\ opened \in Nat

\* The guest has not run yet.
Untouched ==
    /\ fds = [f \in Fds |-> Closed] /\ binds = <<>> /\ queries = <<>>
    /\ sent = <<>> /\ got = {} /\ refused = {}

Ordered == Running \/ Untouched

--------------------------------------------------------------------------------
(* Descriptors.                                                           *)

LEMMA NewFd ==
    ASSUME NEW n \in Nat \ {0}
    PROVE  File(n) \in FileType /\ Socket(n) \in SocketType /\ Closed \notin FileType \cup SocketType
<1>1. File(n) \in FileType /\ Socket(n) \in SocketType
  BY DEF File, FileType, Socket, SocketType, PortValue
<1>2. Closed \notin FileType \cup SocketType
  BY DEF Closed, FileType, SocketType
<1> QED
  BY <1>1, <1>2

\* What a descriptor is decides its fields.
LEMMA SocketFacts ==
    ASSUME FdTypes, NEW f \in Fds
    PROVE  /\ IsSocket(f) <=> fds[f] \in SocketType
           /\ IsSocket(f) => fds[f] # Closed /\ fds[f].serial \in Nat \ {0}
<1>1. fds[f] \in FdType
  BY DEF FdTypes
<1>2. CASE fds[f] = Closed
  BY <1>2 DEF IsSocket, Closed, SocketType
<1>3. CASE fds[f] \in FileType
  BY <1>3 DEF IsSocket, FileType, SocketType
<1>4. CASE fds[f] \in SocketType
  BY SMTT(30), <1>4 DEF IsSocket, Closed, SocketType
<1> QED
  BY <1>1, <1>2, <1>3, <1>4 DEF FdType

LEMMA OpenTypes ==
    ASSUME FdTypes, NEW f \in Fds, OpenFd(f)
    PROVE  FdTypes'
<1>1. opened \in Nat /\ fds \in [Fds -> FdType]
  BY DEF FdTypes
<1>2. File(opened + 1) \in FdType /\ Socket(opened + 1) \in FdType
  <2>1. opened + 1 \in Nat \ {0}
    BY <1>1
  <2> QED
    BY <2>1, NewFd DEF FdType
<1> QED
  BY SMTT(30), <1>1, <1>2 DEF OpenFd, FdTypes

LEMMA CloseTypes ==
    ASSUME FdTypes, NEW f \in Fds, CloseFd(f)
    PROVE  FdTypes'
BY DEF CloseFd, FdTypes, FdType

BoundAs(t, f, port, p) ==
    fds' = [fds EXCEPT ![f] = [fds[f] EXCEPT !.asked = port, !.by = t, !.port = p]]
MayBe(f, port, p) ==
    \/ p = fds[f].port
    \/ fds[f].port = 0 /\ (IF port = 0 THEN p \in Ephemeral ELSE p = port /\ Allowed(port))

\* bind(2) and listen(2) change the port of a socket, never which socket it is.
LEMMA BindFds ==
    ASSUME FdTypes, NEW t \in Threads, NEW f \in Fds, NEW port \in Ports, Bind(t, f, port)
    PROVE  \E p \in PortValue : MayBe(f, port, p) /\ BoundAs(t, f, port, p)
<1> DEFINE asked == [fds[f] EXCEPT !.asked = port, !.by = t]
<1>1. fds[f] \in SocketType
  BY ZenonT(30), SocketFacts DEF Bind
<1>2. CASE fds' = [fds EXCEPT ![f] = asked]
  <2>1. asked = [fds[f] EXCEPT !.asked = port, !.by = t, !.port = fds[f].port]
    BY ZenonT(30), <1>1 DEF SocketType
  <2>2. fds[f].port \in PortValue
    BY <1>1 DEF SocketType
  <2> HIDE DEF asked
  <2> QED
    BY ZenonT(30), <1>2, <2>1, <2>2 DEF MayBe, BoundAs
<1>3. CASE /\ fds[f].port = 0 /\ (port = 0 \/ Allowed(port))
           /\ \E p \in IF port = 0 THEN Ephemeral ELSE {port} :
                 fds' = [fds EXCEPT ![f] = [asked EXCEPT !.port = p]]
  <2>1. PICK p \in IF port = 0 THEN Ephemeral ELSE {port} :
               fds' = [fds EXCEPT ![f] = [asked EXCEPT !.port = p]]
    BY ZenonT(30), <1>3
  <2>2. [asked EXCEPT !.port = p] = [fds[f] EXCEPT !.asked = port, !.by = t, !.port = p]
    BY <1>1 DEF SocketType
  <2>3. p \in PortValue
    BY DEF PortValue
  <2> HIDE DEF asked
  <2> QED
    BY ZenonT(30), <1>3, <2>1, <2>2, <2>3 DEF MayBe, BoundAs
<1> QED
  BY ZenonT(30), <1>2, <1>3 DEF Bind

LEMMA BindTypes ==
    ASSUME FdTypes, NEW t \in Threads, NEW f \in Fds, NEW port \in Ports, Bind(t, f, port)
    PROVE  /\ FdTypes'
           /\ \A g \in Fds : fds'[g].serial = fds[g].serial /\ (IsSocket(g)' <=> IsSocket(g))
<1>1. fds[f] \in SocketType
  BY ZenonT(30), SocketFacts DEF Bind
<1>2. PICK p \in PortValue : BoundAs(t, f, port, p)
  BY BindFds
<1> DEFINE new == [fds[f] EXCEPT !.asked = port, !.by = t, !.port = p]
<1>3. new \in SocketType /\ new.serial = fds[f].serial /\ new.kind = fds[f].kind
  BY ZenonT(30), <1>1 DEF SocketType, PortValue
<1> HIDE DEF new
<1>4. fds' = [fds EXCEPT ![f] = new] /\ opened' = opened
  BY ZenonT(30), <1>2 DEF new, Bind, BoundAs
<1>5. fds' \in [Fds -> FdType]
  BY <1>3, <1>4 DEF FdTypes, FdType
<1>6. \A g \in Fds : fds'[g].serial = fds[g].serial /\ fds'[g].kind = fds[g].kind
  BY <1>3, <1>4 DEF FdTypes
<1> QED
  BY <1>4, <1>5, <1>6 DEF FdTypes, IsSocket

LEMMA ListenFds ==
    ASSUME FdTypes, NEW t \in Threads, NEW f \in Fds, Listen(t, f)
    PROVE  \/ fds' = fds
           \/ /\ UNCHANGED refused
              /\ \E p \in PortValue :
                 /\ IF fds[f].port = 0 THEN p \in Ephemeral ELSE p = fds[f].port
                 /\ fds' = [fds EXCEPT ![f] = [fds[f] EXCEPT !.port = p, !.listening = TRUE]]
<1>1. fds[f] \in SocketType /\ fds \in [Fds -> FdType]
  BY ZenonT(30), SocketFacts DEF Listen, FdTypes
<1>2. CASE ~Allowed(remembered_bind(t, f))
  BY <1>2 DEF Listen
<1>3. CASE Allowed(remembered_bind(t, f))
  <2>1. PICK p \in IF fds[f].port = 0 THEN Ephemeral ELSE {fds[f].port} :
               fds' = [fds EXCEPT ![f] = [fds[f] EXCEPT !.port = p, !.listening = TRUE]]
    BY ZenonT(30), <1>1, <1>3 DEF Listen
  <2>2. p \in PortValue
    BY <1>1 DEF PortValue, SocketType
  <2> QED
    BY ZenonT(30), <1>3, <2>1, <2>2 DEF Listen
<1> QED
  BY ZenonT(30), <1>2, <1>3

LEMMA ListenTypes ==
    ASSUME FdTypes, NEW t \in Threads, NEW f \in Fds, Listen(t, f)
    PROVE  /\ FdTypes'
           /\ \A g \in Fds : fds'[g].serial = fds[g].serial /\ (IsSocket(g)' <=> IsSocket(g))
<1>1. fds[f] \in SocketType /\ opened' = opened
  BY ZenonT(30), SocketFacts DEF Listen
<1>2. CASE fds' = fds
  BY <1>1, <1>2 DEF FdTypes, IsSocket
<1>3. CASE \E p \in PortValue : fds' = [fds EXCEPT ![f] = [fds[f] EXCEPT !.port = p, !.listening = TRUE]]
  <2>1. PICK p \in PortValue : fds' = [fds EXCEPT ![f] = [fds[f] EXCEPT !.port = p, !.listening = TRUE]]
    BY ZenonT(30), <1>3
  <2> DEFINE new == [fds[f] EXCEPT !.port = p, !.listening = TRUE]
  <2>2. new \in SocketType /\ new.serial = fds[f].serial /\ new.kind = fds[f].kind
    BY ZenonT(30), <1>1 DEF SocketType, PortValue
  <2>3. fds' = [fds EXCEPT ![f] = new]
    BY <2>1
  <2> HIDE DEF new
  <2>4. fds' \in [Fds -> FdType]
    BY <2>2, <2>3 DEF FdTypes, FdType
  <2>5. \A g \in Fds : fds'[g].serial = fds[g].serial /\ fds'[g].kind = fds[g].kind
    BY <2>2, <2>3 DEF FdTypes
  <2> QED
    BY <1>1, <2>4, <2>5 DEF FdTypes, IsSocket
<1> QED
  BY ZenonT(30), <1>2, <1>3, ListenFds

--------------------------------------------------------------------------------
(* DNS queries.                                                           *)

QueryType == [pid : Threads, fd : Fds, query : Nat, ready : BOOLEAN]
AnswerTypes ==
    /\ FdTypes /\ Ordered
    /\ queries \in Seq(QueryType) /\ Len(queries) <= MaxQueries
    /\ sent \in Seq(Nat)
    /\ got \subseteq [query : Nat, serial : Nat]

Pending(i) == i \in DOMAIN queries /\ queries[i].ready

\* A query that is ready has been sent and not been answered, and is ready once only; its socket
\* is still there if the guest closes none that has answers to come.
AnswerInv ==
    /\ AnswerTypes
    /\ \A g \in got : g.query \in DOMAIN sent
    /\ \A i \in DOMAIN queries : Pending(i) =>
          /\ queries[i].query \in DOMAIN sent /\ ~Answered(queries[i].query)
          /\ \A j \in DOMAIN queries : Pending(j) /\ queries[j].query = queries[i].query => j = i
          /\ "reuses" \notin guest =>
                IsSocket(queries[i].fd) /\ fds[queries[i].fd].serial = sent[queries[i].query]
    /\ AnswersReachAsker

\* What CHOOSE takes for the greatest of a set of numbers is a member of it.
LEMMA GreatestIsMember ==
    ASSUME NEW n \in Nat, NEW S \in SUBSET (1 .. n), S # {}
    PROVE  (CHOOSE x \in S : \A y \in S : y <= x) \in S
<1> DEFINE U == {n - x : x \in S}
<1>1. U \in SUBSET Nat /\ U # {}
  <2>1. \A x \in S : n - x \in Nat
    OBVIOUS
  <2> QED
    BY ZenonT(30), <2>1
<1> HIDE DEF U
<1>2. PICK u \in U : \A v \in U : ~(<<v, u>> \in OpToRel(<, Nat))
  BY ZenonT(30), <1>1, NatLessThanWellFounded, WFMin
<1>3. \A y \in Nat, z \in Nat : y < z => <<y, z>> \in OpToRel(<, Nat)
  BY DEF OpToRel
<1>4. \A v \in U : ~(v < u)
  BY ZenonT(30), <1>1, <1>2, <1>3
<1>5. PICK x \in S : u = n - x
  BY ZenonT(30), <1>2 DEF U
<1>6. \A y \in S : ~(n - y < n - x)
  BY <1>4, <1>5 DEF U
<1>7. \A y \in S : y <= x
  BY <1>6
<1> QED
  BY ZenonT(30), <1>7

LEMMA QueryFields ==
    ASSUME queries \in Seq(QueryType), NEW i \in DOMAIN queries
    PROVE  queries[i] \in QueryType /\ queries[i].query \in Nat /\ queries[i].fd \in Fds
<1>1. queries[i] \in QueryType
  OBVIOUS
<1> QED
  BY <1>1 DEF QueryType

LEMMA QueryFacts ==
    ASSUME NEW t \in Threads, NEW f \in Fds, NEW n \in Nat
    PROVE  /\ Query(t, f, n) \in QueryType
           /\ Query(t, f, n).fd = f /\ Query(t, f, n).query = n
           /\ Query(t, f, n).ready <=> n # 0
<1>1. Query(t, f, n) \in QueryType /\ Query(t, f, n).fd = f /\ Query(t, f, n).query = n
  BY DEF Query, QueryType
<1>2. Query(t, f, n).ready <=> n # 0
  BY ZenonT(30) DEF Query
<1> QED
  BY <1>1, <1>2

\* The table after a query: the new one has a place, the others have kept theirs, and all of them
\* are there unless the table is full.
Adds(qs, q, new) ==
    /\ new \in Seq(QueryType) /\ Len(new) <= MaxQueries
    /\ \E n \in DOMAIN new :
          /\ new[n] = q
          /\ \A i \in DOMAIN new : i # n => i \in DOMAIN qs /\ new[i] = qs[i]
          /\ Len(new) < MaxQueries =>
                Len(qs) < MaxQueries /\ \A i \in DOMAIN qs : i \in DOMAIN new /\ i # n

LEMMA RememberAdds ==
    ASSUME NEW qs \in Seq(QueryType), Len(qs) <= MaxQueries, NEW q \in QueryType
    PROVE  Adds(qs, q, dns_remember_query(qs, q))
<1>1. MaxQueries \in Nat \ {0}
  BY SocketsAssumption
<1>2. CASE Len(qs) = MaxQueries
  <2> DEFINE new == [qs EXCEPT ![MaxQueries] = q]
  <2>1. dns_remember_query(qs, q) = new
    BY <1>2 DEF dns_remember_query
  <2>2. new \in Seq(QueryType) /\ Len(new) = MaxQueries /\ MaxQueries \in DOMAIN new
    BY <1>1, <1>2
  <2>3. new[MaxQueries] = q /\ \A i \in DOMAIN new : i # MaxQueries => i \in DOMAIN qs /\ new[i] = qs[i]
    BY <1>1, <1>2
  <2> HIDE DEF new
  <2> QED
    BY <1>1, <2>1, <2>2, <2>3 DEF Adds
<1>3. CASE Len(qs) # MaxQueries
  <2> DEFINE new == Append(qs, q)
  <2>1. dns_remember_query(qs, q) = new
    BY <1>3 DEF dns_remember_query
  <2>2. new \in Seq(QueryType) /\ Len(new) = Len(qs) + 1 /\ Len(new) \in DOMAIN new
    OBVIOUS
  <2>3. /\ new[Len(new)] = q
        /\ \A i \in DOMAIN new : i # Len(new) => i \in DOMAIN qs /\ new[i] = qs[i]
        /\ \A i \in DOMAIN qs : i \in DOMAIN new /\ i # Len(new)
    OBVIOUS
  <2>4. Len(new) <= MaxQueries /\ Len(qs) < MaxQueries
    BY <1>1, <1>3, <2>2
  <2> HIDE DEF new
  <2> QED
    BY <2>1, <2>2, <2>3, <2>4 DEF Adds
<1> QED
  BY <1>2, <1>3

\* What one or two calls of dns_remember_query() do to the queries that are ready.
Takes(qs, q, new) ==
    /\ new \in Seq(QueryType) /\ Len(new) <= MaxQueries
    /\ \E n \in DOMAIN new :
          /\ new[n] = q
          /\ \A i \in DOMAIN new : i # n /\ new[i].ready => i \in DOMAIN qs /\ new[i] = qs[i]
          /\ Len(new) < MaxQueries =>
                /\ Len(qs) < MaxQueries
                /\ \A i \in DOMAIN qs : qs[i].ready => i \in DOMAIN new /\ i # n /\ new[i] = qs[i]

LEMMA OnceTakes ==
    ASSUME NEW qs, NEW q, NEW new, Adds(qs, q, new)
    PROVE  Takes(qs, q, new)
<1>1. PICK n \in DOMAIN new :
          /\ new[n] = q
          /\ \A i \in DOMAIN new : i # n => i \in DOMAIN qs /\ new[i] = qs[i]
          /\ Len(new) < MaxQueries =>
                Len(qs) < MaxQueries /\ \A i \in DOMAIN qs : i \in DOMAIN new /\ i # n
  BY DEF Adds
<1> QED
  BY <1>1 DEF Takes, Adds

LEMMA TwiceTakes ==
    ASSUME NEW qs, NEW q, ~q.ready, NEW mid, Adds(qs, q, mid), NEW new, Adds(mid, q, new)
    PROVE  Takes(qs, q, new)
<1>1. PICK n \in DOMAIN mid :
          /\ mid[n] = q
          /\ \A i \in DOMAIN mid : i # n => i \in DOMAIN qs /\ mid[i] = qs[i]
          /\ Len(mid) < MaxQueries =>
                Len(qs) < MaxQueries /\ \A i \in DOMAIN qs : i \in DOMAIN mid /\ i # n
  BY DEF Adds
<1>2. PICK m \in DOMAIN new :
          /\ new[m] = q
          /\ \A i \in DOMAIN new : i # m => i \in DOMAIN mid /\ new[i] = mid[i]
          /\ Len(new) < MaxQueries =>
                Len(mid) < MaxQueries /\ \A i \in DOMAIN mid : i \in DOMAIN new /\ i # m
  BY DEF Adds
<1>3. \A i \in DOMAIN new : i # m /\ new[i].ready => i \in DOMAIN qs /\ new[i] = qs[i]
  BY <1>1, <1>2
<1>4. ASSUME Len(new) < MaxQueries
      PROVE  /\ Len(qs) < MaxQueries
             /\ \A i \in DOMAIN qs : qs[i].ready => i \in DOMAIN new /\ i # m /\ new[i] = qs[i]
  BY <1>1, <1>2, <1>4
<1> QED
  BY <1>2, <1>3, <1>4 DEF Takes, Adds

\* Steps that are not about queries, and leave the sockets that await answers what they are.
LEMMA AnswerFrame ==
    ASSUME AnswerInv, FdTypes', Ordered', UNCHANGED <<guest, queries, sent, got>>,
           "reuses" \notin guest =>
              \A i \in DOMAIN queries : Pending(i) =>
                 IsSocket(queries[i].fd)' /\ fds'[queries[i].fd].serial = fds[queries[i].fd].serial
    PROVE  AnswerInv'
<1>1. AnswerTypes'
  BY DEF AnswerInv, AnswerTypes
<1>2. AnswersReachAsker'
  BY DEF AnswerInv, AnswersReachAsker, Answered
<1>3. \A i \in DOMAIN queries' : Pending(i)' =>
          /\ queries'[i].query \in DOMAIN sent' /\ ~Answered(queries[i].query)'
          /\ \A j \in DOMAIN queries' : Pending(j)' /\ queries'[j].query = queries'[i].query => j = i
  BY DEF AnswerInv, Pending, Answered
<1>4. ASSUME "reuses" \notin guest', NEW i \in DOMAIN queries', Pending(i)'
      PROVE  IsSocket(queries[i].fd)' /\ fds'[queries'[i].fd].serial = sent'[queries'[i].query]
  <2>1. i \in DOMAIN queries /\ Pending(i)
    BY <1>4 DEF Pending
  <2>2. fds[queries[i].fd].serial = sent[queries[i].query]
    BY <1>4, <2>1 DEF AnswerInv
  <2> QED
    BY <1>4, <2>1, <2>2
<1> QED
  BY <1>1, <1>2, <1>3, <1>4 DEF AnswerInv

\* A query that is taken: its number is new, and it is ready if PRoot answers it.
LEMMA SendKeeps ==
    ASSUME AnswerInv, NEW f \in Fds, IsSocket(f), NEW q \in QueryType, q.fd = f,
           Takes(queries, q, queries'),
           q.ready => q.query = Len(sent) + 1 /\ sent' = Append(sent, fds[f].serial),
           ~q.ready => sent' = Append(sent, 0),
           UNCHANGED <<guest, options, fds, opened, got>>, Running
    PROVE  AnswerInv'
<1>1. PICK n \in DOMAIN queries' :
          /\ queries'[n] = q
          /\ \A i \in DOMAIN queries' :
                i # n /\ queries'[i].ready => i \in DOMAIN queries /\ queries'[i] = queries[i]
          /\ Len(queries') < MaxQueries =>
                /\ Len(queries) < MaxQueries
                /\ \A i \in DOMAIN queries :
                      queries[i].ready => i \in DOMAIN queries' /\ i # n /\ queries'[i] = queries[i]
  BY DEF Takes
<1>2. sent \in Seq(Nat) /\ FdTypes /\ got \subseteq [query : Nat, serial : Nat]
  BY DEF AnswerInv, AnswerTypes
<1>3. fds[f].serial \in Nat \ {0}
  BY <1>2, SocketFacts
<1>4. PICK x \in Nat : sent' = Append(sent, x) /\ (q.ready => x = fds[f].serial) /\ (~q.ready => x = 0)
  BY <1>3
<1>5. PICK last \in Nat : last = Len(sent) + 1
  BY <1>2
<1>6. /\ sent' \in Seq(Nat) /\ DOMAIN sent' = DOMAIN sent \cup {last} /\ last \notin DOMAIN sent
      /\ sent'[last] = x /\ \A i \in DOMAIN sent : sent'[i] = sent[i]
  BY <1>2, <1>4, <1>5
<1>7. AnswerTypes'
  BY <1>6 DEF AnswerInv, AnswerTypes, Takes, FdTypes, Ordered, Running
<1>8. \A g \in got' : g.query \in DOMAIN sent /\ sent'[g.query] = sent[g.query]
  BY <1>6 DEF AnswerInv
<1>9. ~Answered(last)' /\ \A i \in DOMAIN sent : Answered(i)' <=> Answered(i)
  BY <1>6, <1>8 DEF Answered
<1>10. q.ready => q.query = last
  BY <1>5
<1>11. ASSUME NEW i \in DOMAIN queries', Pending(i)', i # n
       PROVE  /\ i \in DOMAIN queries /\ Pending(i) /\ queries'[i] = queries[i]
              /\ queries[i].query \in DOMAIN sent
  <2>1. i \in DOMAIN queries /\ queries'[i] = queries[i]
    BY <1>1, <1>11 DEF Pending
  <2> QED
    BY <1>11, <2>1 DEF Pending, AnswerInv
<1>12. ASSUME NEW i \in DOMAIN queries', Pending(i)'
       PROVE  /\ queries'[i].query \in DOMAIN sent' /\ ~Answered(queries[i].query)'
              /\ \A j \in DOMAIN queries' : Pending(j)' /\ queries'[j].query = queries'[i].query => j = i
              /\ "reuses" \notin guest' =>
                    IsSocket(queries[i].fd)' /\ fds'[queries'[i].fd].serial = sent'[queries'[i].query]
  <2>1. CASE i = n
    <3>1. q.ready /\ queries'[i].query = last /\ queries'[i].fd = f
      BY <1>1, <1>10, <1>12, <2>1 DEF Pending
    <3>2. \A j \in DOMAIN queries' : Pending(j)' /\ j # n => queries'[j].query # last
      BY <1>6, <1>11
    <3>3. IsSocket(queries[i].fd)' /\ fds'[queries'[i].fd].serial = sent'[last]
      BY <1>4, <1>6, <3>1 DEF IsSocket
    <3> QED
      BY <1>6, <1>9, <2>1, <3>1, <3>2, <3>3
  <2>2. CASE i # n
    <3>1. i \in DOMAIN queries /\ Pending(i) /\ queries'[i] = queries[i] /\ queries[i].query \in DOMAIN sent
      BY <1>11, <1>12, <2>2
    <3>2. /\ ~Answered(queries[i].query)
          /\ \A j \in DOMAIN queries : Pending(j) /\ queries[j].query = queries[i].query => j = i
          /\ "reuses" \notin guest =>
                IsSocket(queries[i].fd) /\ fds[queries[i].fd].serial = sent[queries[i].query]
      BY <3>1 DEF AnswerInv
    <3>3. ASSUME NEW j \in DOMAIN queries', Pending(j)', queries'[j].query = queries'[i].query
          PROVE  j = i
      <4>1. j # n
        BY <1>1, <1>6, <1>10, <3>1, <3>3 DEF Pending
      <4> QED
        BY <1>11, <3>1, <3>2, <3>3, <4>1
    <3>4. "reuses" \notin guest' =>
             IsSocket(queries[i].fd)' /\ fds'[queries'[i].fd].serial = sent'[queries'[i].query]
      BY <1>6, <3>1, <3>2 DEF IsSocket
    <3> QED
      BY <1>6, <1>9, <3>1, <3>2, <3>3, <3>4
  <2> QED
    BY <2>1, <2>2
<1>13. AnswersReachAsker'
  <2>1. "reuses" \notin guest' => \A g \in got' : g.serial = sent'[g.query]
    BY <1>8 DEF AnswerInv, AnswersReachAsker
  <2>2. ASSUME Len(queries') < MaxQueries, NEW i \in DOMAIN sent', sent'[i] # 0, ~Answered(i)'
        PROVE  \E p \in DOMAIN queries' : queries'[p].query = i /\ queries'[p].ready
    <3>1. CASE i = last
      BY <1>1, <1>4, <1>6, <1>10, <2>2, <3>1
    <3>2. CASE i # last
      <4>1. i \in DOMAIN sent /\ sent[i] # 0 /\ ~Answered(i)
        BY <1>6, <1>9, <2>2, <3>2
      <4>2. PICK p \in DOMAIN queries : queries[p].query = i /\ queries[p].ready
        BY <1>1, <2>2, <4>1 DEF AnswerInv, AnswersReachAsker
      <4> QED
        BY <1>1, <2>2, <4>2
    <3> QED
      BY <3>1, <3>2
  <2> QED
    BY <2>1, <2>2 DEF AnswersReachAsker
<1> QED
  BY <1>6, <1>7, <1>8, <1>12, <1>13 DEF AnswerInv

LEMMA SendQueryKeeps ==
    ASSUME AnswerInv, NEW t \in Threads, NEW f \in Fds, SendQuery(t, f)
    PROVE  AnswerInv'
<1>1. sent \in Seq(Nat) /\ queries \in Seq(QueryType) /\ Len(queries) <= MaxQueries
  BY DEF AnswerInv, AnswerTypes
<1>2. PICK q : q = Query(t, f, Len(sent) + 1)
  OBVIOUS
<1>3. Len(sent) + 1 \in Nat /\ Len(sent) + 1 # 0
  BY <1>1
<1>4. q \in QueryType /\ q.fd = f /\ q.query = Len(sent) + 1 /\ q.ready
  BY <1>2, <1>3, QueryFacts
<1>5. /\ queries' = dns_remember_query(queries, q) /\ sent' = Append(sent, fds[f].serial)
      /\ UNCHANGED <<guest, options, fds, opened, got>> /\ Running /\ IsSocket(f)
  BY <1>2 DEF SendQuery
<1>6. Takes(queries, q, queries')
  BY <1>1, <1>4, <1>5, RememberAdds, OnceTakes
<1> QED
  BY <1>4, <1>5, <1>6, SendKeeps

LEMMA SendOtherKeeps ==
    ASSUME AnswerInv, NEW t \in Threads, NEW f \in Fds, SendOther(t, f)
    PROVE  AnswerInv'
<1>1. queries \in Seq(QueryType) /\ Len(queries) <= MaxQueries
  BY DEF AnswerInv, AnswerTypes
<1>2. PICK q : q = Query(t, f, 0)
  OBVIOUS
<1>3. q \in QueryType /\ q.fd = f /\ ~q.ready
  BY <1>2, QueryFacts
<1>4. /\ queries' = dns_remember_query(dns_remember_query(queries, q), q) /\ sent' = Append(sent, 0)
      /\ UNCHANGED <<guest, options, fds, opened, got>> /\ Running /\ IsSocket(f)
  BY <1>2 DEF SendOther
<1>5. PICK mid : mid = dns_remember_query(queries, q)
  OBVIOUS
<1>6. Adds(queries, q, mid)
  BY <1>1, <1>3, <1>5, RememberAdds
<1>7. mid \in Seq(QueryType) /\ Len(mid) <= MaxQueries
  BY <1>6 DEF Adds
<1>8. Adds(mid, q, queries')
  BY <1>3, <1>4, <1>5, <1>7, RememberAdds
<1>9. Takes(queries, q, queries')
  BY <1>3, <1>6, <1>8, TwiceTakes
<1> QED
  BY <1>3, <1>4, <1>9, SendKeeps

\* The answer that is read is that of the last pending query of the thread and the descriptor.
LEMMA ReceiveKeeps ==
    ASSUME AnswerInv, NEW t \in Threads, NEW f \in Fds, Receive(t, f)
    PROVE  AnswerInv'
<1>1. queries \in Seq(QueryType) /\ FdTypes /\ got \subseteq [query : Nat, serial : Nat]
  BY DEF AnswerInv, AnswerTypes
<1>2. PICK n : n = CHOOSE x \in dns_pending_query(t, f) : \A y \in dns_pending_query(t, f) : y <= x
  OBVIOUS
<1>3. n \in dns_pending_query(t, f)
  <2>1. dns_pending_query(t, f) \in SUBSET (1 .. Len(queries)) /\ Len(queries) \in Nat
    BY <1>1 DEF dns_pending_query
  <2>2. dns_pending_query(t, f) # {}
    BY DEF Receive
  <2> QED
    BY ZenonT(30), <1>2, <2>1, <2>2, GreatestIsMember
<1>4. n \in DOMAIN queries /\ Pending(n) /\ queries[n].fd = f
  BY <1>3 DEF dns_pending_query, Pending
<1>5. PICK g : g = [query |-> queries[n].query, serial |-> fds[f].serial]
  BY ZenonT(30)
<1>6. /\ queries' = [queries EXCEPT ![n].ready = FALSE] /\ got' = got \union {g}
      /\ UNCHANGED <<guest, options, fds, opened, sent>> /\ Running
  BY <1>2, <1>5 DEF Receive
<1>7. /\ queries' \in Seq(QueryType) /\ Len(queries') = Len(queries) /\ DOMAIN queries' = DOMAIN queries
      /\ queries'[n].ready = FALSE
      /\ \A i \in DOMAIN queries : i # n => queries'[i] = queries[i]
  <2>1. queries[n] \in QueryType
    BY <1>1, <1>4, QueryFields
  <2> DEFINE done == [queries[n] EXCEPT !.ready = FALSE]
  <2>2. done \in QueryType /\ done.ready = FALSE
    BY ZenonT(30), <2>1 DEF QueryType
  <2>3. queries' = [queries EXCEPT ![n] = done]
    BY <1>6
  <2> HIDE DEF done
  <2> QED
    BY SMTT(30), <1>1, <1>4, <2>2, <2>3
<1>8. g \in [query : Nat, serial : Nat] /\ g.query = queries[n].query /\ g.serial = fds[f].serial
  <2>1. fds[f].serial \in Nat
    <3>1. fds[f] \in FdType
      BY <1>1 DEF FdTypes
    <3> QED
      BY SMTT(30), <3>1 DEF FdType, Closed, FileType, SocketType
  <2>2. queries[n].query \in Nat
    BY <1>1, <1>4, QueryFields
  <2> QED
    BY <1>5, <2>1, <2>2
<1>9. AnswerTypes'
  BY <1>6, <1>7, <1>8 DEF AnswerInv, AnswerTypes, FdTypes, Ordered, Running
<1>10. \A h \in got' : h.query \in DOMAIN sent
  BY <1>4, <1>6, <1>8 DEF AnswerInv
<1>11. ASSUME NEW i \in DOMAIN queries, Pending(i)'
       PROVE  i # n /\ Pending(i) /\ queries'[i] = queries[i] /\ queries[i].query # queries[n].query
  <2>1. i # n
    BY <1>7, <1>11 DEF Pending
  <2>2. Pending(i) /\ queries'[i] = queries[i]
    BY <1>7, <1>11, <2>1 DEF Pending
  <2> QED
    BY <1>4, <2>1, <2>2 DEF AnswerInv
<1>12. \A x \in Nat : Answered(x)' <=> Answered(x) \/ x = queries[n].query
  BY <1>6, <1>8 DEF Answered
<1>13. ASSUME NEW i \in DOMAIN queries', Pending(i)'
       PROVE  /\ queries'[i].query \in DOMAIN sent' /\ ~Answered(queries[i].query)'
              /\ \A j \in DOMAIN queries' : Pending(j)' /\ queries'[j].query = queries'[i].query => j = i
              /\ "reuses" \notin guest' =>
                    IsSocket(queries[i].fd)' /\ fds'[queries'[i].fd].serial = sent'[queries'[i].query]
  <2>1. i \in DOMAIN queries /\ Pending(i) /\ queries'[i] = queries[i] /\ queries[i].query # queries[n].query
    BY <1>7, <1>11, <1>13
  <2>2. /\ queries[i].query \in DOMAIN sent /\ ~Answered(queries[i].query)
        /\ \A j \in DOMAIN queries : Pending(j) /\ queries[j].query = queries[i].query => j = i
        /\ "reuses" \notin guest =>
              IsSocket(queries[i].fd) /\ fds[queries[i].fd].serial = sent[queries[i].query]
    BY <2>1 DEF AnswerInv
  <2>3. queries[i].query \in Nat
    BY <1>1, <2>1, QueryFields
  <2>4. ~Answered(queries[i].query)'
    BY <1>12, <2>1, <2>2, <2>3
  <2>5. \A j \in DOMAIN queries' : Pending(j)' /\ queries'[j].query = queries'[i].query => j = i
    BY <1>7, <1>11, <2>1, <2>2
  <2> QED
    BY <1>6, <2>1, <2>2, <2>4, <2>5 DEF IsSocket
<1>14. AnswersReachAsker'
  <2>1. "reuses" \notin guest' => \A h \in got' : h.serial = sent'[h.query]
    <3>1. "reuses" \notin guest => g.serial = sent[g.query]
      BY <1>4, <1>8 DEF AnswerInv
    <3> QED
      BY <1>6, <3>1 DEF AnswerInv, AnswersReachAsker
  <2>2. ASSUME Len(queries') < MaxQueries, NEW i \in DOMAIN sent', sent'[i] # 0, ~Answered(i)'
        PROVE  \E p \in DOMAIN queries' : queries'[p].query = i /\ queries'[p].ready
    <3>1. i \in DOMAIN sent /\ sent[i] # 0 /\ i \in Nat
      BY SMTT(30), <1>6, <2>2 DEF AnswerInv, AnswerTypes
    <3>2. ~Answered(i) /\ i # queries[n].query
      BY <1>12, <2>2, <3>1
    <3>3. PICK p \in DOMAIN queries : queries[p].query = i /\ queries[p].ready
      BY <1>7, <2>2, <3>1, <3>2 DEF AnswerInv, AnswersReachAsker
    <3> QED
      BY <1>7, <3>2, <3>3
  <2> QED
    BY <2>1, <2>2 DEF AnswersReachAsker
<1> QED
  BY <1>6, <1>9, <1>10, <1>13, <1>14 DEF AnswerInv

\* While the guest does not close them, sockets that await answers are open.
LEMMA AwaitingOpen ==
    ASSUME AnswerInv, "reuses" \notin guest, NEW i \in DOMAIN queries, Pending(i)
    PROVE  /\ queries[i].fd \in Fds /\ IsSocket(queries[i].fd) /\ fds[queries[i].fd] # Closed
           /\ Awaits(queries[i].fd)
<1>1. FdTypes /\ queries[i].fd \in Fds
  BY QueryFields DEF AnswerInv, AnswerTypes
<1>2. /\ IsSocket(queries[i].fd) /\ fds[queries[i].fd].serial = sent[queries[i].query]
      /\ queries[i].query \in DOMAIN sent /\ ~Answered(queries[i].query)
  BY DEF AnswerInv
<1> QED
  BY <1>1, <1>2, SocketFacts DEF Awaits

LEMMA OpenCloseKeep ==
    ASSUME AnswerInv, NEW f \in Fds, OpenFd(f) \/ CloseFd(f)
    PROVE  AnswerInv'
<1>1. FdTypes
  BY DEF AnswerInv, AnswerTypes
<1>2. ASSUME OpenFd(f) PROVE AnswerInv'
  <2>1. FdTypes' /\ UNCHANGED <<guest, queries, sent, got, options>> /\ Running /\ fds[f] = Closed
        /\ \A g \in Fds : g # f => fds'[g] = fds[g]
    BY ZenonT(30), <1>1, <1>2, OpenTypes DEF OpenFd, FdTypes
  <2>2. Ordered'
    BY <2>1 DEF Ordered, Running
  <2>3. ASSUME "reuses" \notin guest, NEW i \in DOMAIN queries, Pending(i)
        PROVE  fds'[queries[i].fd] = fds[queries[i].fd] /\ IsSocket(queries[i].fd)
    BY <2>1, <2>3, AwaitingOpen
  <2> QED
    BY <2>1, <2>2, <2>3, AnswerFrame DEF IsSocket
<1>3. ASSUME CloseFd(f) PROVE AnswerInv'
  <2>1. FdTypes' /\ UNCHANGED <<guest, queries, sent, got, options>> /\ Running
        /\ ("reuses" \in guest \/ ~IsSocket(f) \/ ~Awaits(f))
        /\ \A g \in Fds : g # f => fds'[g] = fds[g]
    BY ZenonT(30), <1>1, <1>3, CloseTypes DEF CloseFd, FdTypes
  <2>2. Ordered'
    BY <2>1 DEF Ordered, Running
  <2>3. ASSUME "reuses" \notin guest, NEW i \in DOMAIN queries, Pending(i)
        PROVE  fds'[queries[i].fd] = fds[queries[i].fd] /\ IsSocket(queries[i].fd)
    BY <2>1, <2>3, AwaitingOpen
  <2> QED
    BY <2>1, <2>2, <2>3, AnswerFrame DEF IsSocket
<1> QED
  BY <1>2, <1>3

\* bind(2) and listen(2) leave every descriptor the socket it is.
LEMMA BindListenKeep ==
    ASSUME AnswerInv, NEW t \in Threads, NEW f \in Fds,
           (\E port \in Ports : Bind(t, f, port)) \/ Listen(t, f)
    PROVE  AnswerInv'
<1>1. FdTypes
  BY DEF AnswerInv, AnswerTypes
<1>2. FdTypes' /\ \A g \in Fds : fds'[g].serial = fds[g].serial /\ (IsSocket(g)' <=> IsSocket(g))
  BY <1>1, BindTypes, ListenTypes
<1>3. UNCHANGED <<guest, queries, sent, got, options>> /\ Running
  BY ZenonT(30) DEF Bind, Listen
<1>4. Ordered'
  BY <1>3 DEF Ordered, Running
<1>5. ASSUME "reuses" \notin guest, NEW i \in DOMAIN queries, Pending(i)
      PROVE  fds'[queries[i].fd].serial = fds[queries[i].fd].serial /\ fds'[queries[i].fd].kind = "socket"
  BY <1>2, <1>5, AwaitingOpen DEF IsSocket
<1> QED
  BY <1>2, <1>3, <1>4, <1>5, AnswerFrame DEF IsSocket

\* dns_remember_query() and dns_pending_query(): for any number of threads, descriptors and
\* queries and any size of the table, an answer reaches the socket that asked, unless the guest
\* has closed it, and none is lost while the table has room.
THEOREM AnswersReach == SocketsSpec => []AnswersReachAsker
<1>1. SocketsInit => AnswerInv
  <2> SUFFICES ASSUME SocketsInit PROVE AnswerInv
    OBVIOUS
  <2>1. Untouched /\ opened = 0
    BY DEF SocketsInit, Untouched
  <2>2. AnswerTypes
    BY <2>1, SocketsAssumption DEF AnswerTypes, FdTypes, FdType, Ordered, Untouched
  <2>3. AnswersReachAsker
    BY <2>1 DEF Untouched, AnswersReachAsker
  <2> QED
    BY <2>1, <2>2, <2>3 DEF AnswerInv, Untouched
<1>2. AnswerInv /\ [SocketsNext]_socketVars => AnswerInv'
  <2> SUFFICES ASSUME AnswerInv, [SocketsNext]_socketVars PROVE AnswerInv'
    OBVIOUS
  <2>1. CASE UNCHANGED socketVars
    <3>1. FdTypes' /\ Ordered' /\ UNCHANGED <<guest, queries, sent, got, fds>>
      BY <2>1 DEF socketVars, AnswerInv, AnswerTypes, FdTypes, Ordered, Running, Untouched
    <3> QED
      BY <3>1, AnswerFrame DEF AnswerInv, IsSocket
  <2>2. CASE Option
    <3>1. Untouched /\ FdTypes
      BY SMTT(30), <2>2 DEF AnswerInv, AnswerTypes, Ordered, Running, Option
    <3>2. UNCHANGED <<guest, binds, queries, fds, opened, sent, got, refused>>
      BY <2>2 DEF Option
    <3>3. FdTypes' /\ Ordered'
      BY <3>1, <3>2 DEF FdTypes, Ordered, Untouched
    <3> QED
      BY <3>2, <3>3, AnswerFrame DEF AnswerInv, IsSocket
  <2>3. CASE \E f \in Fds : OpenFd(f) \/ CloseFd(f)
    BY <2>3, OpenCloseKeep
  <2>4. CASE \E t \in Threads, f \in Fds :
                \/ \E port \in Ports : Bind(t, f, port)
                \/ Listen(t, f) \/ SendQuery(t, f) \/ SendOther(t, f) \/ Receive(t, f)
    BY <2>4, BindListenKeep, SendQueryKeeps, SendOtherKeeps, ReceiveKeeps
  <2> QED
    BY <2>1, <2>2, <2>3, <2>4 DEF SocketsNext
<1>3. AnswerInv => AnswersReachAsker
  BY DEF AnswerInv
<1> QED
  BY <1>1, <1>2, <1>3, PTL DEF SocketsSpec

--------------------------------------------------------------------------------
(* listen(2).                                                             *)

BindType == [pid : Threads, fd : Fds, port : PortValue]

\* Every port a socket has is the kernel's choice or allowed.
PortsAllowed ==
    \A f \in Fds : IsSocket(f) =>
        /\ fds[f].port \in Ephemeral \cup {0} \/ Allowed(fds[f].port)
        /\ fds[f].listening => fds[f].port # 0

\* What is remembered of the thread that called bind(2) last is what it asked for.
Remembers(bs, ds) ==
    \A i \in DOMAIN bs : \A f \in Fds :
        ds[f].kind = "socket" /\ bs[i].fd = f /\ bs[i].pid = ds[f].by => bs[i].port = ds[f].asked

RefusedForCause ==
    \A r \in refused : r.socket.port # 0 /\ Allowed(r.socket.port) =>
        r.socket.by # r.pid \/ r.socket.asked # r.socket.port \/ r.forgotten

ListenInv ==
    /\ FdTypes /\ Ordered /\ binds \in Seq(BindType)
    /\ PortsAllowed /\ Remembers(binds, fds) /\ RefusedForCause

LEMMA RememberBinds ==
    ASSUME binds \in Seq(BindType), NEW t \in Threads, NEW f \in Fds, NEW port \in Ports
    PROVE  /\ remember_bind(t, f, port) \in Seq(BindType)
           /\ \A i \in DOMAIN remember_bind(t, f, port) :
                 \/ remember_bind(t, f, port)[i] = [pid |-> t, fd |-> f, port |-> port]
                 \/ /\ i \in DOMAIN binds /\ remember_bind(t, f, port)[i] = binds[i]
                    /\ ~(binds[i].pid = t /\ binds[i].fd = f)
<1> DEFINE entry == [pid |-> t, fd |-> f, port |-> port]
<1>1. entry \in BindType
  BY DEF BindType, PortValue
<1>2. \A i \in DOMAIN binds : binds[i] \in BindType
  OBVIOUS
<1>3. CASE BoundBy(t, f) # {}
  <2> DEFINE new == [i \in DOMAIN binds |->
                          IF i \in BoundBy(t, f) THEN [binds[i] EXCEPT !.port = port] ELSE binds[i]]
  <2>1. remember_bind(t, f, port) = new
    BY <1>3 DEF remember_bind
  <2>2. \A i \in BoundBy(t, f) : i \in DOMAIN binds /\ [binds[i] EXCEPT !.port = port] = entry
    BY <1>2 DEF BoundBy, BindType
  <2>3. \A i \in DOMAIN binds : new[i] = IF i \in BoundBy(t, f) THEN entry ELSE binds[i]
    BY <2>2
  <2>4. DOMAIN new = 1 .. Len(binds) /\ Len(binds) \in Nat
    OBVIOUS
  <2>5. \A i \in DOMAIN new : new[i] \in BindType
    BY <1>1, <1>2, <2>3, <2>4
  <2> HIDE DEF entry
  <2>6. new = [i \in 1 .. Len(binds) |-> new[i]]
    BY SMTT(30)
  <2> HIDE DEF new
  <2>7. new \in Seq(BindType)
    BY <2>4, <2>5, <2>6
  <2>8. \A i \in DOMAIN binds \ BoundBy(t, f) : ~(binds[i].pid = t /\ binds[i].fd = f)
    BY DEF BoundBy
  <2>9. DOMAIN new = DOMAIN binds
    BY <2>4
  <2> QED
    BY <2>1, <2>3, <2>7, <2>8, <2>9 DEF entry
<1>4. CASE BoundBy(t, f) = {} /\ Len(binds) < MaxBinds
  <2>1. remember_bind(t, f, port) = Append(binds, entry)
    BY <1>4 DEF remember_bind
  <2> HIDE DEF entry
  <2>2. Append(binds, entry) \in Seq(BindType)
    BY <1>1
  <2>3. \A i \in DOMAIN Append(binds, entry) :
           Append(binds, entry)[i] = entry \/ (i \in DOMAIN binds /\ Append(binds, entry)[i] = binds[i])
    OBVIOUS
  <2>4. \A i \in DOMAIN binds : ~(binds[i].pid = t /\ binds[i].fd = f)
    BY <1>4 DEF BoundBy
  <2> QED
    BY <2>1, <2>2, <2>3, <2>4 DEF entry
<1>5. CASE BoundBy(t, f) = {} /\ ~(Len(binds) < MaxBinds)
  <2>1. \A i \in DOMAIN binds : ~(binds[i].pid = t /\ binds[i].fd = f)
    BY <1>5 DEF BoundBy
  <2> QED
    BY <1>5, <2>1 DEF remember_bind
<1> QED
  BY <1>3, <1>4, <1>5

\* A step that changes one descriptor, and neither the rules nor what is remembered.
LEMMA ListenFrame ==
    ASSUME ListenInv, FdTypes', NEW f \in Fds, NEW x, fds' = [fds EXCEPT ![f] = x],
           Running, UNCHANGED <<options, policy, binds>>, RefusedForCause',
           x.kind = "socket" =>
              /\ x.port \in Ephemeral \cup {0} \/ Allowed(x.port)
              /\ x.listening => x.port # 0
              /\ \/ x.by = 0
                 \/ IsSocket(f) /\ x.by = fds[f].by /\ x.asked = fds[f].asked
    PROVE  ListenInv'
<1>1. fds \in [Fds -> FdType] /\ fds'[f] = x /\ \A g \in Fds : g # f => fds'[g] = fds[g]
  BY DEF ListenInv, FdTypes
<1>2. Ordered'
  BY DEF Ordered, Running
<1>3. \A p : Allowed(p)' <=> Allowed(p)
  BY DEF Allowed, bind_matches
<1>4. PortsAllowed'
  BY <1>1, <1>3 DEF ListenInv, PortsAllowed, IsSocket
<1>5. ASSUME NEW i \in DOMAIN binds, NEW g \in Fds,
             fds'[g].kind = "socket", binds[i].fd = g, binds[i].pid = fds'[g].by
      PROVE  binds[i].port = fds'[g].asked
  <2>1. binds[i].pid \in Threads
    <3>1. binds[i] \in BindType
      BY DEF ListenInv
    <3> QED
      BY <3>1 DEF BindType
  <2>2. binds[i].pid # 0
    BY <2>1, SocketsAssumption
  <2> QED
    BY SMTT(30), <1>1, <1>5, <2>2 DEF ListenInv, Remembers, IsSocket
<1>6. Remembers(binds, fds)'
  BY <1>5 DEF Remembers
<1> QED
  BY <1>2, <1>4, <1>6 DEF ListenInv

LEMMA ListenInvBind ==
    ASSUME ListenInv, NEW t \in Threads, NEW f \in Fds, NEW port \in Ports, Bind(t, f, port)
    PROVE  ListenInv'
<1>1. FdTypes /\ binds \in Seq(BindType) /\ PortsAllowed /\ Remembers(binds, fds) /\ RefusedForCause
  BY DEF ListenInv
<1>2. PICK p \in PortValue : MayBe(f, port, p) /\ BoundAs(t, f, port, p)
  BY <1>1, BindFds
<1>3. /\ binds' = remember_bind(t, f, port) /\ Running /\ IsSocket(f)
      /\ UNCHANGED <<options, policy, refused>>
  BY ZenonT(30) DEF Bind
<1>4. FdTypes' /\ fds[f] \in SocketType
  BY <1>1, <1>3, BindTypes, SocketFacts
<1>5. /\ fds'[f].kind = "socket" /\ fds'[f].port = p /\ fds'[f].asked = port /\ fds'[f].by = t
      /\ fds'[f].listening = fds[f].listening
      /\ \A g \in Fds : g # f => fds'[g] = fds[g]
  BY <1>1, <1>2, <1>4 DEF FdTypes, BoundAs, SocketType
<1>6. /\ binds' \in Seq(BindType)
      /\ \A i \in DOMAIN binds' :
            \/ binds'[i] = [pid |-> t, fd |-> f, port |-> port]
            \/ i \in DOMAIN binds /\ binds'[i] = binds[i] /\ ~(binds[i].pid = t /\ binds[i].fd = f)
  <2> DEFINE new == remember_bind(t, f, port)
  <2>1. /\ new \in Seq(BindType)
        /\ \A i \in DOMAIN new :
              \/ new[i] = [pid |-> t, fd |-> f, port |-> port]
              \/ i \in DOMAIN binds /\ new[i] = binds[i] /\ ~(binds[i].pid = t /\ binds[i].fd = f)
    BY SMTT(30), <1>1, RememberBinds
  <2>2. binds' = new
    BY <1>3
  <2> HIDE DEF new
  <2> QED
    BY ZenonT(30), <2>1, <2>2
<1>7. \A q : Allowed(q)' <=> Allowed(q)
  BY <1>3 DEF Allowed, bind_matches
<1>8. PortsAllowed'
  <2>1. /\ p \in Ephemeral \cup {0} \/ Allowed(p)
        /\ fds[f].listening => p # 0
    BY <1>1, <1>2, <1>3 DEF PortsAllowed, MayBe
  <2> QED
    BY <1>1, <1>5, <1>7, <2>1 DEF PortsAllowed, IsSocket
<1>9. ASSUME NEW i \in DOMAIN binds', NEW g \in Fds,
             fds'[g].kind = "socket", binds'[i].fd = g, binds'[i].pid = fds'[g].by
      PROVE  binds'[i].port = fds'[g].asked
  <2>1. CASE binds'[i] = [pid |-> t, fd |-> f, port |-> port]
    BY SMTT(30), <1>5, <1>9, <2>1
  <2>2. CASE i \in DOMAIN binds /\ binds'[i] = binds[i] /\ ~(binds[i].pid = t /\ binds[i].fd = f)
    BY <1>1, <1>5, <1>9, <2>2 DEF Remembers
  <2> QED
    BY ZenonT(30), <1>6, <2>1, <2>2
<1>10. Remembers(binds, fds)'
  BY <1>9 DEF Remembers
<1>11. RefusedForCause' /\ Ordered'
  BY <1>1, <1>3, <1>7 DEF RefusedForCause, Ordered, Running
<1> QED
  BY <1>4, <1>6, <1>8, <1>10, <1>11 DEF ListenInv

\* A socket that is refused though its port is allowed.
LEMMA RefusalHasCause ==
    ASSUME ListenInv, NEW t \in Threads, NEW f \in Fds, IsSocket(f), ~Allowed(remembered_bind(t, f)),
           Allowed(fds[f].port)
    PROVE  fds[f].by # t \/ fds[f].asked # fds[f].port \/ BoundBy(t, f) = {}
<1> SUFFICES ASSUME fds[f].by = t, fds[f].asked = fds[f].port, BoundBy(t, f) # {} PROVE FALSE
  OBVIOUS
<1>1. PICK i \in BoundBy(t, f) : remembered_bind(t, f) = binds[i].port
  BY ZenonT(30) DEF remembered_bind
<1>2. binds[i].port = fds[f].asked
  BY DEF ListenInv, Remembers, BoundBy, IsSocket
<1> QED
  BY <1>1, <1>2

LEMMA ListenInvListen ==
    ASSUME ListenInv, NEW t \in Threads, NEW f \in Fds, Listen(t, f)
    PROVE  ListenInv'
<1>1. FdTypes /\ fds \in [Fds -> FdType] /\ PortsAllowed /\ RefusedForCause
  BY DEF ListenInv, FdTypes
<1>2. Running /\ IsSocket(f) /\ UNCHANGED <<options, policy, binds>>
  BY ZenonT(30) DEF Listen
<1>3. FdTypes' /\ fds[f] \in SocketType
  BY <1>1, <1>2, ListenTypes, SocketFacts
<1>4. \A q : Allowed(q)' <=> Allowed(q)
  BY <1>2 DEF Allowed, bind_matches
<1>5. CASE ~Allowed(remembered_bind(t, f))
  <2>1. PICK r : r = [socket |-> fds[f], pid |-> t, forgotten |-> BoundBy(t, f) = {}]
    BY ZenonT(30)
  <2>2. refused' = {r} /\ fds' = fds
    BY <1>5, <2>1 DEF Listen
  <2>3. r.socket = fds[f] /\ r.pid = t
    BY <2>1
  <2>4. BoundBy(t, f) = {} => r.forgotten
    BY <2>1, ZenonT(30)
  <2>5. RefusedForCause'
    BY <1>2, <1>4, <1>5, <2>2, <2>3, <2>4, RefusalHasCause DEF RefusedForCause
  <2>6. fds' = [fds EXCEPT ![f] = fds[f]]
    BY <1>1, <2>2
  <2> QED
    BY ZenonT(30), <1>1, <1>2, <1>3, <2>5, <2>6, ListenFrame DEF PortsAllowed, IsSocket
<1>6. CASE Allowed(remembered_bind(t, f))
  <2>1. PICK p \in IF fds[f].port = 0 THEN Ephemeral ELSE {fds[f].port} :
               fds' = [fds EXCEPT ![f] = [fds[f] EXCEPT !.port = p, !.listening = TRUE]]
    BY ZenonT(30), <1>1, <1>6 DEF Listen
  <2>2. PICK x : x = [fds[f] EXCEPT !.port = p, !.listening = TRUE]
    OBVIOUS
  <2>3. x.kind = "socket" /\ x.port = p /\ x.by = fds[f].by /\ x.asked = fds[f].asked
    BY <1>3, <2>2 DEF SocketType
  <2>4. p # 0 /\ (p \in Ephemeral \cup {0} \/ Allowed(p))
    BY <1>1, <1>2, SocketsAssumption DEF PortsAllowed
  <2>5. RefusedForCause'
    BY ZenonT(30), <1>1, <1>4, <1>6 DEF RefusedForCause, Listen
  <2>6. fds' = [fds EXCEPT ![f] = x]
    BY <2>1, <2>2
  <2> QED
    BY ZenonT(30), <1>2, <1>3, <2>3, <2>4, <2>5, <2>6, ListenFrame
<1> QED
  BY <1>5, <1>6

LEMMA ListenInvFd ==
    ASSUME ListenInv, NEW f \in Fds, OpenFd(f) \/ CloseFd(f)
    PROVE  ListenInv'
<1>1. FdTypes /\ RefusedForCause /\ opened \in Nat
  BY DEF ListenInv, FdTypes
<1>2. Running /\ UNCHANGED <<options, policy, binds, refused>>
  BY DEF OpenFd, CloseFd
<1>3. FdTypes'
  BY <1>1, OpenTypes, CloseTypes
<1>4. RefusedForCause'
  BY <1>1, <1>2 DEF RefusedForCause, Allowed, bind_matches
<1>5. PICK x \in {Closed, File(opened + 1), Socket(opened + 1)} : fds' = [fds EXCEPT ![f] = x]
  BY DEF OpenFd, CloseFd
<1>6. x.kind = "socket" => x.port = 0 /\ x.by = 0 /\ ~x.listening
  <2>1. CASE x = Closed
    BY <2>1 DEF Closed
  <2>2. CASE x = File(opened + 1)
    BY <2>2 DEF File
  <2>3. CASE x = Socket(opened + 1)
    BY <2>3 DEF Socket
  <2> QED
    BY <1>5, <2>1, <2>2, <2>3
<1> QED
  BY ZenonT(30), <1>2, <1>3, <1>4, <1>5, <1>6, ListenFrame

\* remember_bind() and remembered_bind(): for any number of threads and descriptors, any ports
\* and any size of the table, no socket listens on a port the rules deny, and listen(2) is
\* refused on an allowed port for one of the three reasons only.
THEOREM ListensFollowRules == SocketsSpec => []ListenFollowsRules
<1>1. SocketsInit => ListenInv
  <2> SUFFICES ASSUME SocketsInit PROVE ListenInv
    OBVIOUS
  <2>1. Untouched /\ opened = 0
    BY DEF SocketsInit, Untouched
  <2>2. FdTypes /\ Ordered /\ binds \in Seq(BindType)
    BY <2>1 DEF FdTypes, FdType, Ordered, Untouched
  <2>3. PortsAllowed /\ Remembers(binds, fds) /\ RefusedForCause
    BY <2>1 DEF Untouched, PortsAllowed, Remembers, RefusedForCause, IsSocket, Closed
  <2> QED
    BY <2>2, <2>3 DEF ListenInv
<1>2. ListenInv /\ [SocketsNext]_socketVars => ListenInv'
  <2> SUFFICES ASSUME ListenInv, [SocketsNext]_socketVars PROVE ListenInv'
    OBVIOUS
  <2>1. CASE Ordered' /\ UNCHANGED <<policy, binds, fds, opened, refused>>
    <3>1. FdTypes' /\ binds' \in Seq(BindType) /\ Remembers(binds, fds)'
      BY <2>1 DEF ListenInv, FdTypes, Remembers
    <3>2. PortsAllowed' /\ RefusedForCause'
      BY <2>1 DEF ListenInv, PortsAllowed, RefusedForCause, IsSocket, Allowed, bind_matches
    <3> QED
      BY <2>1, <3>1, <3>2 DEF ListenInv
  <2>2. CASE Option
    <3>1. Untouched /\ FdTypes
      BY <2>2 DEF ListenInv, Ordered, Running, Option
    <3>2. Untouched' /\ FdTypes'
      BY <2>2, <3>1 DEF Option, Untouched, FdTypes
    <3>3. binds' \in Seq(BindType) /\ PortsAllowed' /\ Remembers(binds, fds)' /\ RefusedForCause'
      BY <3>2 DEF Untouched, PortsAllowed, Remembers, RefusedForCause, IsSocket, Closed
    <3> QED
      BY <3>2, <3>3 DEF ListenInv, Ordered
  <2>3. CASE \E f \in Fds : OpenFd(f) \/ CloseFd(f)
    BY <2>3, ListenInvFd
  <2>4. CASE \E t \in Threads, f \in Fds : Listen(t, f) \/ \E port \in Ports : Bind(t, f, port)
    BY <2>4, ListenInvBind, ListenInvListen
  <2>5. CASE \E t \in Threads, f \in Fds : SendQuery(t, f) \/ SendOther(t, f) \/ Receive(t, f)
    BY <2>1, <2>5 DEF SendQuery, SendOther, Receive, Ordered, Running
  <2>6. CASE UNCHANGED socketVars
    BY <2>1, <2>6 DEF socketVars, ListenInv, Ordered, Running, Untouched
  <2> QED
    BY <2>2, <2>3, <2>4, <2>5, <2>6 DEF SocketsNext
<1>3. ListenInv => ListenFollowsRules
  BY DEF ListenInv, PortsAllowed, RefusedForCause, ListenFollowsRules
<1> QED
  BY <1>1, <1>2, <1>3, PTL DEF SocketsSpec

--------------------------------------------------------------------------------
(* Switched ports.                                                          *)

PortMapping == [host_port : 0 .. HighPort, container_port : 0 .. HighPort]
NetCall == [op : {"none", "bind", "connect", "sendto"}, findable : BOOLEAN]

PortTypes ==
    /\ port_guest \in PortGuests
    /\ poptions \in Seq(PortMapping)
    /\ switch \in [mappings : Seq(PortMapping), auto_redirect : BOOLEAN, failed : BOOLEAN]
    /\ owner \in [Port -> NTask \cup {"free", "host"}]
    /\ buffer \in [NTask -> [port : 0 .. HighPort, meant : 0 .. HighPort]]
    /\ ncall \in [NTask -> NetCall]
    /\ nlast \in BOOLEAN

Quiet == ~Likes("races") /\ ~Likes("rebinds")

\* Without races there is one call at a time, and a bind(2) that has found a port finds it free.
Ready == \A t \in NTask : ncall[t].op = "bind" /\ ncall[t].findable => buffer[t].port \in Bindable
OneCall == \A t, u \in NTask : ncall[t].op # "none" /\ ncall[u].op # "none" => t = u

PortInv == PortTypes /\ (Quiet => OneCall /\ Ready /\ ~nlast)

--------------------------------------------------------------------------------
(* The search.                                                            *)


\* What CHOOSE takes for the least of a set of naturals is a member of it.
LEMMA LeastIsMember ==
    ASSUME NEW S \in SUBSET Nat, S # {}
    PROVE  (CHOOSE i \in S : \A j \in S : i <= j) \in S
<1>1. PICK x \in S : \A y \in S : ~(<<y, x>> \in OpToRel(<, Nat))
  BY NatLessThanWellFounded, WFMin
<1>2. \A y \in Nat, z \in Nat : y < z => <<y, z>> \in OpToRel(<, Nat)
  BY DEF OpToRel
<1>3. \A y \in S : ~(y < x)
  BY <1>1, <1>2
<1>4. \A y \in S : x <= y
  BY <1>3
<1> QED
  BY <1>4

\* Where the search begins is a number, which need not be a port.
LEMMA WantedIsNat ==
    ASSUME PortTypes, NEW port \in 0 .. HighPort
    PROVE  WantedPort(port) \in Nat
<1>1. CASE find_mapping(port) = {}
  BY SMTT(30), <1>1, PortAssumption DEF WantedPort
<1>2. CASE find_mapping(port) # {}
  <2>1. switch.mappings \in Seq(PortMapping)
    BY DEF PortTypes
  <2>2. find_mapping(port) \in SUBSET Nat
    BY SMTT(30), <2>1 DEF find_mapping
  <2>3. (CHOOSE i \in find_mapping(port) : \A j \in find_mapping(port) : i <= j) \in find_mapping(port)
    BY <1>2, <2>2, LeastIsMember
  <2>4. \A i \in find_mapping(port) : switch.mappings[i] \in PortMapping
    BY <2>1 DEF find_mapping
  <2>5. \A m \in PortMapping : m.host_port \in Nat
    BY SMTT(30), PortAssumption DEF PortMapping
  <2> QED
    BY <1>2, <2>3, <2>4, <2>5 DEF WantedPort
<1> QED
  BY <1>1, <1>2

\* find_available_port(): a port it returns can be bound; 0 says that there is none.
LEMMA FoundIsBindable ==
    ASSUME NEW start \in Nat
    PROVE  find_available_port(start) = 0 \/ find_available_port(start) \in Bindable
<1> DEFINE candidate(i) == (start + i) % (HighPort + 1)
           found == {i \in 0 .. MAX_PORT_SEARCH - 1 : is_port_available(candidate(i))}
           first == CHOOSE i \in found : \A j \in found : i <= j
<1>1. find_available_port(start) = IF found = {} THEN 0 ELSE candidate(first)
  BY DEF find_available_port
<1>2. ASSUME found # {}
      PROVE  candidate(first) = 0 \/ candidate(first) \in Bindable
  <2>1. found \in SUBSET Nat
    BY SMTT(30), PortAssumption
  <2>2. first \in found
    BY <1>2, <2>1, LeastIsMember
  <2>3. is_port_available(candidate(first)) /\ first \in Nat
    BY <2>1, <2>2
  <2>4. candidate(first) \in 0 .. HighPort
    <3>1. start + first \in Nat /\ HighPort + 1 \in Nat \ {0}
      BY SMTT(30), <2>3, PortAssumption
    <3>2. \A a \in Nat, b \in Nat \ {0} : a % b \in 0 .. b - 1
      OBVIOUS
    <3>3. candidate(first) \in 0 .. (HighPort + 1) - 1
      BY <3>1, <3>2
    <3>4. (HighPort + 1) - 1 = HighPort
      BY PortAssumption
    <3> QED
      BY <3>3, <3>4
  <2> QED
    BY <2>3, <2>4 DEF is_port_available, Bindable, Port
<1> QED
  BY <1>1, <1>2

\* handle_port_translation(): what there is to be found is what the buffer holds.
LEMMA TranslatedIsBindable ==
    ASSUME PortTypes, NEW port \in 0 .. HighPort
    PROVE  /\ handle_port_translation(port) \in 0 .. HighPort
           /\ Target(port) # 0 => handle_port_translation(port) \in Bindable
<1>1. Target(port) = 0 \/ Target(port) \in Bindable
  BY WantedIsNat, FoundIsBindable DEF Target
<1>2. Bindable \subseteq 0 .. HighPort
  BY PortAssumption DEF Bindable, Port
<1> QED
  BY <1>1, <1>2 DEF handle_port_translation

--------------------------------------------------------------------------------
(* The steps.                                                             *)

LEMMA PortInitInv == PortInit => PortInv
<1> SUFFICES ASSUME PortInit PROVE PortInv
  OBVIOUS
<1>1. poptions \in Seq(PortMapping) /\ HighPort \in Nat
  BY PortAssumption DEF PortInit, PortMapping
<1>2. NoAddress \in [port : 0 .. HighPort, meant : 0 .. HighPort] /\ NoNetCall \in NetCall
  BY <1>1 DEF NoAddress, NoNetCall, NetCall
<1>3. switch \in [mappings : Seq(PortMapping), auto_redirect : BOOLEAN, failed : BOOLEAN]
  <2>1. <<>> \in Seq(PortMapping)
    OBVIOUS
  <2> QED
    BY <2>1 DEF PortInit
<1>4. /\ owner \in [Port -> NTask \cup {"free", "host"}]
      /\ buffer \in [NTask -> [port : 0 .. HighPort, meant : 0 .. HighPort]]
      /\ ncall \in [NTask -> NetCall]
  BY <1>2 DEF PortInit
<1>5. PortTypes
  BY <1>1, <1>3, <1>4 DEF PortInit, PortTypes
<1>6. OneCall /\ Ready /\ ~nlast
  BY DEF PortInit, OneCall, Ready, NoNetCall
<1> QED
  BY <1>5, <1>6 DEF PortInv

\* Options come before the guests; they change no call.
LEMMA OptionKeeps ==
    ASSUME PortInv, PortOption, UNCHANGED port_guest
    PROVE  PortInv'
<1>1. UNCHANGED <<port_guest, owner, buffer, ncall, nlast>>
  BY DEF PortOption
<1>2. /\ poptions \in Seq(PortMapping) /\ poptions # <<>>
      /\ switch \in [mappings : Seq(PortMapping), auto_redirect : BOOLEAN, failed : BOOLEAN]
  BY DEF PortInv, PortTypes, PortOption
<1>3. Head(poptions) \in PortMapping /\ Tail(poptions) \in Seq(PortMapping) /\ <<>> \in Seq(PortMapping)
  BY SMTT(30), <1>2
<1>4. Append(switch.mappings, Head(poptions)) \in Seq(PortMapping)
  BY SMTT(30), <1>2, <1>3
<1>5. poptions' \in {Tail(poptions), <<>>}
  BY DEF PortOption
<1>6. \/ switch' = [switch EXCEPT !.auto_redirect = TRUE]
      \/ switch' = [switch EXCEPT !.failed = TRUE]
      \/ switch' = [switch EXCEPT !.mappings = Append(switch.mappings, Head(poptions))]
  BY <1>2 DEF PortOption
<1>7. switch' \in [mappings : Seq(PortMapping), auto_redirect : BOOLEAN, failed : BOOLEAN]
  BY <1>2, <1>4, <1>6
<1>8. PortTypes'
  BY <1>1, <1>3, <1>5, <1>7 DEF PortInv, PortTypes
<1> QED
  BY <1>1, <1>8 DEF PortInv, Quiet, Likes, OneCall, Ready, Bindable

LEMMA EnterKeeps ==
    ASSUME PortInv, UNCHANGED port_guest, NEW t \in NTask, NEW op \in {"bind", "connect", "sendto"},
           NEW localhost \in BOOLEAN, NEW port \in 0 .. HighPort, NEW meant \in 0 .. HighPort,
           NetEnter(t, op, port, meant, localhost)
    PROVE  PortInv'
<1> DEFINE held == IF op = "bind" \/ localhost THEN handle_port_translation(port) ELSE port
<1>1. /\ buffer' = [buffer EXCEPT ![t] = [meant |-> meant, port |-> held]]
      /\ ncall' = [ncall EXCEPT ![t] = [op |-> op, findable |-> Target(meant) # 0]]
      /\ UNCHANGED <<poptions, switch, owner, nlast>>
      /\ ncall[t].op = "none" /\ Alone(t) /\ Fills(t, port, meant)
  BY DEF NetEnter
<1>2. PortTypes
  BY DEF PortInv
<1>3. held \in 0 .. HighPort /\ (op = "bind" /\ Target(port) # 0 => held \in Bindable)
  BY <1>2, TranslatedIsBindable
<1> HIDE DEF held
<1>4. [meant |-> meant, port |-> held] \in [port : 0 .. HighPort, meant : 0 .. HighPort]
  BY <1>3
<1>5. [op |-> op, findable |-> Target(meant) # 0] \in NetCall
  BY DEF NetCall
<1>6. PortTypes'
  BY <1>1, <1>2, <1>4, <1>5 DEF PortTypes
<1>7. Bindable' = Bindable
  BY <1>1 DEF Bindable
<1>8. ASSUME Quiet PROVE OneCall' /\ Ready' /\ ~nlast'
  <2>1. OneCall /\ Ready /\ ~nlast
    BY <1>8 DEF PortInv
  <2>2. meant = port
    BY <1>1, <1>8 DEF Fills, Quiet
  <2>3. \A u \in NTask \ {t} : ncall[u].op = "none" /\ ncall'[u] = ncall[u]
    BY <1>1, <1>2, <1>8 DEF Alone, Quiet, PortTypes
  <2>4. ncall'[t] = [op |-> op, findable |-> Target(meant) # 0] /\ buffer'[t].port = held
    BY <1>1, <1>2 DEF PortTypes
  <2>5. ASSUME NEW u \in NTask, ncall'[u].op = "bind", ncall'[u].findable
        PROVE  buffer'[u].port \in Bindable'
    <3>1. u = t
      BY <2>3, <2>5
    <3>2. op = "bind"
      <4>1. [op |-> op, findable |-> Target(meant) # 0].op = "bind"
        BY <2>4, <2>5, <3>1, ZenonT(30)
      <4> QED
        BY <4>1, ZenonT(30)
    <3>3. [op |-> op, findable |-> Target(meant) # 0].findable
      BY <2>4, <2>5, <3>1, ZenonT(30)
    <3>4. Target(meant) # 0
      BY <3>3, ZenonT(30)
    <3> QED
      BY <1>3, <1>7, <2>2, <2>4, <3>1, <3>2, <3>4
  <2> QED
    BY SMTT(30), <1>1, <2>1, <2>3, <2>5 DEF OneCall, Ready
<1> QED
  BY <1>6, <1>8 DEF PortInv, Quiet, Likes

\* The kernel binds what the buffer holds, which is free still.
LEMMA BindKeeps ==
    ASSUME PortInv, UNCHANGED port_guest, NEW t \in NTask, NEW port \in Port, BindInKernel(t, port)
    PROVE  PortInv'
<1>1. /\ ncall[t].op = "bind"
      /\ IF buffer[t].port = 0 THEN port \in Bindable ELSE port = buffer[t].port
      /\ owner' = IF port \in Bindable THEN [owner EXCEPT ![port] = t] ELSE owner
      /\ nlast' = (port \notin Bindable /\ ncall[t].findable)
      /\ ncall' = [ncall EXCEPT ![t] = NoNetCall] /\ buffer' = Buffered(t)
      /\ UNCHANGED <<poptions, switch>>
  BY DEF BindInKernel
<1>2. PortTypes
  BY DEF PortInv
<1>3. NoAddress \in [port : 0 .. HighPort, meant : 0 .. HighPort] /\ NoNetCall \in NetCall
  BY PortAssumption DEF NoAddress, NoNetCall, NetCall
<1>4. owner' \in [Port -> NTask \cup {"free", "host"}]
  BY <1>1, <1>2 DEF PortTypes
<1>5. buffer' \in [NTask -> [port : 0 .. HighPort, meant : 0 .. HighPort]]
  BY <1>1, <1>2, <1>3 DEF PortTypes, Buffered
<1>6. ncall' \in [NTask -> NetCall]
  BY <1>1, <1>2, <1>3 DEF PortTypes
<1>7. nlast' \in BOOLEAN
  BY <1>1
<1>8. PortTypes'
  BY <1>1, <1>2, <1>4, <1>5, <1>6, <1>7 DEF PortTypes
<1>9. ASSUME Quiet PROVE OneCall' /\ Ready' /\ ~nlast'
  <2>1. OneCall /\ Ready
    BY <1>9 DEF PortInv
  <2>2. \A u \in NTask : ncall'[u].op = "none"
    BY <1>1, <1>2, <2>1 DEF PortTypes, OneCall, NoNetCall
  <2>3. ncall[t].findable => port \in Bindable
    <3>1. ncall[t].findable => buffer[t].port \in Bindable
      BY <1>1, <2>1 DEF Ready
    <3> QED
      BY <1>1, <3>1
  <2> QED
    BY <1>1, <2>2, <2>3 DEF OneCall, Ready
<1> QED
  BY <1>8, <1>9 DEF PortInv, Quiet, Likes

\* connect(2) and sendto(2) bind nothing.
LEMMA OtherKeeps ==
    ASSUME PortInv, UNCHANGED port_guest, NEW t \in NTask, OtherInKernel(t)
    PROVE  PortInv'
<1>1. /\ ncall[t].op \in {"connect", "sendto"}
      /\ ncall' = [ncall EXCEPT ![t] = NoNetCall] /\ buffer' = Buffered(t)
      /\ UNCHANGED <<poptions, switch, owner, nlast>>
  BY DEF OtherInKernel
<1>2. PortTypes
  BY DEF PortInv
<1>3. NoAddress \in [port : 0 .. HighPort, meant : 0 .. HighPort] /\ NoNetCall \in NetCall
  BY PortAssumption DEF NoAddress, NoNetCall, NetCall
<1>4. buffer' \in [NTask -> [port : 0 .. HighPort, meant : 0 .. HighPort]]
  BY <1>1, <1>2, <1>3 DEF PortTypes, Buffered
<1>5. ncall' \in [NTask -> NetCall]
  BY <1>1, <1>2, <1>3 DEF PortTypes
<1>6. PortTypes'
  BY <1>1, <1>2, <1>4, <1>5 DEF PortTypes
<1>7. ASSUME Quiet PROVE OneCall' /\ Ready' /\ ~nlast'
  <2>1. OneCall /\ ~nlast
    BY <1>7 DEF PortInv
  <2>2. \A u \in NTask : ncall'[u].op = "none"
    BY <1>1, <1>2, <2>1 DEF PortTypes, OneCall, NoNetCall
  <2> QED
    BY <1>1, <2>1, <2>2 DEF OneCall, Ready
<1> QED
  BY <1>6, <1>7 DEF PortInv, Quiet, Likes

\* A port that is given back leaves the others as they were.
LEMMA CloseKeeps ==
    ASSUME PortInv, UNCHANGED port_guest, NEW t \in NTask, NEW port \in Port, CloseSocket(t, port)
    PROVE  PortInv'
<1>1. /\ owner' = [owner EXCEPT ![port] = "free"]
      /\ UNCHANGED <<poptions, switch, buffer, ncall, nlast>>
  BY DEF CloseSocket
<1>2. PortTypes'
  BY <1>1 DEF PortInv, PortTypes
<1>3. Bindable \subseteq Bindable'
  BY <1>1 DEF PortInv, PortTypes, Bindable
<1> QED
  BY <1>1, <1>2, <1>3 DEF PortInv, Quiet, Likes, OneCall, Ready

\* The host takes a port while no call is under way, or races.
LEMMA HostKeeps ==
    ASSUME PortInv, UNCHANGED port_guest, NEW port \in Port, HostTakes(port)
    PROVE  PortInv'
<1>1. /\ owner' = [owner EXCEPT ![port] = "host"]
      /\ Likes("races") \/ \A t \in NTask : ncall[t].op = "none"
      /\ UNCHANGED <<poptions, switch, buffer, ncall, nlast>>
  BY DEF HostTakes
<1>2. PortTypes'
  BY <1>1 DEF PortInv, PortTypes
<1>3. Quiet => Ready'
  BY <1>1 DEF Quiet, Ready
<1> QED
  BY <1>1, <1>2, <1>3 DEF PortInv, Quiet, Likes, OneCall

\* handle_port_translation() and bind(2): for any number of guests and of ports, any mappings
\* and any bound on the search, the port PRoot writes to the guest's buffer is one the kernel
\* binds, unless somebody else binds in between or the guest reuses its buffer.
THEOREM SwitchedBindsSucceed == PortSpec => []SwitchedBindSucceeds
<1>1. PortInit => PortInv
  BY PortInitInv
<1>2. PortInv /\ [PortNext]_portVars => PortInv'
  <2> SUFFICES ASSUME PortInv, [PortNext]_portVars PROVE PortInv'
    OBVIOUS
  <2>1. CASE UNCHANGED portVars
    BY <2>1 DEF portVars, PortInv, PortTypes, Quiet, Likes, OneCall, Ready, Bindable
  <2>2. CASE PortNext
    <3>1. PortStep /\ UNCHANGED port_guest
      BY <2>2 DEF PortNext
    <3>2. CASE PortOption
      BY <3>1, <3>2, OptionKeeps
    <3>3. CASE \E t \in NTask : OtherInKernel(t)
      BY <3>1, <3>3, OtherKeeps
    <3>4. CASE \E t \in NTask, op \in {"bind", "connect", "sendto"}, localhost \in BOOLEAN,
                  port, meant \in 0 .. HighPort : NetEnter(t, op, port, meant, localhost)
      BY <3>1, <3>4, EnterKeeps
    <3>5. CASE \E t \in NTask, port \in Port : BindInKernel(t, port) \/ CloseSocket(t, port)
      BY <3>1, <3>5, BindKeeps, CloseKeeps
    <3>6. CASE \E port \in Port : HostTakes(port)
      BY <3>1, <3>6, HostKeeps
    <3> QED
      BY <3>1, <3>2, <3>3, <3>4, <3>5, <3>6 DEF PortStep
  <2> QED
    BY <2>1, <2>2 DEF PortNext
<1>3. PortInv => SwitchedBindSucceeds
  BY DEF PortInv, Quiet, SwitchedBindSucceeds
<1> QED
  BY <1>1, <1>2, <1>3, PTL DEF PortSpec

================================================================================
