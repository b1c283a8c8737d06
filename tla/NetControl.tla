------------------------------ MODULE NetControl -------------------------------
(***************************************************************************)
(* The control channel of extension/net_policy: what the static policy     *)
(* leaves open is decided by a harness at the other end of a stream socket *)
(* (`proot --control-fd`, protocol PRCT).  PRoot asks while it handles the *)
(* entry of a system call and waits for the answer, without a limit; the   *)
(* harness sends commands of its own (rules, shadows) at any time.         *)
(*                                                                         *)
(* PRoot is one thread: at most one call is being handled.  The harness is *)
(* the ControlChannel of control-api, which waits for the result of each   *)
(* command before it sends the next.                                       *)
(***************************************************************************)
EXTENDS Naturals, Sequences, SequencesExt

CONSTANTS
    Calls,          \* calls of the guests, as sequences of checks; see Lookup, Connect
    Keys,           \* what rules are about: Keys.path, Keys.net
    Declared,       \* sequences of the guest paths given by --hide
    Entries,        \* guest paths that are listed by getdents(2)
    Harnesses,      \* sets of habits; see Habits
    MaxRules,       \* 128 and 64 in the code: slots of a table of rules
    MaxUnsolicited, \* 32 in the code: frames read while waiting for an answer
    Buffer,         \* frames the socket holds before a write times out
    MaxRequests, MaxCommands \* bounds of the model

(***************************************************************************)
(* "once", "always": how requests are answered; "rules", "forgets",        *)
(* "reveals", "asks": the commands that are sent; "again": rules are set   *)
(* for keys that have one; "apart": the ids of commands are none of those  *)
(* PRoot numbers its requests with (the libraries start at 1, as PRoot     *)
(* does); "closes", "garbage": the harness ends, sends a malformed frame.  *)
(***************************************************************************)
Habits == {"once", "always", "rules", "forgets", "reveals", "asks", "again", "apart",
           "closes", "garbage"}

Key == Keys.path \union Keys.net
Table(k) == IF k \in Keys.net THEN "net" ELSE "path"

ASSUME ControlAssumption ==
    /\ Keys.path \intersect Keys.net = {} /\ \A h \in Harnesses : h \subseteq Habits
    /\ MaxRules \in Nat /\ MaxUnsolicited \in Nat \ {0} /\ Buffer \in Nat \ {0}

VARIABLES
    habits,    \* what the harness does
    proot,     \* the NetPolicyConfig: failed, rules, shadows, next_id
    wire,      \* the socket: up, to the harness; down, to PRoot; hup, the harness has closed
    call,      \* the checks that are left of the call being handled, or <<>>
    ask,       \* the request PRoot waits for an answer to
    harness,   \* the ControlChannel: sent, the commands so far; waiting; held, to be answered
    believed,  \* the standing rule the harness takes PRoot to have for each key
    onces,     \* how often the harness has let each key pass once
    grants     \* how often PRoot has let each key pass, but for rules the harness believes in

controlVars == <<habits, proot, wire, call, ask, harness, believed, onces, grants>>

NoAsk == [id |-> 0]
NoWait == [id |-> 0]

--------------------------------------------------------------------------------
(* Rules: slots that are filled from the first free one on.               *)

Free == [active |-> FALSE]
NewRule(k, allow, persistent) == [active |-> TRUE, key |-> k, allow |-> allow, persistent |-> persistent]

Matching(rules, k) == {i \in DOMAIN rules : rules[i].active /\ rules[i].key = k}
First(S) == CHOOSE i \in S : \A j \in S : i <= j

Slot(rules) ==
    LET free == {i \in DOMAIN rules : ~rules[i].active}
    IN  IF free = {} THEN Len(rules) + 1 ELSE First(free)

HasSlot(rules) == Slot(rules) <= MaxRules

Put(rules, r) ==
    IF Slot(rules) \in DOMAIN rules THEN [rules EXCEPT ![Slot(rules)] = r] ELSE Append(rules, r)

Used_kept(rules, i) == rules

\* A rule that is used is gone, unless it is persistent.
Used(rules, i) == IF rules[i].persistent THEN rules ELSE [rules EXCEPT ![i] = Free]

\* The first rule for the key.
Forgotten(rules, k) ==
    IF Matching(rules, k) = {} THEN rules ELSE [rules EXCEPT ![First(Matching(rules, k))] = Free]

--------------------------------------------------------------------------------
(* Shadows: guest paths that are hidden.                                  *)

Under(path, base) == IsPrefix(base, path)
Open(s, path) == s.revealed /\ (path = s.path \/ s.recursive)

\* The first shadow that contains the path decides.
Covering(shadows, path) == {i \in DOMAIN shadows : Under(path, shadows[i].path)}
Hidden(shadows, path) ==
    Covering(shadows, path) # {} /\ ~Open(shadows[First(Covering(shadows, path))], path)

\* Any shadow that contains the path hides it from getdents(2).
hides_entry(shadows, path) == \E i \in Covering(shadows, path) : ~Open(shadows[i], path)

Revealed(shadows, f) ==
    [i \in DOMAIN shadows |->
        IF shadows[i].path # f.path THEN shadows[i]
        ELSE [shadows[i] EXCEPT !.revealed = (f.type = "reveal"),
                                !.recursive = (f.type = "reveal" /\ f.recursive)]]

--------------------------------------------------------------------------------
(* The channel, as PRoot uses it: s is [p |-> proot, w |-> wire].         *)

State == [p |-> proot, w |-> wire]
Failed(s) == [s EXCEPT !.p.failed = TRUE]

\* A write that finds the peer gone, or no room for a second, fails; the channel with it.
Write(s, f) ==
    IF s.w.hup \/ Len(s.w.up) >= Buffer THEN Failed(s) ELSE [s EXCEPT !.w.up = Append(@, f)]

Applicable(p, f) ==
    CASE f.type = "set" -> HasSlot(p.rules[Table(f.key)])
      [] f.type \in {"forget", "reveal", "restore", "state"} -> TRUE
      [] OTHER -> FALSE

\* A rule for a path that is set lasts, one for the network is used once.
Applied(p, f) ==
    CASE f.type = "set" ->
            [p EXCEPT !.rules[Table(f.key)] = Put(@, NewRule(f.key, f.allow, Table(f.key) = "path"))]
      [] f.type = "forget" -> [p EXCEPT !.rules[Table(f.key)] = Forgotten(@, f.key)]
      [] f.type \in {"reveal", "restore"} -> [p EXCEPT !.shadows = Revealed(@, f)]
      [] OTHER -> p

Result(id) == [type |-> "result", id |-> id]

\* A command, and its result.
Command(s, f) ==
    IF ~Applicable(s.p, f) THEN Failed(s)
    ELSE Write([s EXCEPT !.p = Applied(@, f)], Result(f.id))

Received(s) == [s EXCEPT !.w.down = Tail(@)]

\* One command at most is taken from the channel, without waiting for it.
Drained(s) ==
    IF s.p.failed \/ s.w.hup THEN Failed(s)
    ELSE IF s.w.down = <<>> THEN s
    ELSE Command(Received(s), Head(s.w.down))

--------------------------------------------------------------------------------
(* The calls of the guests.                                               *)

Check(what, k, control, static) == [what |-> what, key |-> k, control |-> control, static |-> static]

\* canonicalize() asks for the whole path and for each of its components; translate_path()
\* for what they lead to.  control: no binding exempts the path; static: its binding allows it.
Lookup(k, control, static) ==
    LET shadow(path) == Check("shadow", [k EXCEPT !.path = path], FALSE, TRUE)
    IN  <<shadow(k.path)>> \o [i \in DOMAIN k.path |-> shadow(SubSeq(k.path, 1, i))]
        \o <<Check("policy", k, control, static)>>

\* A destination the static rules do not deny.
Connect(k) == <<Check("net", k, TRUE, TRUE)>>

Getdents == <<Check("list", [op |-> "list"], FALSE, TRUE)>>

Handling == call # <<>> /\ ask = NoAsk
Doing(what) == Handling /\ Head(call).what = what

Becomes(s) == proot' = s.p /\ wire' = s.w

Refused == call' = <<>> /\ UNCHANGED grants

\* What the harness believes in is a rule it has set; the rest is let through once.
Granted(k) == grants' = IF believed[k] = "allow" THEN grants ELSE [grants EXCEPT ![k] = @ + 1]

\* Approval does not overrule a binding that denies what had to be asked for.
Passed(c) ==
    /\ call' = IF c.what = "policy" /\ c.control /\ ~c.static THEN <<>> ELSE Tail(call)
    /\ Granted(c.key)

ByRule(s, c) ==
    LET t == Table(c.key)
        i == First(Matching(s.p.rules[t], c.key))
    IN  /\ Becomes([s EXCEPT !.p.rules[t] = Used(@, i)])
        /\ ask' = NoAsk
        /\ IF s.p.rules[t][i].allow THEN Passed(c) ELSE Refused

Request(s, c) ==
    LET id == s.p.next_id + 1
        w == Write([s EXCEPT !.p.next_id = id], [type |-> "request", id |-> id, key |-> c.key])
    IN  /\ Becomes(w)
        /\ IF w.p.failed THEN Refused /\ ask' = NoAsk
           ELSE /\ ask' = [id |-> id, check |-> c, reads |-> 0]
                /\ UNCHANGED <<call, grants>>

\* control_path_access()
PathAccess(s, c) ==
    LET d == Drained(s)
    IN  IF d.p.failed THEN Becomes(d) /\ Refused /\ ask' = NoAsk
        ELSE IF Matching(d.p.rules.path, c.key) # {} THEN ByRule(d, c)
        ELSE Request(d, c)

NextCheck == call' = Tail(call) /\ UNCHANGED <<proot, wire, ask, grants>>

\* SYSCALL_ENTER_START: a command is looked for before anything else.  A channel that has
\* failed denies every call.
Begin(c) ==
    /\ call = <<>> /\ ~proot.failed /\ proot.next_id < MaxRequests
    /\ LET d == Drained(State) IN
          /\ Becomes(d)
          /\ call' = IF d.p.failed THEN <<>> ELSE c
    /\ UNCHANGED <<habits, ask, harness, believed, onces, grants>>

\* net_policy_shadow_access(): the harness is told, and asked.
ShadowAccess ==
    /\ Doing("shadow")
    /\ LET c == Head(call)
           id == proot.next_id + 1
           w == Write([State EXCEPT !.p.next_id = id], [type |-> "event", id |-> id])
       IN  IF ~Hidden(proot.shadows, c.key.path) THEN NextCheck
           ELSE IF w.p.failed THEN Becomes(w) /\ Refused /\ ask' = NoAsk
           ELSE PathAccess(w, c)
    /\ UNCHANGED <<habits, harness, believed, onces>>

\* The end of translate_path(): a rule that is there already, the harness if the path is not
\* exempt, or if it is and its binding denies the access.
PolicyAccess ==
    /\ Doing("policy")
    /\ LET c == Head(call)
           m == Matching(proot.rules.path, c.key)
           r == proot.rules.path[First(m)]
       IN  \/ m # {} /\ (c.control \/ c.static \/ ~r.allow) /\ ByRule(State, c)
           \/ m # {} /\ ~c.control /\ ~c.static /\ r.allow
              /\ PathAccess([State EXCEPT !.p.rules.path = Used(@, First(m))], c)
           \/ m = {} /\ (c.control \/ ~c.static) /\ PathAccess(State, c)
           \/ m = {} /\ ~c.control /\ c.static /\ NextCheck
    /\ UNCHANGED <<habits, harness, believed, onces>>

\* ask_harness()
NetAccess ==
    /\ Doing("net")
    /\ LET c == Head(call) IN
          IF Matching(proot.rules.net, c.key) # {} THEN ByRule(State, c) ELSE Request(State, c)
    /\ UNCHANGED <<habits, harness, believed, onces>>

\* control_filter_getdents(), at the exit of the call.
ListEntries ==
    /\ Doing("list")
    /\ Becomes(Drained(State)) /\ call' = <<>>
    /\ UNCHANGED <<habits, ask, harness, believed, onces, grants>>

--------------------------------------------------------------------------------
(* The answer.                                                            *)

Ends(s) == Becomes(s) /\ Refused /\ ask' = NoAsk

\* A frame with another id is a command, if it has the form of one; too many of them fail.
Unsolicited(s, f) ==
    LET d == Command(s, f)
        e == IF ask.reads + 1 = MaxUnsolicited THEN Failed(d) ELSE d
    IN  IF e.p.failed THEN Ends(e)
        ELSE Becomes(e) /\ ask' = [ask EXCEPT !.reads = @ + 1] /\ UNCHANGED <<call, grants>>

\* "Always" makes a rule.  If there is no slot for it the answer holds for a path, but a
\* network request fails, and the channel with it.
Remembered(s, f) ==
    LET k == ask.check.key
        t == Table(k)
    IN  IF ~f.always THEN s
        ELSE IF HasSlot(s.p.rules[t]) THEN [s EXCEPT !.p.rules[t] = Put(@, NewRule(k, f.allow, TRUE))]
        ELSE IF t = "net" THEN Failed(s) ELSE s

Decision(s, f) ==
    LET m == Remembered(s, f)
    IN  IF m.p.failed \/ ~f.allow THEN Ends(m)
        ELSE Becomes(m) /\ Passed(ask.check) /\ ask' = NoAsk

Answer_strict(s, f) ==
    IF f.id = ask.id /\ f.type = "answer" THEN Decision(s, f) ELSE Ends(Failed(s))

Answer(s, f) ==
    IF f.id # ask.id THEN Unsolicited(s, f)
    ELSE IF f.type = "answer" THEN Decision(s, f) ELSE Ends(Failed(s))

ReadAnswer_deaf ==
    /\ ask # NoAsk /\ wire.down # <<>>
    /\ Answer(Received(State), Head(wire.down))
    /\ UNCHANGED <<habits, harness, believed, onces>>

\* The read has no timeout; it ends when the peer is gone, whatever it has sent before.
ReadAnswer ==
    /\ ask # NoAsk /\ (wire.hup \/ wire.down # <<>>)
    /\ IF wire.hup THEN Ends(Failed(State)) ELSE Answer(Received(State), Head(wire.down))
    /\ UNCHANGED <<habits, harness, believed, onces>>

ProotStep == ShadowAccess \/ PolicyAccess \/ NetAccess \/ ListEntries \/ ReadAnswer

--------------------------------------------------------------------------------
(* The harness.                                                           *)

Send(f) == ~wire.hup /\ wire' = [wire EXCEPT !.down = Append(@, f)]

\* The next frame: a request is held until it is answered; the result is that of the command
\* the harness waits for.
HarnessReceives ==
    /\ ~wire.hup /\ wire.up # <<>>
    /\ wire' = [wire EXCEPT !.up = Tail(@)]
    /\ LET f == Head(wire.up)
           w == harness.waiting
       IN  \/ /\ f.type = "request"
              /\ harness' = [harness EXCEPT !.held = @ \union {f}]
              /\ UNCHANGED believed
           \/ /\ f.type = "result"
              /\ harness' = [harness EXCEPT !.waiting = NoWait]
              /\ believed' = IF w # NoWait /\ w.type = "forget"
                             THEN [believed EXCEPT ![w.key] = "none"] ELSE believed
           \/ f.type = "event" /\ UNCHANGED <<harness, believed>>
    /\ UNCHANGED <<habits, proot, call, ask, onces, grants>>

Forgetting(k) == harness.waiting # NoWait /\ harness.waiting.type = "forget" /\ harness.waiting.key = k
MayRule(k) == ~Forgetting(k) /\ ("again" \in habits \/ believed[k] = "none")

Decided(allow) == IF allow THEN "allow" ELSE "deny"

\* A request is answered, for once or for good.
Respond(r, allow, always) ==
    /\ IF always THEN "always" \in habits /\ MayRule(r.key) ELSE "once" \in habits
    /\ Send([type |-> "answer", id |-> r.id, allow |-> allow, always |-> always])
    /\ harness' = [harness EXCEPT !.held = @ \ {r}]
    /\ believed' = IF always THEN [believed EXCEPT ![r.key] = Decided(allow)] ELSE believed
    /\ onces' = IF allow /\ ~always THEN [onces EXCEPT ![r.key] = @ + 1] ELSE onces
    /\ UNCHANGED <<habits, proot, call, ask, grants>>

CommandId == IF "apart" \in habits THEN 1000 + harness.sent ELSE harness.sent + 1

HarnessCommand(f) ==
    /\ harness.waiting = NoWait /\ harness.sent < MaxCommands
    /\ Send([f EXCEPT !.id = CommandId])
    /\ harness' = [harness EXCEPT !.sent = @ + 1, !.waiting = [f EXCEPT !.id = CommandId]]
    /\ UNCHANGED <<habits, proot, call, ask, grants>>

\* A rule for a path stands; one for the network lets through once.
SetRule(k, allow) ==
    /\ "rules" \in habits /\ MayRule(k)
    /\ HarnessCommand([type |-> "set", id |-> 0, key |-> k, allow |-> allow])
    /\ believed' = IF Table(k) = "path" THEN [believed EXCEPT ![k] = Decided(allow)] ELSE believed
    /\ onces' = IF Table(k) = "net" /\ allow THEN [onces EXCEPT ![k] = @ + 1] ELSE onces

Forget(k) ==
    /\ "forgets" \in habits
    /\ HarnessCommand([type |-> "forget", id |-> 0, key |-> k])
    /\ UNCHANGED <<believed, onces>>

RevealShadow(path, recursive) ==
    /\ "reveals" \in habits
    /\ HarnessCommand([type |-> "reveal", id |-> 0, path |-> path, recursive |-> recursive])
    /\ UNCHANGED <<believed, onces>>

RestoreShadow(path) ==
    /\ "reveals" \in habits
    /\ HarnessCommand([type |-> "restore", id |-> 0, path |-> path, recursive |-> FALSE])
    /\ UNCHANGED <<believed, onces>>

GetState ==
    /\ "asks" \in habits
    /\ HarnessCommand([type |-> "state", id |-> 0])
    /\ UNCHANGED <<believed, onces>>

Garbage ==
    /\ "garbage" \in habits /\ Send([type |-> "garbage", id |-> 0])
    /\ habits' = habits \ {"garbage"}
    /\ UNCHANGED <<proot, call, ask, harness, believed, onces, grants>>

Close ==
    /\ "closes" \in habits /\ ~wire.hup
    /\ wire' = [wire EXCEPT !.hup = TRUE]
    /\ UNCHANGED <<habits, proot, call, ask, harness, believed, onces, grants>>

HarnessStep ==
    \/ HarnessReceives
    \/ \E r \in harness.held, allow, always \in BOOLEAN : Respond(r, allow, always)
    \/ \E k \in Key, allow \in BOOLEAN : SetRule(k, allow)
    \/ \E k \in Key : Forget(k)
    \/ \E i \in DOMAIN proot.shadows, recursive \in BOOLEAN :
          RevealShadow(proot.shadows[i].path, recursive)
    \/ \E i \in DOMAIN proot.shadows : RestoreShadow(proot.shadows[i].path)
    \/ GetState \/ Garbage \/ Close

ControlInit ==
    /\ habits \in Harnesses
    /\ \E d \in Declared :
          proot = [failed |-> FALSE, next_id |-> 0, rules |-> [path |-> <<>>, net |-> <<>>],
                   shadows |-> [i \in DOMAIN d |-> [path |-> d[i], revealed |-> FALSE, recursive |-> FALSE]]]
    /\ wire = [up |-> <<>>, down |-> <<>>, hup |-> FALSE]
    /\ call = <<>> /\ ask = NoAsk
    /\ harness = [sent |-> 0, waiting |-> NoWait, held |-> {}]
    /\ believed = [k \in Key |-> "none"]
    /\ onces = [k \in Key |-> 0] /\ grants = [k \in Key |-> 0]

ControlNext == (\E c \in Calls : Begin(c)) \/ ProotStep \/ HarnessStep

\* PRoot goes on with a call it has begun; the harness goes on reading the channel and
\* answers what it is asked, as control-api/README.md demands of it.
ControlFairness ==
    /\ WF_controlVars(ProotStep)
    /\ WF_controlVars(HarnessReceives)
    /\ WF_controlVars(\E r \in harness.held, allow, always \in BOOLEAN : Respond(r, allow, always))

ControlSpec == ControlInit /\ [][ControlNext]_controlVars /\ ControlFairness

--------------------------------------------------------------------------------
(* Properties.                                                            *)

\* One approval, one access: PRoot lets a key pass no more often than the harness has said
\* ALLOW_ONCE (or set a one-shot rule) for it, but for the keys of a standing rule.  After the
\* result of FORGET the rule stands no more, unless it was set twice.
OnceMeansOnce == "again" \notin habits => \A k \in Key : grants[k] <= onces[k]

\* A channel fails for a reason, of which a harness with ids of its own has only these: it has
\* closed the channel or sent a malformed frame, there is no slot for its rule, it has not read
\* what PRoot writes, or has sent more than PRoot reads while it waits for an answer.
FailsForCause ==
    [][~proot.failed /\ proot'.failed /\ "apart" \in habits =>
          \/ wire.hup \/ Len(wire'.up) >= Buffer
          \/ wire.down # <<>> /\ Head(wire.down).type = "garbage"
          \/ \E t \in {"path", "net"} : ~HasSlot(proot.rules[t])
          \/ ask # NoAsk /\ ask.reads + 1 >= MaxUnsolicited]_controlVars

\* Some shadow lies below another.
Nested ==
    \E i, j \in DOMAIN proot.shadows : i # j /\ Under(proot.shadows[i].path, proot.shadows[j].path)

\* getdents(2) lists exactly the entries a lookup finds without asking.
ListingAgrees ==
    ~Nested => \A path \in Entries : hides_entry(proot.shadows, path) <=> Hidden(proot.shadows, path)

\* Every call the harness is asked about comes to an end: it is answered, or the channel fails.
EveryCallEnds == (call # <<>>) ~> (call = <<>>)

================================================================================
