------------------------------- MODULE IpcMsg -------------------------------
(***************************************************************************)
(* Message queues of the sysvipc extension.  msgsnd always queues the      *)
(* message; a tracee waiting for one like it is woken to try again when it *)
(* comes out of its ppoll.  Message texts are left out, their length is    *)
(* not.                                                                    *)
(***************************************************************************)
EXTENDS IpcWait

CONSTANTS
    Messages,  \* the messages sent: records with mtype and length
    Receives,  \* what msgrcv is called with: records with typ, size, flags
    MaxSends,  \* bound on the messages sent
    MaxQueues, \* bound on the queues that exist
    MaxMsggets \* bound on the queues created

VARIABLES
    queues,    \* ipc_namespace->queues
    sends,     \* messages sent so far, which numbers them
    created,   \* queues created so far
    delivered, \* how often each message has been delivered
    strays     \* messages delivered from another queue than the one asked for

msgVars == <<queues, sends, created, delivered, strays>>

MsgInit ==
    /\ queues = <<>> /\ sends = 0 /\ created = 0
    /\ delivered = [m \in 1..MaxSends |-> 0]
    /\ strays = {}

MsgUnchanged == UNCHANGED msgVars

ASSUME MaxQueuesAssumption == MaxQueues \in 1..Slots

\* sysvipc_msg_match()
sysvipc_msg_match(mtype, typ, flags) ==
    LET matched == typ = 0 \/ mtype = typ \/ (typ < 0 /\ mtype <= -typ)
    IN  IF "EXCEPT" \in flags THEN ~matched ELSE matched

\* A queue is created, or the one with that key is found and nothing changes.
Msgget(t, key) ==
    /\ Calls(t)
    /\ IF WithKey(queues, key) # {}
       THEN UNCHANGED <<queues, created>>
       ELSE LET i == NewSlot(queues) IN
            /\ created < MaxMsggets /\ i <= MaxQueues
            /\ queues' = Put(queues, i, [valid |-> TRUE, gen |-> Generation(queues, i),
                                         key |-> key, items |-> <<>>])
            /\ created' = created + 1
    /\ syscall_common(t, config, "OK")
    /\ UNCHANGED <<guest, live, aborted, sends, delivered, strays>>

\* Those waiting on queue i for a message like m.
Receivers(i, m) ==
    { u \in live : /\ config[u].reason = "QUEUE_RECV" /\ config[u].obj = i
                   /\ sysvipc_msg_match(m.mtype, config[u].arg.typ, config[u].arg.flags) }

\* Wrong variant: the message is only queued.
no_receiver_woken(i, m) == config

\* The configurations once the first receiver has been told to try again.
FirstReceiverWoken(i, m) ==
    IF Receivers(i, m) = {} THEN config
    ELSE LET u == Min(Receivers(i, m)) IN
         [config EXCEPT ![u] = Woken([@ EXCEPT !.chain = "MSGRCV_RETRY"], "EAGAIN")]

Msgsnd(t, i, m) ==
    /\ Calls(t) /\ Lookup(queues, i) /\ sends < MaxSends
    /\ sends' = sends + 1
    /\ queues' = [queues EXCEPT ![i].items =
                      Append(@, [id |-> sends', mtype |-> m.mtype, length |-> m.length,
                                 to |-> <<i, queues[i].gen>>])]
    /\ syscall_common(t, FirstReceiverWoken(i, m), "OK")
    /\ aborted' = \E u \in Receivers(i, m) : u = Min(Receivers(i, m)) /\ ~WakeAsserts(config[u])
    /\ UNCHANGED <<guest, live, created, delivered, strays>>

\* The place of the item msgrcv looks for: with COPY the typ-th, otherwise the
\* first that matches; 0 if there is none.
FoundItem(items, r) ==
    IF "COPY" \in r.flags
    THEN IF r.typ + 1 \in DOMAIN items THEN r.typ + 1 ELSE 0
    ELSE SelectInSeq(items, LAMBDA item : sysvipc_msg_match(item.mtype, r.typ, r.flags))

\* sysvipc_msg_deliver() gives the message over, unless it is too long.
Fits(item, r) == item.length <= r.size \/ "NOERROR" \in r.flags

\* Wrong variant of what follows.
item_kept(items, k) == items

ItemRemoved(items, k) == RemoveAt(items, k)

\* sysvipc_do_msgrcv() on queue i when it finds item k for a call that asked
\* for the queue r.from; -E2BIG leaves everything as it is.
Deliver(i, k, r) ==
    LET item == queues[i].items[k] IN
    IF ~Fits(item, r) \/ "COPY" \in r.flags
    THEN UNCHANGED <<queues, delivered, strays>>
    ELSE /\ queues' = [queues EXCEPT ![i].items = ItemRemoved(@, k)]
         /\ delivered' = [delivered EXCEPT ![item.id] = @ + 1]
         /\ strays' = IF r.from = item.to THEN strays ELSE strays \cup {item.id}

Msgrcv(t, i, receive) ==
    /\ Calls(t) /\ Lookup(queues, i)
    /\ "short_buffers" \in guest \/ \A m \in Messages : Fits(m, receive)
    /\ LET r == [typ |-> receive.typ, size |-> receive.size, flags |-> receive.flags,
                 from |-> <<i, queues[i].gen>>]
           k == FoundItem(queues[i].items, r)
           c == [config EXCEPT ![t].arg = r]
       IN  IF k # 0
           THEN /\ Deliver(i, k, r)
                /\ syscall_common(t, config, "OK")
           ELSE /\ IF "NOWAIT" \in r.flags
                   THEN syscall_common(t, config, "OK")
                   ELSE syscall_common(t, [c EXCEPT ![t].reason = "QUEUE_RECV", ![t].obj = i], "OK")
                /\ UNCHANGED <<queues, delivered, strays>>
    /\ UNCHANGED <<guest, live, aborted, sends, created>>

\* sysvipc_msgrcv_retry(), when the woken receiver comes out of its ppoll.  If
\* the message is gone the call is interrupted for nothing.
MsgrcvRetry(t) ==
    /\ GetsResult(t) /\ config[t].chain = "MSGRCV_RETRY"
    /\ LET i == config[t].obj
           k == FoundItem(queues[i].items, config[t].arg)
       IN  IF config[t].status # "EAGAIN"
           THEN UNCHANGED <<queues, delivered, strays, aborted>>
           ELSE IF ~queues[i].valid
           THEN aborted' = TRUE /\ UNCHANGED <<queues, delivered, strays>>
           ELSE /\ IF k = 0 THEN UNCHANGED <<queues, delivered, strays>>
                   ELSE Deliver(i, k, config[t].arg)
                /\ UNCHANGED aborted
    /\ config' = [config EXCEPT ![t] = Resumed(@)]
    /\ at' = [at EXCEPT ![t] = "run"]
    /\ UNCHANGED <<guest, live, sends, created>>

QueueWaiters(i) == { u \in live : config[u].reason = "QUEUE_RECV" /\ config[u].obj = i }

\* IPC_RMID: whoever waits is told, then the queue and its items are freed.
MsgctlRmid(t, i) ==
    /\ Calls(t) /\ Lookup(queues, i) /\ "removes" \in guest
    /\ queues' = [queues EXCEPT ![i].valid = FALSE, ![i].items = <<>>,
                                ![i].gen = NextGeneration(@)]
    /\ syscall_common(t, [u \in Tracee |-> IF u \in QueueWaiters(i)
                                           THEN Woken(config[u], "EIDRM") ELSE config[u]], "OK")
    /\ aborted' = \E u \in QueueWaiters(i) : ~WakeAsserts(config[u])
    /\ UNCHANGED <<guest, live, sends, created, delivered, strays>>

MsgNext ==
    \/ \E t \in Tracee :
          \/ \E key \in Keys : Msgget(t, key)
          \/ \E i \in 1..Slots :
                \/ \E m \in Messages : Msgsnd(t, i, m)
                \/ \E r \in Receives : Msgrcv(t, i, r)
                \/ MsgctlRmid(t, i)
          \/ MsgrcvRetry(t)
    \/ /\ \E t \in Tracee : \/ FailedCall(t) \/ PpollEnds(t) \/ EnterPpoll(t)
                            \/ ExitInterrupted(t) \/ ExitDone(t) \/ Dies(t)
       /\ MsgUnchanged
=============================================================================
