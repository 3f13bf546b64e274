---------------------------- MODULE ModbusGateway ----------------------------
(***************************************************************************)
(* The Modbus TCP to RTU gateway: class ModbusGatewayRunner of             *)
(* app/engine/modbus_gateway.py.  Several TCP masters and the poll loop    *)
(* share one serial bus; a transaction holds the bus lock from the moment  *)
(* it looks for the serial port until it has a reply or has given up.      *)
(*                                                                         *)
(* A request is a record of its sender, its number there and the slave     *)
(* (unit) it is for; a frame on the bus is the answer to such a request,   *)
(* intact or damaged.  The frames that arrive with no gap between them are *)
(* read as one, which fails the CRC.                                       *)
(***************************************************************************)
EXTENDS Naturals, Sequences, FiniteSets

CONSTANTS
    Masters,          \* TCP masters, each connects once
    Poller,           \* the poll loop
    Units,            \* slave ids
    MaxConnections,   \* network.max_connections
    MaxReqs,          \* bound: requests of a sender
    MaxLosses,        \* bound: times the device is unplugged
    LateReplies,      \* a slave may answer after the response timeout
    None

Senders  == Masters \cup {Poller}
Requests == [who : Senders, n : 1 .. MaxReqs, unit : Units]

ASSUME GatewayAssumption ==
    /\ MaxConnections \in Nat \ {0} /\ MaxReqs \in Nat /\ MaxLosses \in Nat
    /\ LateReplies \in BOOLEAN
    /\ Poller \notin Masters /\ None \notin Senders /\ None \notin Requests

VARIABLES
    stopped,   \* _stop is set
    serial,    \* the serial supervisor: opening, open, backoff or ended
    alive,     \* the open port still leads to the device
    plugged,   \* the device is there
    losses,    \* times it was unplugged
    slaves,    \* requests a slave has read and not answered
    bus,       \* frames in the serial reader's buffer
    lock,      \* the sender that holds _bus_lock, or None
    waiters,   \* the senders queued for it
    conn,      \* master -> new, serving, closing (transport gone) or gone
    sent,      \* sender -> requests made
    inbox,     \* sender -> requests received and not taken up
    pc,        \* sender -> where it awaits
    cur,       \* sender -> the request of its transaction, or None
    taken,     \* sender -> frames read so far for the reply
    got        \* sender -> answers, each with the request and the frame (None: exception 0x0B)

device  == <<serial, alive, plugged, losses>>
wire    == <<slaves, bus>>
txn     == <<lock, waiters, pc, cur, taken, got>>
clients == <<conn, sent, inbox>>
vars    == <<stopped, device, wire, txn, clients>>

Init ==
    /\ stopped = FALSE /\ serial = "opening" /\ alive = FALSE /\ plugged = TRUE /\ losses = 0
    /\ slaves = {} /\ bus = <<>> /\ lock = None /\ waiters = <<>>
    /\ conn = [m \in Masters |-> "new"]
    /\ sent = [a \in Senders |-> 0] /\ inbox = [a \in Senders |-> <<>>]
    /\ pc = [a \in Senders |-> "idle"] /\ cur = [a \in Senders |-> None]
    /\ taken = [a \in Senders |-> <<>>] /\ got = [a \in Senders |-> <<>>]

-----------------------------------------------------------------------------
(* _serial_supervisor and the device                                       *)

OpenOk ==
    /\ serial = "opening" /\ plugged
    /\ serial' = "open" /\ alive' = TRUE /\ bus' = <<>>
    /\ UNCHANGED <<stopped, plugged, losses, slaves, txn, clients>>

OpenFails ==
    /\ serial = "opening" /\ ~plugged
    /\ serial' = "backoff"
    /\ UNCHANGED <<stopped, alive, plugged, losses, wire, txn, clients>>

BackoffOver ==
    /\ serial = "backoff"
    /\ serial' = "opening"
    /\ UNCHANGED <<stopped, alive, plugged, losses, wire, txn, clients>>

\* The device goes: the reader is at its end, but the supervisor awaits _stop.
Unplug ==
    /\ plugged /\ losses < MaxLosses
    /\ plugged' = FALSE /\ alive' = FALSE /\ losses' = losses + 1
    /\ slaves' = {}
    /\ UNCHANGED <<stopped, serial, bus, txn, clients>>

Replug ==
    /\ ~plugged
    /\ plugged' = TRUE
    /\ UNCHANGED <<stopped, serial, alive, losses, wire, txn, clients>>

SlaveAnswers(r) ==
    /\ r \in slaves /\ alive
    /\ slaves' = slaves \ {r}
    /\ \E intact \in BOOLEAN : bus' = Append(bus, [req |-> r, intact |-> intact])
    /\ UNCHANGED <<stopped, device, txn, clients>>

SlaveKeepsSilent(r) ==
    /\ r \in slaves
    /\ slaves' = slaves \ {r}
    /\ UNCHANGED <<stopped, device, bus, txn, clients>>

-----------------------------------------------------------------------------
(* The senders: _on_client's read loop and _poll_loop                      *)

\* There is somebody to take the answer.
Listening(a) == IF a = Poller THEN ~stopped ELSE conn[a] = "serving"

Connected == {m \in Masters : conn[m] \in {"serving", "closing"}}

\* _on_client up to the read loop.
Connect(m) ==
    /\ conn[m] = "new" /\ ~stopped
    /\ conn' = [conn EXCEPT ![m] = IF Cardinality(Connected) >= MaxConnections
                                     THEN "gone" ELSE "serving"]
    /\ UNCHANGED <<stopped, device, wire, txn, sent, inbox>>

\* A master sends, also while it waits for answers; the poll loop asks for its
\* next point when it has the last one.
Send(a, u) ==
    /\ sent[a] < MaxReqs
    /\ IF a = Poller THEN ~stopped /\ pc[a] = "idle" /\ inbox[a] = <<>>
                     ELSE conn[a] = "serving"
    /\ sent' = [sent EXCEPT ![a] = @ + 1]
    /\ inbox' = [inbox EXCEPT ![a] = Append(@, [who |-> a, n |-> sent[a] + 1, unit |-> u])]
    /\ UNCHANGED <<stopped, device, wire, txn, conn>>

\* The master's socket is closed or reset.
MasterGoes(m) ==
    /\ conn[m] = "serving"
    /\ conn' = [conn EXCEPT ![m] = "closing"]
    /\ UNCHANGED <<stopped, device, wire, txn, sent, inbox>>

\* The read loop ends and the master leaves _clients.
Leave(m) ==
    /\ conn[m] = "closing" /\ pc[m] = "idle"
    /\ conn' = [conn EXCEPT ![m] = "gone"]
    /\ UNCHANGED <<stopped, device, wire, txn, sent, inbox>>

-----------------------------------------------------------------------------
(* _transaction                                                            *)

\* Variant: the transaction does not wait for the lock.
TakeUnlocked(a) ==
    /\ pc[a] = "idle" /\ inbox[a] # <<>> /\ Listening(a)
    /\ cur' = [cur EXCEPT ![a] = Head(inbox[a])]
    /\ inbox' = [inbox EXCEPT ![a] = Tail(@)]
    /\ lock' = a
    /\ pc' = [pc EXCEPT ![a] = IF serial = "open" THEN "clearing" ELSE "port"]
    /\ UNCHANGED <<stopped, device, wire, waiters, taken, got, conn, sent>>

\* Variant: the newest buffered request is taken up first.
TakeNewest(a) ==
    /\ pc[a] = "idle" /\ inbox[a] # <<>> /\ Listening(a)
    /\ cur' = [cur EXCEPT ![a] = inbox[a][Len(inbox[a])]]
    /\ inbox' = [inbox EXCEPT ![a] = SubSeq(@, 1, Len(@) - 1)]
    /\ lock = None /\ waiters = <<>> /\ lock' = a
    /\ pc' = [pc EXCEPT ![a] = IF serial = "open" THEN "clearing" ELSE "port"]
    /\ UNCHANGED <<stopped, device, wire, waiters, taken, got, conn, sent>>

\* A request is taken up: the lock is free for it, or it queues.
Take(a) ==
    /\ pc[a] = "idle" /\ inbox[a] # <<>> /\ Listening(a)
    /\ cur' = [cur EXCEPT ![a] = Head(inbox[a])]
    /\ inbox' = [inbox EXCEPT ![a] = Tail(@)]
    /\ IF lock = None /\ waiters = <<>>
         THEN /\ lock' = a
              /\ pc' = [pc EXCEPT ![a] = IF serial = "open" THEN "clearing" ELSE "port"]
              /\ UNCHANGED waiters
         ELSE /\ waiters' = Append(waiters, a)
              /\ pc' = [pc EXCEPT ![a] = "queued"]
              /\ UNCHANGED lock
    /\ UNCHANGED <<stopped, device, wire, taken, got, conn, sent>>

\* The lock goes to the first in the queue.
Acquire(a) ==
    /\ lock = None /\ waiters # <<>> /\ Head(waiters) = a
    /\ lock' = a /\ waiters' = Tail(waiters)
    /\ pc' = [pc EXCEPT ![a] = IF serial = "open" THEN "clearing" ELSE "port"]
    /\ UNCHANGED <<stopped, device, wire, cur, taken, got, clients>>

\* The transaction of a ends with frame f, or with exception 0x0B (None): the
\* lock is free again, and a master whose connection is up gets the answer.
Finish(a, f) ==
    /\ lock' = None
    /\ pc' = [pc EXCEPT ![a] = "idle"]
    /\ cur' = [cur EXCEPT ![a] = None]
    /\ taken' = [taken EXCEPT ![a] = <<>>]
    /\ got' = [got EXCEPT ![a] =
                 IF Listening(a) THEN Append(@, [req |-> cur[a], frame |-> f]) ELSE @]
    /\ UNCHANGED <<stopped, device, slaves, waiters, clients>>

\* The serial port became ready while the transaction waited for it.
PortReady(a) ==
    /\ pc[a] = "port" /\ serial = "open"
    /\ pc' = [pc EXCEPT ![a] = "clearing"]
    /\ UNCHANGED <<stopped, device, wire, lock, waiters, cur, taken, got, clients>>

PortTimeout(a) ==
    /\ pc[a] = "port" /\ serial # "open"
    /\ Finish(a, None) /\ UNCHANGED bus

\* Stale bytes are discarded until the bus is silent, then the request goes out.
RequestOut(a) ==
    /\ pc[a] = "clearing"
    /\ bus' = <<>>
    /\ slaves' = IF alive THEN slaves \cup {cur[a]} ELSE slaves
    /\ pc' = [pc EXCEPT ![a] = "sent"]
    /\ UNCHANGED <<stopped, device, lock, waiters, cur, taken, got, clients>>

\* _read_rtu_response: the first bytes, then more until a gap of silence.
ReadBytes(a) ==
    /\ pc[a] \in {"sent", "reading"} /\ bus # <<>>
    /\ taken' = [taken EXCEPT ![a] = @ \o bus]
    /\ bus' = <<>>
    /\ pc' = [pc EXCEPT ![a] = "reading"]
    /\ UNCHANGED <<stopped, device, slaves, lock, waiters, cur, got, clients>>

\* Variant: the transaction gives up before the response timeout.
NoAnswerAtOnce(a) ==
    /\ pc[a] = "sent" /\ bus = <<>>
    /\ Finish(a, None) /\ UNCHANGED bus

\* No answer in time, or the reader is at its end.
NoAnswer(a) ==
    /\ pc[a] = "sent" /\ bus = <<>>
    /\ LateReplies \/ cur[a] \notin slaves
    /\ Finish(a, None) /\ UNCHANGED bus

\* Variant: the unit of the reply is not compared with the request's.
AcceptsAnyUnit(a) == Len(taken[a]) = 1 /\ taken[a][1].intact

\* rtu_unwrap finds one good frame, and it comes from the addressed slave.
Accepts(a) ==
    /\ Len(taken[a]) = 1 /\ taken[a][1].intact
    /\ taken[a][1].req.unit = cur[a].unit

\* The gap after the reply.
ReplyComplete(a) ==
    /\ pc[a] = "reading" /\ bus = <<>>
    /\ Finish(a, IF Accepts(a) THEN taken[a][1].req ELSE None)
    /\ UNCHANGED bus

-----------------------------------------------------------------------------
(* stop()                                                                  *)

\* A queue without a, which is in it at most once.
Without(q, a) ==
    IF \E i \in 1 .. Len(q) : q[i] = a
    THEN LET i == CHOOSE k \in 1 .. Len(q) : q[k] = a
         IN  SubSeq(q, 1, i - 1) \o SubSeq(q, i + 1, Len(q))
    ELSE q


\* Variant: the poll loop's transaction is forgotten, the loop itself goes on.
StopForgettingPoll ==
    /\ ~stopped
    /\ stopped' = TRUE
    /\ conn' = [m \in Masters |-> IF conn[m] = "serving" THEN "closing" ELSE conn[m]]
    /\ cur' = [cur EXCEPT ![Poller] = None]
    /\ UNCHANGED <<device, wire, lock, waiters, pc, taken, got, sent, inbox>>

\* The masters are aborted and the poll loop is cancelled: a transaction of its
\* leaves the lock, or the queue for it.
Stop ==
    /\ ~stopped
    /\ stopped' = TRUE
    /\ conn' = [m \in Masters |-> IF conn[m] = "serving" THEN "closing" ELSE conn[m]]
    /\ lock' = IF lock = Poller THEN None ELSE lock
    /\ waiters' = Without(waiters, Poller)
    /\ pc' = [pc EXCEPT ![Poller] = "ended"]
    /\ cur' = [cur EXCEPT ![Poller] = None]
    /\ taken' = [taken EXCEPT ![Poller] = <<>>]
    /\ UNCHANGED <<device, wire, got, sent, inbox>>

\* The serial supervisor is cancelled and the port closed.
SerialEnds ==
    /\ stopped /\ serial # "ended"
    /\ serial' = "ended" /\ alive' = FALSE /\ slaves' = {}
    /\ UNCHANGED <<stopped, plugged, losses, bus, txn, clients>>

-----------------------------------------------------------------------------
Transact(a) ==
    \/ Take(a) \/ Acquire(a) \/ PortReady(a) \/ PortTimeout(a) \/ RequestOut(a)
    \/ ReadBytes(a) \/ NoAnswer(a) \/ ReplyComplete(a)

Serve ==
    \/ \E a \in Senders : Transact(a)
    \/ \E m \in Masters : Leave(m)

Next ==
    \/ OpenOk \/ OpenFails \/ BackoffOver \/ Unplug \/ Replug
    \/ \E r \in slaves : SlaveAnswers(r) \/ SlaveKeepsSilent(r)
    \/ \E m \in Masters : Connect(m) \/ MasterGoes(m)
    \/ \E a \in Senders, u \in Units : Send(a, u)
    \/ Serve \/ Stop \/ SerialEnds

Spec == Init /\ [][Next]_vars

\* The event loop runs what can run and the timers fire; an unplugged device is
\* plugged in again; a slave answers or stays silent.
Fairness ==
    /\ WF_vars(OpenOk) /\ WF_vars(OpenFails) /\ WF_vars(BackoffOver) /\ WF_vars(Replug)
    /\ WF_vars(SerialEnds)
    /\ WF_vars(\E r \in slaves : SlaveAnswers(r) \/ SlaveKeepsSilent(r))
    /\ \A a \in Senders : WF_vars(Transact(a))
    /\ \A m \in Masters : WF_vars(Leave(m))

FairSpec == Spec /\ Fairness

-----------------------------------------------------------------------------
(* Properties                                                              *)

Frames == [req : Requests, intact : BOOLEAN]

\* Types of the gateway's state: what the slaves, the reader's buffer and the
\* answers hold are requests that somebody really made.
TypeOK ==
    /\ stopped \in BOOLEAN /\ serial \in {"opening", "open", "backoff", "ended"}
    /\ alive \in BOOLEAN /\ plugged \in BOOLEAN /\ losses \in 0 .. MaxLosses
    /\ slaves \subseteq Requests /\ bus \in Seq(Frames)
    /\ lock \in Senders \cup {None} /\ waiters \in Seq(Senders)
    /\ conn \in [Masters -> {"new", "serving", "closing", "gone"}]
    /\ sent \in [Senders -> 0 .. MaxReqs]
    /\ pc \in [Senders -> {"idle", "queued", "port", "clearing", "sent", "reading", "ended"}]
    /\ cur \in [Senders -> Requests \cup {None}]
    /\ inbox \in [Senders -> Seq(Requests)] /\ taken \in [Senders -> Seq(Frames)]
    /\ got \in [Senders -> Seq([req : Requests, frame : Requests \cup {None}])]

\* RTU is a single-master bus: only the holder of the bus lock is between its
\* look at the port and its reply, and the lock is held by such a sender.
OneTransaction ==
    \A a \in Senders :
        pc[a] \in {"port", "clearing", "sent", "reading"} <=> lock = a

\* A sender gets one answer to each of its requests, in the order it made them,
\* however the transactions of the others interleave.
AnswersInOrder ==
    \A a \in Senders : \A k \in 1 .. Len(got[a]) :
        got[a][k].req.who = a /\ got[a][k].req.n = k

\* An answer that is not an exception comes from the slave the request was for.
FromTheUnit ==
    \A a \in Senders : \A k \in 1 .. Len(got[a]) :
        got[a][k].frame # None => got[a][k].frame.unit = got[a][k].req.unit

\* Concurrent masters do not get crossed wires: an answer that is not an
\* exception is the slave's reply to that very request.
OwnAnswer ==
    \A a \in Senders : \A k \in 1 .. Len(got[a]) :
        got[a][k].frame \in {None, got[a][k].req}


\* The serial endpoint reconnects: a port whose device went away is open to a
\* device again, unless the gateway is stopped.
Reconnects == (serial = "open" /\ ~alive) ~> (alive \/ stopped)

=============================================================================
