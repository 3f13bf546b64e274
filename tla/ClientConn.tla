----------------------------- MODULE ClientConn -----------------------------
(***************************************************************************)
(* One connected network client of a mapping: class _ClientConn of         *)
(* app/engine/bridge.py, together with the calls the runner's serial read  *)
(* loop makes on it (feed_from_serial, then request_graceful_close when    *)
(* the closeon string matched) and the kick() of the runner.               *)
(*                                                                         *)
(* The event loop is cooperative, so an action is the code between two     *)
(* awaits.  Four tasks of one TaskGroup share the connection: the two      *)
(* pumps, the modem-state poll and the timers; the first that raises makes *)
(* the group cancel the others.                                            *)
(*                                                                         *)
(* Data.  The chunks the device sends while the client is registered are   *)
(* numbered 1, 2, ...; an item of the outbound queue is such a number,     *)
(* Ctrl (protocol bytes: telnet replies, RFC 2217 notifications) or        *)
(* Sentinel (the None of request_graceful_close).                          *)
(***************************************************************************)
EXTENDS Integers, Sequences

CONSTANTS
    QueueMax,     \* maxsize of the outbound queue (client_queue_max)
    MaxChunks,    \* bound: chunks the device sends
    MaxNoise,     \* bound: client inputs and modem-state polls
    HasCloseon,   \* options.closeon is set
    HasPoll,      \* the session has a poll_interval
    HasIdle,      \* options.idle_timeout_s > 0
    HasLifetime,  \* options.max_connection_time_s > 0
    ReadOnly,     \* network.read_only
    KeepAlive     \* network.tcp_keepalive: the kernel drops a dead or stalled peer

ASSUME ClientAssumption ==
    /\ QueueMax \in Nat \ {0}
    /\ MaxChunks \in Nat /\ MaxNoise \in Nat
    /\ {HasCloseon, HasPoll, HasIdle, HasLifetime, ReadOnly, KeepAlive} \subseteq BOOLEAN

Ctrl == 0
Sentinel == -1

VARIABLES
    phase,      \* of run(): greeting, pumping, closing (wait_closed) or ended
    closing,    \* _closing
    reason,     \* close_reason, "" when none is known yet
    raised,     \* first exception of the TaskGroup, "" while none was raised
    n2s,        \* _pump_net_to_serial: read, write (awaits the serial drain) or done
    s2n,        \* _pump_serial_to_net: get, drain, flush (the last drain) or done
    polling,    \* _pump_poll is in its loop
    idling,     \* _idle_guard is in its loop
    out,        \* _out
    wire,       \* the items handed to the transport while the link was up
    stalled,    \* the transport holds bytes the peer has not taken
    link,       \* open, fin (the peer closed its side) or lost (reset or aborted)
    chunks,     \* chunks the device has sent since the client was registered
    fed,        \* how many of them feed_from_serial has accepted
    noise       \* client inputs and polls so far

vars == <<phase, closing, reason, raised, n2s, s2n, polling, idling, out, wire,
          stalled, link, chunks, fed, noise>>
tasks == <<phase, raised, n2s, s2n, polling, idling>>
net   == <<wire, stalled, link>>

Causes == {"peer", "lost", "closeon", "slow", "kicked", "timeout"}
Items  == {Ctrl, Sentinel} \cup (1 .. MaxChunks)

\* Whoever names a cause first wins.
First(known, cause) == IF known = "" THEN cause ELSE known

\* put_nowait: no room is the caller's QueueFull.
HasRoom == Len(out) < QueueMax

\* Variant: the item is queued without looking at maxsize.
PutCtrlUnbounded == out' = Append(out, Ctrl)

\* A control item is dropped silently when the queue is full.
PutCtrl == out' = IF HasRoom THEN Append(out, Ctrl) ELSE out

Init ==
    /\ phase = "greeting" /\ closing = FALSE /\ reason = "" /\ raised = ""
    /\ n2s = "done" /\ s2n = "done" /\ polling = FALSE /\ idling = FALSE
    /\ out = <<>> /\ wire = <<>> /\ stalled \in BOOLEAN /\ link = "open"
    /\ chunks = 0 /\ fed = 0 /\ noise = 0

-----------------------------------------------------------------------------
(* run(): initial bytes, the TaskGroup, the close.                         *)

\* Variant: the queue is set up only once the greeting has been sent.
GreetedWithNewQueue ==
    /\ phase = "greeting" /\ ~stalled /\ link # "lost"
    /\ phase' = "pumping"
    /\ n2s' = IF closing THEN "done" ELSE "read"
    /\ raised' = IF closing THEN "peer" ELSE ""
    /\ s2n' = "get"
    /\ polling' = (HasPoll /\ ~closing)
    /\ idling' = (HasIdle /\ ~closing)
    /\ out' = <<>>
    /\ UNCHANGED <<closing, reason, net, chunks, fed, noise>>

\* The initial bytes are drained and the TaskGroup starts its tasks.  The
\* network pump tests _closing before its first read.
Greeted ==
    /\ phase = "greeting" /\ ~stalled /\ link # "lost"
    /\ phase' = "pumping"
    /\ n2s' = IF closing THEN "done" ELSE "read"
    /\ raised' = IF closing THEN "peer" ELSE ""
    /\ s2n' = "get"
    /\ polling' = (HasPoll /\ ~closing)
    /\ idling' = (HasIdle /\ ~closing)
    /\ UNCHANGED <<closing, reason, out, net, chunks, fed, noise>>

\* drain() raises before the try statement: neither _closing nor a reason is set.
GreetingFails ==
    /\ phase = "greeting" /\ link = "lost"
    /\ phase' = "ended"
    /\ UNCHANGED <<closing, reason, raised, n2s, s2n, polling, idling, out, net,
                   chunks, fed, noise>>

\* The group cancels its tasks once one has raised, and run() closes the writer.
\* A serial pump that the sentinel woke runs before the cancellation reaches it.
GroupEnds ==
    /\ phase = "pumping" /\ raised # ""
    /\ ~(s2n = "get" /\ \E i \in 1 .. Len(out) : out[i] = Sentinel)
    /\ phase' = "closing"
    /\ closing' = TRUE
    /\ reason' = First(reason, raised)
    /\ n2s' = "done" /\ s2n' = "done" /\ polling' = FALSE /\ idling' = FALSE
    /\ UNCHANGED <<raised, out, net, chunks, fed, noise>>

\* wait_closed() returns when the transport has flushed its buffer or is lost.
Closed ==
    /\ phase = "closing" /\ (~stalled \/ link = "lost")
    /\ phase' = "ended"
    /\ UNCHANGED <<closing, reason, raised, n2s, s2n, polling, idling, out, net,
                   chunks, fed, noise>>

-----------------------------------------------------------------------------
(* _pump_net_to_serial                                                     *)

\* The loop condition: read on, or leave the loop and raise.
NextRead ==
    /\ n2s' = IF closing THEN "done" ELSE "read"
    /\ raised' = IF closing THEN First(raised, "peer") ELSE raised

\* A read returned bytes: ctrl says that the session answers with control
\* bytes, bound that some bytes are for the device; the write may await.
FromNetwork(ctrl, bound) ==
    /\ n2s = "read" /\ link = "open" /\ noise < MaxNoise
    /\ noise' = noise + 1
    /\ IF ctrl THEN PutCtrl ELSE UNCHANGED out
    /\ \/ bound /\ ~ReadOnly /\ n2s' = "write" /\ UNCHANGED raised
       \/ NextRead
    /\ UNCHANGED <<phase, closing, reason, s2n, polling, idling, net, chunks, fed>>

\* The serial writer has taken the bytes.
SerialDrained ==
    /\ n2s = "write" /\ NextRead
    /\ UNCHANGED <<phase, closing, reason, s2n, polling, idling, out, net,
                   chunks, fed, noise>>

\* The device went away under the write: drain() raises a ConnectionError.
SerialWriteFails ==
    /\ n2s = "write"
    /\ n2s' = "done" /\ raised' = First(raised, "lost")
    /\ UNCHANGED <<phase, closing, reason, s2n, polling, idling, out, net,
                   chunks, fed, noise>>

\* read() returns b"" or raises.
ReadEnds ==
    /\ n2s = "read" /\ link # "open"
    /\ n2s' = "done"
    /\ raised' = First(raised, IF link = "fin" THEN "peer" ELSE "lost")
    /\ UNCHANGED <<phase, closing, reason, s2n, polling, idling, out, net,
                   chunks, fed, noise>>

-----------------------------------------------------------------------------
(* _pump_serial_to_net                                                     *)

\* Variant: the last item written stays in the queue.
PumpOutTwice ==
    /\ s2n = "get" /\ link # "lost"
    /\ \E k \in 1 .. Len(out) :
          /\ \A i \in 1 .. k : out[i] # Sentinel
          /\ wire' = wire \o SubSeq(out, 1, k)
          /\ out' = SubSeq(out, k, Len(out))
          /\ s2n' = "drain" /\ stalled' = TRUE
    /\ UNCHANGED <<phase, closing, reason, raised, n2s, polling, idling, link,
                   chunks, fed, noise>>

\* The pump hands items to the transport until a drain has to wait or the queue
\* is empty: k items in one go, none of them the sentinel.
PumpOut ==
    /\ s2n = "get" /\ link # "lost"
    /\ \E k \in 1 .. Len(out) :
          /\ \A i \in 1 .. k : out[i] # Sentinel
          /\ wire' = wire \o SubSeq(out, 1, k)
          /\ out' = SubSeq(out, k + 1, Len(out))
          /\ \/ s2n' = "drain" /\ stalled' = TRUE
             \/ k = Len(out) /\ s2n' = "get" /\ stalled' \in BOOLEAN
    /\ UNCHANGED <<phase, closing, reason, raised, n2s, polling, idling, link,
                   chunks, fed, noise>>

\* Variant: the close request overtakes the queued items.
PumpSentinelFirst ==
    /\ s2n = "get" /\ link # "lost" /\ \E i \in 1 .. Len(out) : out[i] = Sentinel
    /\ out' = <<>>
    /\ s2n' = "done" /\ raised' = First(raised, "closeon")
    /\ UNCHANGED <<phase, closing, reason, n2s, polling, idling, net, chunks, fed, noise>>

\* The sentinel: what is left in the queue is written, then one drain.
PumpSentinel ==
    /\ s2n = "get" /\ link # "lost" /\ out # <<>> /\ Head(out) = Sentinel
    /\ wire' = wire \o Tail(out)
    /\ out' = <<>>
    /\ \/ s2n' = "flush" /\ stalled' = TRUE /\ UNCHANGED raised
       \/ s2n' = "done" /\ stalled' \in BOOLEAN /\ raised' = First(raised, "closeon")
    /\ UNCHANGED <<phase, closing, reason, n2s, polling, idling, link, chunks, fed, noise>>

\* The peer has taken the bytes: a waiting drain returns.
Drained ==
    /\ s2n \in {"drain", "flush"} /\ ~stalled /\ link # "lost"
    /\ s2n' = IF s2n = "drain" THEN "get" ELSE "done"
    /\ raised' = IF s2n = "drain" THEN raised ELSE First(raised, "closeon")
    /\ UNCHANGED <<phase, closing, reason, n2s, polling, idling, out, net,
                   chunks, fed, noise>>

\* On a lost link the item taken from the queue is discarded and drain() raises.
PumpOutLost ==
    /\ s2n # "done" /\ link = "lost"
    /\ s2n = "get" => out # <<>>
    /\ out' = IF s2n = "get" THEN Tail(out) ELSE out
    /\ s2n' = "done" /\ raised' = First(raised, "lost")
    /\ UNCHANGED <<phase, closing, reason, n2s, polling, idling, net, chunks, fed, noise>>

-----------------------------------------------------------------------------
(* _pump_poll, _idle_guard, _lifetime_guard                                *)

\* One turn of the poll loop; it ends silently once _closing is set.
PumpPoll ==
    /\ polling /\ noise < MaxNoise
    /\ noise' = noise + 1
    /\ PutCtrl
    /\ polling' = ~closing
    /\ UNCHANGED <<phase, closing, reason, raised, n2s, s2n, idling, net, chunks, fed>>

\* The session was idle for too long.
IdleTimeout ==
    /\ idling
    /\ idling' = FALSE /\ raised' = First(raised, "timeout")
    /\ UNCHANGED <<phase, closing, reason, n2s, s2n, polling, out, net, chunks, fed, noise>>

\* The guard finds _closing set and ends without raising.
IdleGuardEnds ==
    /\ idling /\ closing
    /\ idling' = FALSE
    /\ UNCHANGED <<phase, closing, reason, raised, n2s, s2n, polling, out, net,
                   chunks, fed, noise>>

LifetimeOver ==
    /\ HasLifetime /\ phase = "pumping" /\ raised = ""
    /\ raised' = "timeout"
    /\ UNCHANGED <<phase, closing, reason, n2s, s2n, polling, idling, out, net,
                   chunks, fed, noise>>

-----------------------------------------------------------------------------
(* The runner                                                              *)

\* Variant: the feed does not look at _closing.
FeedIgnoringClosing(match) ==
    /\ phase # "ended" /\ chunks < MaxChunks
    /\ chunks' = chunks + 1
    /\ HasRoom
    /\ out' = Append(out, chunks + 1) /\ fed' = chunks + 1
    /\ UNCHANGED <<tasks, net, closing, reason, noise>>

\* feed_from_serial of the next chunk, and request_graceful_close in the same
\* step when the closeon string is complete with this chunk.
FeedFromSerial(match) ==
    /\ phase # "ended" /\ chunks < MaxChunks
    /\ chunks' = chunks + 1
    /\ \/ /\ closing
          /\ UNCHANGED <<closing, reason, out, link, fed>>
       \/ /\ ~closing /\ HasRoom
          /\ fed' = chunks + 1
          /\ closing' = match
          /\ reason' = IF match THEN First(reason, "closeon") ELSE reason
          /\ LET q == Append(out, chunks + 1)
                 full == Len(q) = QueueMax
             IN  /\ out' = IF match /\ ~full THEN Append(q, Sentinel) ELSE q
                 /\ link' = IF match /\ full THEN "lost" ELSE link
       \/ /\ ~closing /\ ~HasRoom
          /\ closing' = TRUE /\ reason' = First(reason, "slow") /\ link' = "lost"
          /\ UNCHANGED <<out, fed>>
    /\ UNCHANGED <<tasks, wire, stalled, noise>>


\* kick(): the transport is aborted, its buffer thrown away.
Kick ==
    /\ phase # "ended"
    /\ closing' = TRUE /\ reason' = First(reason, "kicked") /\ link' = "lost"
    /\ UNCHANGED <<tasks, out, wire, stalled, chunks, fed, noise>>

-----------------------------------------------------------------------------
(* The peer and the kernel                                                 *)

PeerReads ==
    /\ stalled /\ link # "lost" /\ phase # "ended"
    /\ stalled' = FALSE
    /\ UNCHANGED <<tasks, closing, reason, out, wire, link, chunks, fed, noise>>

PeerCloses ==
    /\ link = "open" /\ phase # "ended"
    /\ link' = "fin"
    /\ UNCHANGED <<tasks, closing, reason, out, wire, stalled, chunks, fed, noise>>

PeerResets ==
    /\ link # "lost" /\ phase # "ended"
    /\ link' = "lost"
    /\ UNCHANGED <<tasks, closing, reason, out, wire, stalled, chunks, fed, noise>>

\* TCP keepalive and TCP_USER_TIMEOUT give up on a peer that takes no bytes.
KeepAliveExpires ==
    /\ KeepAlive /\ stalled /\ PeerResets

-----------------------------------------------------------------------------
Done == phase = "ended" /\ UNCHANGED vars

Step ==
    \/ Greeted \/ GreetingFails \/ GroupEnds \/ Closed
    \/ \E ctrl, bound \in BOOLEAN : FromNetwork(ctrl, bound)
    \/ SerialDrained \/ SerialWriteFails \/ ReadEnds
    \/ PumpOut \/ PumpSentinel \/ Drained \/ PumpOutLost
    \/ PumpPoll \/ IdleTimeout \/ IdleGuardEnds \/ LifetimeOver
    \/ \E match \in {FALSE, HasCloseon} : FeedFromSerial(match)
    \/ Kick \/ PeerReads \/ PeerCloses \/ PeerResets \/ KeepAliveExpires

Next == Step \/ Done

\* The event loop runs every task that can go on; the device takes what is
\* written to it; the kernel gives up on a stalled peer when keepalive is on.
\* Nothing is assumed of the peer, nor of the runner, nor of the timers.
Fairness ==
    /\ WF_vars(Greeted) /\ WF_vars(GreetingFails) /\ WF_vars(GroupEnds) /\ WF_vars(Closed)
    /\ WF_vars(SerialDrained) /\ WF_vars(ReadEnds)
    /\ WF_vars(PumpOut) /\ WF_vars(PumpSentinel) /\ WF_vars(Drained) /\ WF_vars(PumpOutLost)
    /\ WF_vars(KeepAliveExpires)

Spec == Init /\ [][Next]_vars
FairSpec == Spec /\ Fairness

-----------------------------------------------------------------------------
(* Properties                                                              *)

ControlTypeOK ==
    /\ phase \in {"greeting", "pumping", "closing", "ended"}
    /\ closing \in BOOLEAN /\ stalled \in BOOLEAN /\ polling \in BOOLEAN /\ idling \in BOOLEAN
    /\ reason \in Causes \cup {""} /\ raised \in Causes \cup {""}
    /\ n2s \in {"read", "write", "done"}
    /\ s2n \in {"get", "drain", "flush", "done"}
    /\ link \in {"open", "fin", "lost"}
    /\ noise \in 0 .. MaxNoise

DataTypeOK ==
    /\ out \in Seq(Items) /\ wire \in Seq(Items)
    /\ Len(out) <= QueueMax
    /\ chunks \in 0 .. MaxChunks /\ fed \in 0 .. chunks

\* The variables' types; the outbound queue never holds more than
\* client_queue_max items, whichever task put them there.
TypeOK == ControlTypeOK /\ DataTypeOK

\* Everything accepted for the client, on the wire or still queued.
Stream == wire \o out

\* The client gets the device's chunks in order, none twice and none left out:
\* a chunk on the wire follows all the earlier ones (feed_from_serial drops the
\* whole client, never a chunk, when its queue is full).
NoGap ==
    /\ \A i, j \in 1 .. Len(Stream) :
          i < j /\ Stream[i] > 0 /\ Stream[j] > 0 => Stream[i] < Stream[j]
    /\ \A i \in 1 .. Len(wire) : \A n \in 1 .. wire[i] : \E j \in 1 .. i : wire[j] = n

\* A client that is not being closed has missed nothing: every chunk the device
\* has sent since it was registered is on the wire or in its queue, also the
\* chunks that arrived while its greeting was still being drained.
NothingMissed ==
    ~closing /\ link # "lost" =>
        \A n \in 1 .. chunks : \E i \in 1 .. Len(Stream) : Stream[i] = n

\* When the serial pump ends the session at the sentinel, everything that was
\* accepted before the closeon match is on the wire.
FlushedAtSentinel ==
    raised = "closeon" => \A n \in 1 .. fed : \E i \in 1 .. Len(wire) : wire[i] = n

\* request_graceful_close's promise: a session that closeon ended on a live
\* link has delivered what was queued, the triggering chunk included.
GracefulCloseFlushes ==
    phase = "ended" /\ reason = "closeon" /\ link # "lost" =>
        \A n \in 1 .. fed : \E i \in 1 .. Len(wire) : wire[i] = n

\* Once _closing is set the session ends and its slot is freed, whatever the
\* peer does: with keepalive the kernel gives up on a peer that takes no bytes.
ClosingEnds == closing ~> (phase = "ended")

\* A connection whose idle or lifetime limit has passed is dropped.
TimeoutDrops == (raised = "timeout") ~> (phase = "ended")


\* The connection implements the abstract feed.
IsChunk(item) == item > 0
Feed == INSTANCE SerialFeed WITH
            offered <- fed, got <- SelectSeq(wire, IsChunk), open <- ~closing
FeedSpec == Feed!Spec

=============================================================================
