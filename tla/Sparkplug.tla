------------------------------ MODULE Sparkplug ------------------------------
(***************************************************************************)
(* A Modbus mapping as a Sparkplug B edge node: class SparkplugNode of     *)
(* app/engine/sparkplug_node.py over class MqttPublisher of                *)
(* app/engine/mqtt_pub.py, and the publisher's plain mode with its retained*)
(* status topic.  Two threads: the event loop publishes births and data;   *)
(* paho's network thread connects, loses the connection, renews the Will   *)
(* and hands its callbacks to the loop.  A host application follows the    *)
(* node from the messages the broker lets through.                         *)
(***************************************************************************)
EXTENDS Naturals, Sequences

CONSTANTS
    SpPoints,        \* point -> the Modbus unit (device) it is read from
    SpDevices,       \* the devices in the order of the poll points
    SpValues,        \* register values, naturals above 0
    SeqNumbers,      \* numbers of a sequence counter: 256
    MaxSessions,     \* bound: connections
    MaxUpdates,      \* bound: polls with a change
    MaxRebirths      \* bound: rebirth commands

SpNames == DOMAIN SpPoints
NoValue == 0

VARIABLES
    spUp,          \* the broker connection is up
    spDirty,       \* it was lost and on_disconnect has not run
    spWillSet,     \* bdSeq in the Will the client would connect with
    spWill,        \* bdSeq in the Will the broker holds for this connection
    spBdseq,       \* bdseq
    spSessions,    \* _sessions
    spSeq,         \* seq
    spValues,      \* values
    spLoop,        \* callbacks handed to the event loop
    spJob,         \* messages the running callback has still to publish
    spOpen,        \* _connected: between connect() and close()
    spMode,        \* "sparkplug", or "plain" with a status topic (birth = True)
    spQos,         \* the qos setting: 0, or 1 for a message paho keeps until it is sent
    spStatus,      \* what the broker retains under <base_topic>/status
    spKept,        \* paho keeps an "online" for the next connection
    spUpdates, spRebirths, spConnects,
    spHost         \* the host: born, bdSeq of the birth, last seq, values, a gap seen

spVars == <<spUp, spDirty, spWillSet, spWill, spBdseq, spSessions, spSeq, spValues, spLoop, spJob,
            spOpen, spMode, spQos, spStatus, spKept, spUpdates, spRebirths, spConnects, spHost>>

NoHost == [born |-> FALSE, bd |-> 0, seq |-> 0, vals |-> [n \in SpNames |-> NoValue], gap |-> FALSE]

SpInit ==
    /\ spUp = FALSE /\ spDirty = FALSE /\ spWillSet = 0 /\ spWill = 0 /\ spBdseq = 0
    /\ spSessions = 0 /\ spSeq = 0 /\ spValues = [n \in SpNames |-> NoValue] /\ spLoop = <<>>
    /\ spJob = <<>> /\ spOpen = FALSE /\ spUpdates = 0 /\ spRebirths = 0 /\ spConnects = 0
    /\ spHost = NoHost /\ spMode = "none" /\ spQos = 0 /\ spStatus = "none" /\ spKept = FALSE

-----------------------------------------------------------------------------
(* _will: the first Will keeps bdSeq, every later one takes the next.      *)
NextBdseq == IF spSessions > 0 THEN (spBdseq + 1) % SeqNumbers ELSE spBdseq

(* _set_will: ask for a Will and register it with the client.              *)
SetWillEarly ==
    /\ spBdseq' = NextBdseq /\ spSessions' = spSessions + 1 /\ spWillSet' = spBdseq
SetWill ==
    /\ spBdseq' = NextBdseq /\ spSessions' = spSessions + 1 /\ spWillSet' = NextBdseq

(* connect(): the Will is registered before the client starts connecting;  *)
(* a plain publisher says "online" at once, before any connection is up.   *)
SpConnect(mode, qos) ==
    /\ ~spOpen /\ spSessions = 0
    /\ SetWill /\ spOpen' = TRUE /\ spMode' = mode /\ spQos' = qos
    /\ spKept' = (mode = "plain" /\ qos = 1)
    /\ UNCHANGED <<spUp, spDirty, spWill, spSeq, spValues, spLoop, spJob, spStatus, spUpdates,
                   spRebirths, spConnects, spHost>>

(* paho: the broker accepts; _paho_on_connect hands handle_connect over.   *)
PahoConnected ==
    /\ spOpen /\ ~spUp /\ ~spDirty /\ spConnects < MaxSessions
    /\ spUp' = TRUE /\ spWill' = spWillSet /\ spConnects' = spConnects + 1
    /\ spLoop' = Append(spLoop, "connect")
    /\ spStatus' = IF spKept THEN "online" ELSE spStatus
    /\ spKept' = FALSE
    /\ UNCHANGED <<spDirty, spWillSet, spBdseq, spSessions, spSeq, spValues, spJob, spOpen, spMode,
                   spQos, spUpdates, spRebirths, spHost>>

(* The connection breaks: the broker publishes the Will, an NDEATH or the  *)
(* retained "offline".                                                     *)
PahoLost ==
    /\ spUp
    /\ spUp' = FALSE /\ spDirty' = TRUE /\ spHost' = [spHost EXCEPT !.born = FALSE]
    /\ spStatus' = IF spMode = "plain" THEN "offline" ELSE spStatus
    /\ UNCHANGED <<spWillSet, spWill, spBdseq, spSessions, spSeq, spValues, spLoop, spJob, spOpen,
                   spMode, spQos, spKept, spUpdates, spRebirths, spConnects>>

(* _paho_on_disconnect: a node's Will is renewed before paho reconnects.   *)
PahoOnDisconnect ==
    /\ spDirty
    /\ spDirty' = FALSE
    /\ IF spMode = "sparkplug" THEN SetWill ELSE UNCHANGED <<spBdseq, spSessions, spWillSet>>
    /\ UNCHANGED <<spUp, spWill, spSeq, spValues, spLoop, spJob, spOpen, spMode, spQos, spStatus,
                   spKept, spUpdates, spRebirths, spConnects, spHost>>

(* The host asks for a rebirth; _paho_on_message hands the NCMD over.      *)
PahoRebirthCommand ==
    /\ spUp /\ spMode = "sparkplug" /\ spRebirths < MaxRebirths
    /\ spRebirths' = spRebirths + 1 /\ spLoop' = Append(spLoop, "rebirth")
    /\ UNCHANGED <<spUp, spDirty, spWillSet, spWill, spBdseq, spSessions, spSeq, spValues, spJob,
                   spOpen, spMode, spQos, spStatus, spKept, spUpdates, spConnects, spHost>>

-----------------------------------------------------------------------------
(* birth: NBIRTH with seq 0, then a DBIRTH per device.                     *)
Birth == <<[kind |-> "NBIRTH"]>> \o
         [k \in 1 .. Len(SpDevices) |-> [kind |-> "DBIRTH", names |->
                                            {n \in SpNames : SpPoints[n] = SpDevices[k]}]]

Callback(kind) ==
    /\ spJob = <<>> /\ spLoop # <<>> /\ Head(spLoop) = kind
    /\ spLoop' = Tail(spLoop)
    /\ UNCHANGED <<spUp, spDirty, spWillSet, spWill, spBdseq, spSessions, spSeq, spValues, spOpen,
                   spMode, spQos, spStatus, spKept, spUpdates, spRebirths, spConnects, spHost>>

(* handle_connect: a node gives birth on every connection; a plain         *)
(* publisher has no on_connect callback.                                   *)
HandleConnect ==
    /\ Callback("connect")
    /\ spJob' = IF spOpen /\ spMode = "sparkplug" THEN Birth ELSE <<>>

(* on_node_command, with Node Control/Rebirth = true; a closed publisher   *)
(* no longer hands messages on.                                            *)
OnNodeCommand ==
    /\ Callback("rebirth")
    /\ spJob' = IF spOpen THEN Birth ELSE <<>>

(* update: the values that changed are recorded, then a DDATA per device   *)
(* that has one of them.                                                   *)
SpUpdate(vals) ==
    LET changed == {n \in DOMAIN vals : spValues[n] # vals[n]}
        data(d) == [kind |-> "DDATA", names |-> {n \in changed : SpPoints[n] = d}]
        devs    == SelectSeq(SpDevices, LAMBDA d : data(d).names # {})
    IN
    /\ spOpen /\ spMode = "sparkplug" /\ spJob = <<>> /\ changed # {} /\ spUpdates < MaxUpdates
    /\ spUpdates' = spUpdates + 1
    /\ spValues' = [n \in SpNames |-> IF n \in changed THEN vals[n] ELSE spValues[n]]
    /\ spJob' = [k \in 1 .. Len(devs) |-> data(devs[k])]
    /\ UNCHANGED <<spUp, spDirty, spWillSet, spWill, spBdseq, spSessions, spSeq, spLoop, spOpen,
                   spMode, spQos, spStatus, spKept, spRebirths, spConnects, spHost>>

NextSeq(s) == (s + 1) % SeqNumbers

(* What a host makes of a message.                                         *)
HostSees(m, seq) ==
    IF m.kind = "NBIRTH"
      THEN [born |-> TRUE, bd |-> spBdseq, seq |-> 0, vals |-> [n \in SpNames |-> NoValue],
            gap |-> spHost.gap]
    ELSE IF ~spHost.born THEN spHost
    ELSE [spHost EXCEPT !.seq = seq,
                        !.vals = [n \in SpNames |-> IF n \in m.names THEN spValues[n] ELSE @[n]],
                        !.gap = @ \/ seq # (spHost.seq + 1) % SeqNumbers]

(* _publish and publish_raw, QoS 0: what is published while the connection *)
(* is down is gone.                                                        *)
SpPublish ==
    LET m   == Head(spJob)
        seq == IF m.kind = "NBIRTH" THEN 0 ELSE NextSeq(spSeq)
    IN
    /\ spJob # <<>>
    /\ spJob' = Tail(spJob) /\ spSeq' = seq
    /\ spHost' = IF spUp /\ spOpen THEN HostSees(m, seq) ELSE spHost
    /\ UNCHANGED <<spUp, spDirty, spWillSet, spWill, spBdseq, spSessions, spValues, spLoop, spOpen,
                   spMode, spQos, spStatus, spKept, spUpdates, spRebirths, spConnects>>

(* close: an NDEATH, or a retained "offline", then a clean disconnect,     *)
(* which drops the Will.                                                   *)
SpClose ==
    /\ spOpen /\ spJob = <<>>
    /\ spOpen' = FALSE /\ spUp' = FALSE /\ spDirty' = FALSE
    /\ spHost' = IF spUp THEN [spHost EXCEPT !.born = FALSE] ELSE spHost
    /\ spStatus' = IF spUp /\ spMode = "plain" THEN "offline" ELSE spStatus
    /\ UNCHANGED <<spWillSet, spWill, spBdseq, spSessions, spSeq, spValues, spLoop, spJob,
                   spMode, spQos, spKept, spUpdates, spRebirths, spConnects>>

Polled == UNION {[S -> SpValues] : S \in SUBSET SpNames \ {{}}}

SpNext ==
    \/ SpConnect("sparkplug", 0) \/ (\E qos \in 0 .. 1 : SpConnect("plain", qos))
    \/ PahoConnected \/ PahoLost \/ PahoOnDisconnect \/ PahoRebirthCommand
    \/ HandleConnect \/ OnNodeCommand \/ SpPublish \/ SpClose
    \/ \E vals \in Polled : SpUpdate(vals)

-----------------------------------------------------------------------------
(* A host that has seen a birth tells a death of this session from one of  *)
(* an earlier session: the NBIRTH carries the bdSeq of the Will the broker *)
(* holds, although the Will is renewed in another thread.                  *)
DeathMatchesBirth == spUp /\ spHost.born => spHost.bd = spWill

(* "seq counts on across NBIRTH, DBIRTH and DDATA": a host never sees a    *)
(* gap after a birth, over reconnects, rebirths and the wrap to 0.         *)
NoSeqGap == ~spHost.gap

(* Report by exception hides nothing: with the loop at rest and the        *)
(* connection up, the host has every value the node holds, also those that *)
(* changed while the connection was down.                                  *)
HostKnowsNode ==
    spUp /\ spMode = "sparkplug" /\ spJob = <<>> /\ spLoop = <<>> =>
        spHost.born /\ spHost.vals = spValues /\ spHost.seq = spSeq

(* A host application can rely on the node: deaths match births, seq counts*)
(* without a gap, and what it shows is what the node holds.                *)
HostFollows == DeathMatchesBirth /\ NoSeqGap /\ HostKnowsNode

(* "A retained <base_topic>/status birth/death": a plain publisher whose   *)
(* connection is up, with every callback run, is retained as "online".     *)
StatusTold == spUp /\ spMode = "plain" /\ spLoop = <<>> => spStatus = "online"

=============================================================================
