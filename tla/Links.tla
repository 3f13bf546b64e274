-------------------------------- MODULE Links --------------------------------
(***************************************************************************)
(* The three kinds of MappingRunner (app/engine/bridge.py) that do not     *)
(* listen for TCP clients: connect-out (_connect_out, _client_supervisor), *)
(* serial to serial (_serialbridge_supervisor, _pump_serial_pair) and UDP  *)
(* (_UdpPeer, _UdpBridge).  A runner is started in one mode.               *)
(***************************************************************************)
EXTENDS Naturals, Sequences, FiniteSets

CONSTANTS
    LkAddrs,       \* the addresses the remote host resolves to, in order
    LkSenders,     \* addresses that send datagrams
    LkAllowed,     \* those _client_allowed accepts
    LkReadOnly,    \* network.read_only
    BackoffCap,    \* 10.0 s, counted in units of the first delay
    MaxFlaps,      \* bound: changes of what is reachable or plugged in
    MaxDatagrams   \* bound: datagrams and serial chunks of a UDP mapping

Ends == {"A", "B"}

VARIABLES
    lkMode,        \* "none", "client", "bridge", "udp"
    lkStop,        \* _stop is set
    lkPc,          \* where the supervisor task stands
    lkAt,          \* index of the address being tried
    lkBackoff,     \* backoff
    lkClients,     \* _clients: the outgoing session, or the UDP peer's address
    lkLive,        \* environment: addresses that answer, devices plugged in
    lkHandles,     \* serial ports this runner holds open
    lkPump,        \* direction (the end read from) -> "off", "read", "held"
    lkLast,        \* UDP: the last allowed sender
    lkSent,        \* UDP: addresses serial data was sent to
    lkWritten,     \* UDP: senders whose datagrams were written to the device
    lkFlaps, lkDatagrams

lkVars == <<lkMode, lkStop, lkPc, lkAt, lkBackoff, lkClients, lkLive, lkHandles, lkPump, lkLast,
            lkSent, lkWritten, lkFlaps, lkDatagrams>>
udpVars == <<lkLast, lkSent, lkWritten, lkDatagrams>>
Off == [e \in Ends |-> "off"]
AddrSet == {LkAddrs[i] : i \in 1 .. Len(LkAddrs)}

LkInit ==
    /\ lkMode = "none" /\ lkStop = FALSE /\ lkPc = "none" /\ lkAt = 1 /\ lkBackoff = 1
    /\ lkClients = {} /\ lkLive = {} /\ lkHandles = {} /\ lkPump = Off
    /\ lkLast = {} /\ lkSent = {} /\ lkWritten = {} /\ lkFlaps = 0 /\ lkDatagrams = 0

(* start(), by mode and transport.                                         *)
LkStart(mode) ==
    /\ lkMode = "none" /\ lkMode' = mode
    /\ lkPc' = CASE mode = "client" -> "resolve" [] mode = "bridge" -> "openA" [] OTHER -> "udp"
    /\ lkLive' = IF mode = "bridge" THEN Ends ELSE AddrSet
    /\ UNCHANGED <<lkStop, lkAt, lkBackoff, lkClients, lkHandles, lkPump, udpVars, lkFlaps>>

(* Hosts become unreachable and reachable, devices are pulled and plugged. *)
LkFlap(live) ==
    /\ lkMode \in {"client", "bridge"} /\ lkFlaps < MaxFlaps
    /\ live \in SUBSET (IF lkMode = "bridge" THEN Ends ELSE AddrSet)
    /\ lkLive' = live /\ lkFlaps' = lkFlaps + 1
    /\ UNCHANGED <<lkMode, lkStop, lkPc, lkAt, lkBackoff, lkClients, lkHandles, lkPump, udpVars>>

-----------------------------------------------------------------------------
(* _connect_out: the lookup, outside the timeout; it may fail.             *)
ResolveOut(ok) ==
    /\ lkPc = "resolve" /\ (ok \/ lkFlaps < MaxFlaps)
    /\ lkPc' = IF ok THEN "try" ELSE "wait"
    /\ lkAt' = 1 /\ lkFlaps' = IF ok THEN lkFlaps ELSE lkFlaps + 1
    /\ UNCHANGED <<lkMode, lkStop, lkBackoff, lkClients, lkLive, lkHandles, lkPump, udpVars>>

MoreAddresses == lkAt < Len(LkAddrs)

(* One address: connect, or fail (refused, or connect_timeout_s over) and  *)
(* go on with the next; the last failure is the result.                    *)
TryAddress ==
    LET up == LkAddrs[lkAt] \in lkLive IN
    /\ lkPc = "try"
    /\ lkPc' = IF up THEN "linked" ELSE IF MoreAddresses THEN "try" ELSE "wait"
    /\ lkAt' = IF ~up /\ MoreAddresses THEN lkAt + 1 ELSE lkAt
    /\ lkClients' = IF up THEN {LkAddrs[lkAt]} ELSE lkClients
    /\ lkBackoff' = IF up THEN 1 ELSE lkBackoff
    /\ UNCHANGED <<lkMode, lkStop, lkLive, lkHandles, lkPump, udpVars, lkFlaps>>

(* client.run() ends: the peer is gone or the session was closed.          *)
LinkEnds ==
    /\ lkPc = "linked"
    /\ lkPc' = "wait" /\ lkClients' = {}
    /\ UNCHANGED <<lkMode, lkStop, lkAt, lkBackoff, lkLive, lkHandles, lkPump, udpVars, lkFlaps>>

(* The wait before the next round, of both supervisors; a stop ends it.    *)
Retry ==
    /\ lkPc = "wait"
    /\ lkPc' = IF lkStop THEN "ended" ELSE IF lkMode = "client" THEN "resolve" ELSE "openA"
    /\ lkBackoff' = IF 2 * lkBackoff < BackoffCap THEN 2 * lkBackoff ELSE BackoffCap
    /\ UNCHANGED <<lkMode, lkStop, lkAt, lkClients, lkLive, lkHandles, lkPump, udpVars, lkFlaps>>

-----------------------------------------------------------------------------
(* _serialbridge_supervisor: open both ports, A first; a port this runner  *)
(* still holds cannot be opened again.                                     *)
OpenEnd(e) ==
    LET ok == e \in lkLive /\ e \notin lkHandles IN
    /\ lkPc = (IF e = "A" THEN "openA" ELSE "openB")
    /\ lkPc' = IF ~ok THEN "close" ELSE IF e = "A" THEN "openB" ELSE "pump"
    /\ lkHandles' = IF ok THEN lkHandles \cup {e} ELSE lkHandles
    /\ lkPump' = IF ok /\ e = "B" THEN [d \in Ends |-> "read"] ELSE lkPump
    /\ lkBackoff' = IF ok /\ e = "B" THEN 1 ELSE lkBackoff
    /\ UNCHANGED <<lkMode, lkStop, lkAt, lkClients, lkLive, udpVars, lkFlaps>>

(* _pump_serial_pair: read from one end, write and drain to the other.     *)
Pump(e) ==
    /\ lkPc = "pump" /\ lkLive = Ends
    /\ lkPump' = [lkPump EXCEPT ![e] = IF @ = "read" THEN "held" ELSE "read"]
    /\ UNCHANGED <<lkMode, lkStop, lkPc, lkAt, lkBackoff, lkClients, lkLive, lkHandles, udpVars,
                   lkFlaps>>

(* EOF or an error in one pump: the task group cancels the other.          *)
PumpFails ==
    /\ lkPc = "pump" /\ lkLive # Ends
    /\ lkPc' = "close" /\ lkPump' = Off
    /\ UNCHANGED <<lkMode, lkStop, lkAt, lkBackoff, lkClients, lkLive, lkHandles, udpVars, lkFlaps>>

(* The finally block: whatever was opened is closed.                       *)
CloseBoth ==
    /\ lkPc = "close"
    /\ lkHandles' = {} /\ lkPc' = IF lkStop THEN "ended" ELSE "wait"
    /\ UNCHANGED <<lkMode, lkStop, lkAt, lkBackoff, lkClients, lkLive, lkPump, udpVars, lkFlaps>>

(* stop(): set the flag, kick the session, cancel the supervisor; a        *)
(* cancelled bridge still runs its finally block.                          *)
LkStopCall ==
    /\ lkMode # "none" /\ ~lkStop
    /\ lkStop' = TRUE /\ lkClients' = {} /\ lkPump' = Off
    /\ lkPc' = IF lkPc \in {"openA", "openB", "pump", "close"} THEN "close" ELSE "ended"
    /\ UNCHANGED <<lkMode, lkAt, lkBackoff, lkLive, lkHandles, udpVars, lkFlaps>>

-----------------------------------------------------------------------------
ClientAllowed(a) == a \in LkAllowed

(* datagram_received: the allow-list first, then the single peer becomes   *)
(* the sender, then the write unless read-only.                            *)
DatagramReceived(a) ==
    LET ok == ClientAllowed(a) IN
    /\ lkPc = "udp" /\ lkDatagrams < MaxDatagrams /\ lkDatagrams' = lkDatagrams + 1
    /\ lkClients' = IF ok THEN {a} ELSE lkClients
    /\ lkLast' = IF ok THEN {a} ELSE lkLast
    /\ lkWritten' = IF ok /\ ~LkReadOnly THEN lkWritten \cup {a} ELSE lkWritten
    /\ UNCHANGED <<lkMode, lkStop, lkPc, lkAt, lkBackoff, lkLive, lkHandles, lkPump, lkSent, lkFlaps>>

(* feed_from_serial of the peer.                                           *)
UdpFeed ==
    /\ lkPc = "udp" /\ lkClients # {} /\ lkDatagrams < MaxDatagrams
    /\ lkDatagrams' = lkDatagrams + 1 /\ lkSent' = lkSent \cup {<<a, lkLast>> : a \in lkClients}
    /\ UNCHANGED <<lkMode, lkStop, lkPc, lkAt, lkBackoff, lkClients, lkLive, lkHandles, lkPump,
                   lkLast, lkWritten, lkFlaps>>

LkSupervise ==
    \/ \E ok \in BOOLEAN : ResolveOut(ok)
    \/ TryAddress \/ LinkEnds \/ Retry \/ PumpFails \/ CloseBoth
    \/ \E e \in Ends : OpenEnd(e)

LkNext ==
    \/ \E mode \in {"client", "bridge", "udp"} : LkStart(mode)
    \/ LkSupervise \/ LkStopCall \/ UdpFeed
    \/ \E live \in SUBSET (AddrSet \cup Ends) : LkFlap(live)
    \/ \E e \in Ends : Pump(e)
    \/ \E a \in LkSenders : DatagramReceived(a)

-----------------------------------------------------------------------------
Usable == IF lkMode = "bridge" THEN lkLive = Ends ELSE lkLive # {}

(* "so a dual-stack host whose IPv6 path is dead still falls back to IPv4":*)
(* if some address answers from some time on, a connect-out mapping gets   *)
(* linked, whichever it is; and a serial bridge runs again once both       *)
(* devices are back.                                                       *)
LinkRecovers ==
    <>[]Usable => lkMode \in {"client", "bridge"} ~> (lkPc \in {"linked", "pump"} \/ lkStop)

(* Ports are held only while they are opened or pumped, never over a wait  *)
(* or after the end, and both belong to the pumps that run.                *)
PortsReleased ==
    /\ lkPc \in {"wait", "ended", "openA"} => lkHandles = {}
    /\ lkPc = "pump" => lkHandles = Ends
    /\ lkPump # Off => lkPc = "pump"

(* Serial data of a UDP mapping goes to the last allowed sender and to     *)
(* nobody else, and only allowed senders reach the device.                 *)
UdpFollowsAllowed ==
    /\ \A s \in lkSent : s[1] \in LkAllowed /\ s[2] = {s[1]}
    /\ lkWritten \subseteq LkAllowed


=============================================================================
