---------------------------- MODULE MappingRunner ----------------------------
(***************************************************************************)
(* One server-mode MappingRunner of app/engine/bridge.py: start() and      *)
(* stop(), the serial supervisor task, and the admission of clients in     *)
(* _on_client().  A runner is started once; the Supervisor makes a new one *)
(* for every change of its mapping.                                        *)
(*                                                                         *)
(* An action is the code between two awaits.  What happens inside a        *)
(* session is the subject of ClientConn: here a registered client is live, *)
(* closing (its _closing flag is set) or has left.                         *)
(***************************************************************************)
EXTENDS Naturals, FiniteSets

CONSTANTS
    Conns,           \* connections that clients may make
    AllowedConns,    \* those whose address passes _client_allowed
    PriorityConns,   \* those whose address is in priority_client_ips
    MaxConnections,  \* network.max_connections
    KickOldUser,     \* network.kick_old_user
    Rfc2217,         \* network.protocol = "rfc2217"
    OverlapStop,     \* stop() may be called while start() awaits start_server
    MaxLosses        \* bound: how often the device disappears or fails

ASSUME RunnerAssumption ==
    /\ IsFiniteSet(Conns)
    /\ AllowedConns \subseteq Conns /\ PriorityConns \subseteq Conns
    /\ MaxConnections \in Nat \ {0}
    /\ {KickOldUser, Rfc2217, OverlapStop} \subseteq BOOLEAN
    /\ MaxLosses \in Nat

VARIABLES
    startPc,    \* start(): new, binding, bound (listening, not returned), up, failed
    stopPc,     \* stop(): idle, waitclosed, cancelling, closing, done
    stopEv,     \* the _stop event
    server,     \* _server is set
    listening,  \* the listening socket accepts connections
    sup,        \* _serial_supervisor: none, opening, reading, closing, backoff, done
    swriter,    \* _swriter is set; _serial_ready and serial_instance go with it
    held,       \* the handle on the device: no, open, closing (its transport is)
    orphan,     \* an abandoned open_serial still runs in its worker thread
    plugged,    \* the device is there and can be opened
    losses,     \* device failures so far
    state,      \* status.state
    conn,       \* per connection: away, accepted, waiting, serving, gone
    clients,    \* _clients
    closing,    \* the connections whose _ClientConn has _closing set
    joined,     \* connected_at
    clock       \* orders connected_at

serialVars == <<sup, swriter, held, orphan>>
device     == <<plugged, losses>>
callVars   == <<startPc, stopPc, stopEv, server, listening>>
connVars   == <<conn, clients, closing, joined, clock>>
vars       == <<callVars, serialVars, device, state, connVars>>

Init ==
    /\ startPc = "new" /\ stopPc = "idle" /\ stopEv = FALSE
    /\ server = FALSE /\ listening = FALSE
    /\ sup = "none" /\ swriter = FALSE /\ held = "no" /\ orphan = FALSE
    /\ plugged \in BOOLEAN /\ losses = 0
    /\ state = "stopped"
    /\ conn = [c \in Conns |-> "away"]
    /\ clients = {} /\ closing = {}
    /\ joined = [c \in Conns |-> 0] /\ clock = 0

-----------------------------------------------------------------------------
(* start()                                                                 *)

\* The serial task is created first, then start_server is awaited.
Start ==
    /\ startPc = "new" /\ startPc' = "binding"
    /\ sup' = "opening"
    /\ UNCHANGED <<stopPc, stopEv, server, listening, swriter, held, orphan, device,
                   state, connVars>>

\* start_server has bound the socket and listens; it has not returned yet.
Bind ==
    /\ startPc = "binding" /\ startPc' = "bound"
    /\ listening' = TRUE
    /\ UNCHANGED <<stopPc, stopEv, server, serialVars, device, state, connVars>>

\* start() goes on, whatever happened while it was waiting.
Started ==
    /\ startPc = "bound" /\ startPc' = "up"
    /\ server' = TRUE
    /\ state' = "running"
    /\ UNCHANGED <<stopPc, stopEv, listening, serialVars, device, connVars>>


\* The first part of stop(): the listener is closed, every client kicked.
StopBegins ==
    /\ stopEv' = TRUE
    /\ listening' = (listening /\ ~server)
    /\ closing' = closing \cup clients
    /\ stopPc' = IF server THEN "waitclosed" ELSE "cancelling"

\* Address in use, bad certificate: start() calls stop() and raises.  A stop()
\* that is already under way leaves this one nothing to do.
BindFails ==
    /\ startPc = "binding" /\ startPc' = "failed"
    /\ IF stopPc = "idle" THEN StopBegins ELSE UNCHANGED <<stopEv, listening, closing, stopPc>>
    /\ UNCHANGED <<server, serialVars, device, state, conn, clients, joined, clock>>

-----------------------------------------------------------------------------
(* stop()                                                                  *)

StopCall ==
    /\ stopPc = "idle"
    /\ startPc \in {"up"} \cup (IF OverlapStop THEN {"binding", "bound"} ELSE {})
    /\ StopBegins
    /\ UNCHANGED <<startPc, server, serialVars, device, state, conn, clients, joined, clock>>

\* Variant: wait_closed without a timeout.
StopWaitedForClients ==
    /\ stopPc = "waitclosed" /\ clients = {} /\ stopPc' = "cancelling"
    /\ server' = FALSE
    /\ UNCHANGED <<startPc, stopEv, listening, serialVars, device, state, connVars>>

\* wait_closed returned, or its five seconds are over.
StopWaited ==
    /\ stopPc = "waitclosed" /\ stopPc' = "cancelling"
    /\ server' = FALSE
    /\ UNCHANGED <<startPc, stopEv, listening, serialVars, device, state, connVars>>

\* The first half of _close_serial: nobody can write any more, the transport is
\* told to close; wait_closed follows.
CloseSerial ==
    /\ sup' = "closing" /\ swriter' = FALSE
    /\ held' = IF held = "open" THEN "closing" ELSE held

\* The serial task gets the cancellation at the await it is in.  An open in its
\* worker thread goes on without it; a close goes on in the transport.
SupervisorCancelled ==
    /\ stopPc = "cancelling" /\ sup \in {"opening", "reading", "closing", "backoff"}
    /\ stopPc' = "closing"
    /\ orphan' = (sup = "opening")
    /\ IF sup = "reading" THEN CloseSerial
                          ELSE sup' = "done" /\ UNCHANGED <<swriter, held>>
    /\ UNCHANGED <<startPc, stopEv, server, listening, device, state, connVars>>

SupervisorWasDone ==
    /\ stopPc = "cancelling" /\ sup = "done" /\ stopPc' = "closing"
    /\ UNCHANGED <<startPc, stopEv, server, listening, serialVars, device, state, connVars>>

\* Variant: the cancelled task is not awaited.
StopDoneEarly ==
    /\ stopPc = "closing"
    /\ stopPc' = "done"
    /\ state' = "stopped"
    /\ UNCHANGED <<startPc, stopEv, server, listening, serialVars, device, connVars>>

\* The serial task has ended; stop() reports.
StopDone ==
    /\ stopPc = "closing" /\ sup = "done"
    /\ stopPc' = "done"
    /\ state' = "stopped"
    /\ UNCHANGED <<startPc, stopEv, server, listening, serialVars, device, connVars>>

-----------------------------------------------------------------------------
(* _serial_supervisor                                                      *)

\* Variant: an error ends the supervisor task.
LoopEnds == sup' = "done" /\ UNCHANGED state

\* After the finally clause: leave when stopping, else report and back off.
LoopOn ==
    IF stopEv THEN sup' = "done" /\ UNCHANGED state
              ELSE sup' = "backoff" /\ state' = "reconnecting"

OpenOk ==
    /\ sup = "opening" /\ plugged
    /\ sup' = "reading" /\ swriter' = TRUE /\ held' = "open"
    /\ state' = "running"
    /\ UNCHANGED <<callVars, orphan, device, connVars>>

\* Nothing is awaited between the error and the back-off: "device-missing" is
\* overwritten before anybody can see it.
OpenFails ==
    /\ sup = "opening" /\ ~plugged
    /\ LoopOn
    /\ UNCHANGED <<callVars, swriter, held, orphan, device, connVars>>

\* Variant: the writer of the lost device stays in place.
SerialLostKeepingWriter ==
    /\ sup = "reading" /\ losses < MaxLosses /\ losses' = losses + 1
    /\ plugged' \in BOOLEAN
    /\ sup' = "closing" /\ held' = "closing"
    /\ state' = "device-missing"
    /\ UNCHANGED <<callVars, swriter, orphan, connVars>>

\* End of file or an error on the device: the writer is given up and closed.
SerialLost ==
    /\ sup = "reading" /\ losses < MaxLosses /\ losses' = losses + 1
    /\ plugged' \in BOOLEAN
    /\ CloseSerial
    /\ state' = "device-missing"
    /\ UNCHANGED <<callVars, orphan, connVars>>

\* A read returned data after stop(): the loop ends without an error.
ReadLoopStops ==
    /\ sup = "reading" /\ stopEv
    /\ CloseSerial
    /\ UNCHANGED <<callVars, orphan, device, state, connVars>>

\* wait_closed of the serial writer has returned; a cancelled task ends here.
SerialClosed ==
    /\ sup = "closing" /\ held = "no"
    /\ IF stopPc = "closing" THEN sup' = "done" /\ UNCHANGED state ELSE LoopOn
    /\ UNCHANGED <<callVars, swriter, held, orphan, device, connVars>>

BackoffOver ==
    /\ sup = "backoff"
    /\ sup' = IF stopEv THEN "done" ELSE "opening"
    /\ UNCHANGED <<callVars, swriter, held, orphan, device, state, connVars>>

\* The transport has flushed and closed the port, with or without a waiter.
TransportCloses ==
    /\ held = "closing"
    /\ held' = "no"
    /\ UNCHANGED <<callVars, sup, swriter, orphan, device, state, connVars>>

\* The worker thread of an abandoned open ends, its port object is collected.
OrphanEnds ==
    /\ orphan
    /\ orphan' = FALSE
    /\ UNCHANGED <<callVars, sup, swriter, held, device, state, connVars>>

DeviceChanges ==
    /\ losses < MaxLosses /\ losses' = losses + 1
    /\ plugged' = ~plugged
    /\ sup # "reading"
    /\ UNCHANGED <<callVars, serialVars, state, connVars>>

-----------------------------------------------------------------------------
(* _on_client()                                                            *)

\* The protocol's connection_made creates the task that runs _on_client.
Accept(c) ==
    /\ listening /\ conn[c] = "away"
    /\ conn' = [conn EXCEPT ![c] = "accepted"]
    /\ UNCHANGED <<callVars, serialVars, device, state, clients, closing, joined, clock>>

\* Variant: the oldest client, priority or not.
PoolOfAll == clients

\* _pick_victim: the oldest client without priority, else the oldest.
Pool == IF clients \subseteq PriorityConns THEN clients ELSE clients \ PriorityConns
IsVictim(v) == v \in Pool /\ \A u \in Pool : joined[v] <= joined[u]

\* Variant: one client too many.
FullPlusOne == Cardinality(clients) > MaxConnections

Full == Cardinality(clients) >= MaxConnections

Register(c) ==
    /\ conn' = [conn EXCEPT ![c] = "serving"]
    /\ clients' = clients \cup {c}
    /\ joined' = [joined EXCEPT ![c] = clock]
    /\ clock' = clock + 1

\* The rest of _on_client after the capacity check.
EnterOrWait(c) ==
    IF Rfc2217 /\ ~swriter
    THEN conn' = [conn EXCEPT ![c] = "waiting"] /\ UNCHANGED <<clients, joined, clock>>
    ELSE Register(c)

\* Not allowed, or full and neither priority nor kick_old_user ("Busy").
Refuse(c) ==
    /\ conn[c] = "accepted"
    /\ \/ c \notin AllowedConns
       \/ Full /\ c \notin PriorityConns /\ ~KickOldUser
    /\ conn' = [conn EXCEPT ![c] = "gone"]
    /\ UNCHANGED <<callVars, serialVars, device, state, clients, closing, joined, clock>>

Admit(c) ==
    /\ conn[c] = "accepted" /\ c \in AllowedConns /\ ~Full
    /\ EnterOrWait(c)
    /\ UNCHANGED <<callVars, serialVars, device, state, closing>>

\* A full mapping: the victim is kicked; it stays in _clients until its own
\* task has ended.
AdmitKicking(c) ==
    /\ conn[c] = "accepted" /\ c \in AllowedConns /\ Full
    /\ c \in PriorityConns \/ KickOldUser
    /\ \E v \in clients : IsVictim(v) /\ closing' = closing \cup {v}
    /\ EnterOrWait(c)
    /\ UNCHANGED <<callVars, serialVars, device, state>>

\* RFC 2217: the serial port became ready while the client waited.
WaitedReady(c) ==
    /\ conn[c] = "waiting" /\ swriter
    /\ Register(c)
    /\ UNCHANGED <<callVars, serialVars, device, state, closing>>

WaitedInVain(c) ==
    /\ conn[c] = "waiting" /\ ~swriter
    /\ conn' = [conn EXCEPT ![c] = "gone"]
    /\ UNCHANGED <<callVars, serialVars, device, state, clients, closing, joined, clock>>

\* closeon, a full output queue or the end of the session set _closing.
SessionCloses(c) ==
    /\ c \in clients \ closing
    /\ closing' = closing \cup {c}
    /\ UNCHANGED <<callVars, serialVars, device, state, conn, clients, joined, clock>>

\* Variant: a kicked client is taken for one that was already discarded.
LeaveUnlessKicked(c) ==
    /\ conn[c] = "serving"
    /\ conn' = [conn EXCEPT ![c] = "gone"]
    /\ clients' = IF c \in closing THEN clients ELSE clients \ {c}
    /\ UNCHANGED <<callVars, serialVars, device, state, closing, joined, clock>>

\* run() has returned: the client is taken out of _clients.
Leave(c) ==
    /\ conn[c] = "serving"
    /\ conn' = [conn EXCEPT ![c] = "gone"]
    /\ clients' = clients \ {c}
    /\ UNCHANGED <<callVars, serialVars, device, state, closing, joined, clock>>

-----------------------------------------------------------------------------
CallStep == Start \/ Bind \/ Started \/ BindFails \/ StopCall \/ StopWaited
            \/ SupervisorCancelled \/ SupervisorWasDone \/ StopDone
SerialStep == OpenOk \/ OpenFails \/ SerialLost \/ ReadLoopStops \/ SerialClosed
              \/ BackoffOver \/ TransportCloses \/ OrphanEnds \/ DeviceChanges
ClientStep(c) == Accept(c) \/ Refuse(c) \/ Admit(c) \/ AdmitKicking(c)
                 \/ WaitedReady(c) \/ WaitedInVain(c) \/ SessionCloses(c) \/ Leave(c)

Next == CallStep \/ SerialStep \/ \E c \in Conns : ClientStep(c)

\* The event loop runs the two coroutines and the serial task; the device takes
\* and gives back what is written and closed.  Clients owe nothing.
Fairness ==
    /\ WF_vars(Bind \/ BindFails) /\ WF_vars(Started)
    /\ WF_vars(StopWaited) /\ WF_vars(SupervisorCancelled \/ SupervisorWasDone)
    /\ WF_vars(StopDone)
    /\ WF_vars(OpenOk \/ OpenFails) /\ WF_vars(SerialClosed) /\ WF_vars(BackoffOver)
    /\ WF_vars(TransportCloses) /\ WF_vars(OrphanEnds)

Spec == Init /\ [][Next]_vars
FairSpec == Spec /\ Fairness

-----------------------------------------------------------------------------
(* Properties                                                              *)

CallTypeOK ==
    /\ startPc \in {"new", "binding", "bound", "up", "failed"}
    /\ stopPc \in {"idle", "waitclosed", "cancelling", "closing", "done"}
    /\ stopEv \in BOOLEAN /\ server \in BOOLEAN /\ listening \in BOOLEAN

SerialTypeOK ==
    /\ sup \in {"none", "opening", "reading", "closing", "backoff", "done"}
    /\ held \in {"no", "open", "closing"}
    /\ swriter \in BOOLEAN /\ orphan \in BOOLEAN
    /\ plugged \in BOOLEAN /\ losses \in 0 .. MaxLosses
    /\ state \in {"stopped", "running", "reconnecting", "device-missing"}

\* The registered clients are those whose task is inside run().
ConnTypeOK ==
    /\ conn \in [Conns -> {"away", "accepted", "waiting", "serving", "gone"}]
    /\ clients = {c \in Conns : conn[c] = "serving"}
    /\ closing \subseteq Conns
    /\ joined \in [Conns -> Nat] /\ clock \in Nat

\* Types; _clients holds exactly the connections whose task is inside run(), so
\* the count that max_connections is compared with never drifts.
TypeOK == CallTypeOK /\ SerialTypeOK /\ ConnTypeOK

\* The limit holds for clients that are refused when the mapping is full: no
\* await separates the check of max_connections from the registration.  A
\* priority client comes in on top, in the place of a kicked one.
Capacity ==
    ~KickOldUser /\ ~Rfc2217 =>
        Cardinality(clients \ PriorityConns) <= MaxConnections

\* What the module's description says of every mapping: the port is shared by
\* at most max_connections clients (a kicked client that is still being torn
\* down is not counted).
LiveWithinMax == Cardinality(clients \ closing) <= MaxConnections

\* Making room: a client with priority is evicted only when nobody without
\* priority is registered, and never while an older one of its kind is.
EvictionOrder ==
    [][\A c \in Conns, v \in closing' \ closing :
          conn[c] = "accepted" /\ conn'[c] # "accepted" =>
              /\ Full
              /\ v \in PriorityConns => clients \subseteq PriorityConns
              /\ \A u \in clients : (u \in PriorityConns <=> v \in PriorityConns)
                                        => joined[v] <= joined[u]]_vars

\* An allowed client with priority is never sent away because the mapping is
\* full; it can only fail to find the serial port ready.
PriorityGetsIn ==
    [][\A c \in PriorityConns \cap AllowedConns :
          conn[c] = "accepted" => conn'[c] # "gone"]_vars

\* Who gets a place when there are more clients than places.
AdmissionOrder == EvictionOrder /\ PriorityGetsIn

\* While clients can write to the device (and RFC 2217 clients are admitted),
\* the supervisor task owns an open handle and the dashboard says "running".
WriterIsLive ==
    swriter => /\ sup = "reading" /\ held = "open" /\ state = "running"
               /\ stopPc \notin {"closing", "done"}

\* A finished stop() leaves nothing behind that could touch the device or
\* change the status: no writer, no supervisor task, no back-off timer.
StoppedIsQuiet ==
    stopPc = "done" => sup = "done" /\ ~swriter /\ (startPc # "up" => state = "stopped")


\* The clients of a stopped mapping are being closed: they drain after stop().
StopClosesClients == stopPc = "done" => clients \subseteq closing

\* stop() always returns, whatever the clients do and wherever the serial task
\* is, as long as the device lets itself be closed.
StopReturns == (stopPc # "idle") ~> (stopPc = "done")

\* The device is open again for good once it can be opened and nobody stops
\* the mapping: no failure leaves the supervisor task dead or asleep.
Reconnects == <>[](plugged /\ ~stopEv /\ startPc # "new") => <>[]swriter

\* A stopped mapping gives the device back, also when it was stopped in the
\* middle of an open or of a close.
DeviceFreed == (stopPc = "done") ~> [](held = "no" /\ ~orphan)

\* The device is held exactly as long as the mapping is to use it.
DeviceCycle == Reconnects /\ DeviceFreed

=============================================================================
