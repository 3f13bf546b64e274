------------------------------- MODULE Notify -------------------------------
(***************************************************************************)
(* Class Notifier of app/notify.py: a watcher that turns two snapshots of  *)
(* the status into events, emit() with its memory of repeats, a bounded    *)
(* queue, and a worker that delivers one event at a time and at most       *)
(* MAX_PER_MINUTE of them.                                                 *)
(***************************************************************************)
EXTENDS Naturals, Sequences, SequencesExt

CONSTANTS
    NtOrder,       \* the mappings, in the supervisor's order
    NtQueueMax,    \* room in the queue: 200
    PerMinute,     \* MAX_PER_MINUTE: 20
    Minute,        \* 60 s, in ticks
    RepeatTicks,   \* repeat_s, in ticks
    MaxTicks,      \* bound: time
    MaxTurns       \* bound: status changes, failed sign-ins and edits

VARIABLES
    ntStatus,      \* mapping -> state and whether a client is connected
    ntPrev,        \* _prev: the watcher's last snapshot
    ntOn,          \* notifications.enabled
    ntLast,        \* _last: event and key -> when
    ntQueue,       \* _queue
    ntSent,        \* _sent
    ntNow,         \* monotonic time
    ntBusy,        \* the worker awaits a delivery
    ntLog,         \* deliveries, in order: event, key and start time
    ntUntold,      \* keys whose last change was not told: no event, off, repeat, full, limit
    ntTurns

ntVars == <<ntStatus, ntPrev, ntOn, ntLast, ntQueue, ntSent, ntNow, ntBusy, ntLog, ntUntold, ntTurns>>

States == {"absent", "running", "reconnecting", "error"}
NtIds  == {NtOrder[i] : i \in 1 .. Len(NtOrder)}
Lost   == {"reconnecting", "device-missing"}

NtInit ==
    /\ ntStatus = [m \in NtIds |-> [state |-> "running", peer |-> FALSE]] /\ ntPrev = ntStatus
    /\ ntOn = TRUE /\ ntLast = [e \in {} |-> 0]
    /\ ntQueue = <<>> /\ ntSent = <<>> /\ ntNow = 0 /\ ntBusy = FALSE
    /\ ntLog = <<>> /\ ntUntold = {} /\ ntTurns = 0

NtTurn(m, st, peer) ==
    /\ ntTurns < MaxTurns /\ ntTurns' = ntTurns + 1
    /\ ntStatus[m] # [state |-> st, peer |-> peer] /\ (peer => st = "running")
    /\ ntStatus' = [ntStatus EXCEPT ![m] = [state |-> st, peer |-> peer]]
    /\ UNCHANGED <<ntPrev, ntOn, ntLast, ntQueue, ntSent, ntNow, ntBusy, ntLog, ntUntold>>

(* The settings page switches notifications on and off.                    *)
NtSwitch ==
    /\ ntTurns < MaxTurns /\ ntTurns' = ntTurns + 1 /\ ntOn' = ~ntOn
    /\ UNCHANGED <<ntStatus, ntPrev, ntLast, ntQueue, ntSent, ntNow, ntBusy, ntLog, ntUntold>>

NtTick ==
    /\ ntNow < MaxTicks /\ ntNow' = ntNow + 1
    /\ UNCHANGED <<ntStatus, ntPrev, ntOn, ntLast, ntQueue, ntSent, ntBusy, ntLog, ntUntold, ntTurns>>

-----------------------------------------------------------------------------
(* status_events for one mapping: a mapping seen for the first time gives  *)
(* none. An event is its name and its key: the mapping, or the mapping and *)
(* the client.                                                             *)
StatusEvents(m, old, new) ==
    LET When(c, event, key) == IF c THEN <<<<event, key>>>> ELSE <<>> IN
    IF old.state = "absent" \/ new.state = "absent" THEN <<>> ELSE
    When(old.state = "running" /\ new.state \in Lost, "device_lost", <<m>>)
      \o When(old.state \in Lost /\ new.state = "running", "device_back", <<m>>)
      \o When(new.state = "error" /\ old.state # "error", "start_failed", <<m>>)
      \o When(new.peer /\ ~old.peer, "client_connected", <<m, "peer">>)
      \o When(old.peer /\ ~new.peer, "client_disconnected", <<m, "peer">>)

(* emit: off, or a repeat within repeat_s, is not queued; the time is      *)
(* remembered before the queue is tried, which may be full.                *)
Emit(n, e) ==
    IF ~ntOn \/ (e \in DOMAIN n.last /\ ntNow - n.last[e] < RepeatTicks)
      THEN [n EXCEPT !.untold = @ \cup {e[2]}]
    ELSE [last   |-> [k \in DOMAIN n.last \cup {e} |-> IF k = e THEN ntNow ELSE n.last[k]],
          queue  |-> IF Len(n.queue) < NtQueueMax THEN Append(n.queue, e) ELSE n.queue,
          untold |-> IF Len(n.queue) < NtQueueMax THEN n.untold \ {e[2]} ELSE n.untold \cup {e[2]}]

(* _watch: one pass over the status, without an await between its events.  *)
(* A change that gives no event stays untold.                              *)
NtWatch ==
    LET events == FlattenSeq([i \in 1 .. Len(NtOrder) |->
                      StatusEvents(NtOrder[i], ntPrev[NtOrder[i]], ntStatus[NtOrder[i]])])
        moved == {<<m>> : m \in {x \in NtIds : ntPrev[x].state # ntStatus[x].state}}
                   \cup {<<m, "peer">> : m \in {x \in NtIds : ntPrev[x].peer # ntStatus[x].peer}}
        n == FoldLeft(Emit, [last |-> ntLast, queue |-> ntQueue, untold |-> ntUntold \cup moved], events)
    IN
    /\ ntPrev # ntStatus /\ ntPrev' = ntStatus
    /\ ntLast' = n.last /\ ntQueue' = n.queue /\ ntUntold' = n.untold
    /\ UNCHANGED <<ntStatus, ntOn, ntSent, ntNow, ntBusy, ntLog, ntTurns>>

(* login_post reports a failed sign-in itself.                             *)
NtLoginFailed ==
    LET n == Emit([last |-> ntLast, queue |-> ntQueue, untold |-> ntUntold], <<"login_failed", <<"ip">>>>) IN
    /\ ntTurns < MaxTurns /\ ntTurns' = ntTurns + 1
    /\ ntLast' = n.last /\ ntQueue' = n.queue /\ ntUntold' = n.untold
    /\ UNCHANGED <<ntStatus, ntPrev, ntOn, ntSent, ntNow, ntBusy, ntLog>>

(* _worker: deliveries older than a minute are forgotten; over the limit   *)
(* the event is dropped, otherwise it is counted and delivered.            *)
DroppingEarly(sent) == SelectSeq(sent, LAMBDA t : ntNow - t < Minute)
Dropping(sent) == SelectSeq(sent, LAMBDA t : ntNow - t <= Minute)
NtWork ==
    LET sent == Dropping(ntSent)
        full == Len(sent) >= PerMinute
        e    == Head(ntQueue)
    IN
    /\ ~ntBusy /\ ntQueue # <<>> /\ ntQueue' = Tail(ntQueue)
    /\ ntBusy' = ~full
    /\ ntSent' = IF full THEN sent ELSE Append(sent, ntNow)
    /\ ntLog' = IF full THEN ntLog ELSE Append(ntLog, [event |-> e[1], key |-> e[2], at |-> ntNow])
    /\ ntUntold' = IF full THEN ntUntold \cup {e[2]} ELSE ntUntold
    /\ UNCHANGED <<ntStatus, ntPrev, ntOn, ntLast, ntNow, ntTurns>>

(* _deliver: both channels in turn; their errors are logged and nothing is *)
(* tried again.                                                            *)
NtDelivered ==
    /\ ntBusy /\ ntBusy' = FALSE
    /\ UNCHANGED <<ntStatus, ntPrev, ntOn, ntLast, ntQueue, ntSent, ntNow, ntLog, ntUntold, ntTurns>>

NtNext ==
    \/ NtTick \/ NtSwitch \/ NtWatch \/ NtLoginFailed \/ NtWork \/ NtDelivered
    \/ \E m \in NtIds, st \in States, peer \in BOOLEAN : NtTurn(m, st, peer)

-----------------------------------------------------------------------------
(* MAX_PER_MINUTE: no more deliveries than that start within any minute,   *)
(* however long each takes.                                                *)
RateHeld ==
    \A i \in 1 .. Len(ntLog) :
        i + PerMinute <= Len(ntLog) => ntLog[i + PerMinute].at - ntLog[i].at > Minute

(* The last word on a device is true: when the watcher and the worker have *)
(* caught up, the last notification about a mapping is the one for the     *)
(* state it is in, unless its last change was not told (no event for it,   *)
(* notifications off, a repeat, the limit or a full queue).                *)
Word(status) == CASE status.state = "running" -> "device_back"
                  [] status.state \in Lost    -> "device_lost"
                  [] OTHER                    -> "start_failed"
LastWordTrue ==
    ntQueue = <<>> /\ ntPrev = ntStatus =>
        \A m \in NtIds :
            LET said == {i \in 1 .. Len(ntLog) : ntLog[i].key = <<m>>} IN
            said # {} /\ <<m>> \notin ntUntold =>
                ntLog[CHOOSE i \in said : \A j \in said : j <= i].event = Word(ntStatus[m])

(* Notifications keep to the limit and end on what is true.                *)
NotifiedRight == RateHeld /\ LastWordTrue

=============================================================================
