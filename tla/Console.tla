------------------------------- MODULE Console -------------------------------
(***************************************************************************)
(* A browser console on a mapping: console_ws and traffic_ws of            *)
(* app/web/routes/console.py with their _Monitor queue, which a runner     *)
(* (app/engine/bridge.py, MappingRunner) feeds and closes.  One socket;    *)
(* the mapping may be stopped and started again under it, and the user's   *)
(* access may change.                                                      *)
(***************************************************************************)
EXTENDS Naturals, Sequences

CONSTANTS
    MonitorMax,    \* room in a monitor's queue: 2048
    CoRoles,       \* roles, numbers above 0
    MaxRuns,       \* bound: runners the supervisor makes for the mapping
    MaxChunks,     \* bound: chunks read from the device
    MaxAccess      \* bound: changes of the user's access

Stopped == 0      \* the sentinel None in a queue

VARIABLES
    coRun,         \* number of the current runner; 0 before the first
    coRunning,     \* the current runner has not been stopped
    coRole,        \* what request_user gives now: a role, 0 for nobody
    coPc,          \* "none", "accepting", "open", "ending", "closed"
    coRunner,      \* the runner looked up
    coAs,          \* the role at the time of the check
    coIn,          \* the monitor is in that runner's _monitors
    coQueue,       \* the monitor's queue
    coEnds,        \* which of sender, receiver, access_watch has returned
    coChunks, coAccess

coVars == <<coRun, coRunning, coRole, coPc, coRunner, coAs, coIn, coQueue, coEnds,
            coChunks, coAccess>>

CoInit ==
    /\ coRun = 0 /\ coRunning = FALSE /\ coRole = 0 /\ coPc = "none" /\ coRunner = 0 /\ coAs = 0
    /\ coIn = FALSE /\ coQueue = <<>> /\ coEnds = {} /\ coChunks = 0
    /\ coAccess = 0

(* The supervisor starts a new runner for the mapping.                     *)
CoRun ==
    /\ ~coRunning /\ coRun < MaxRuns
    /\ coRun' = coRun + 1 /\ coRunning' = TRUE
    /\ UNCHANGED <<coRole, coPc, coRunner, coAs, coIn, coQueue, coEnds, coChunks, coAccess>>

(* _Monitor.close: the sentinel, unless the queue is full.                 *)
CloseMonitor(q) == IF Len(q) < MonitorMax THEN Append(q, Stopped) ELSE q

StaysIn == coIn
StillIn == coIn /\ coRunner # coRun

(* stop(): each monitor is closed and the set is emptied, with no await in *)
(* between; the read loop may still feed what is in the set.               *)
CoStop ==
    /\ coRunning /\ coRunning' = FALSE
    /\ coQueue' = IF coIn /\ coRunner = coRun THEN CloseMonitor(coQueue) ELSE coQueue
    /\ coIn' = StillIn
    /\ UNCHANGED <<coRun, coRole, coPc, coRunner, coAs, coEnds, coChunks, coAccess>>

(* _Monitor.feed: the oldest item makes room.                              *)
FeedMonitor(q, n) == Append(IF Len(q) < MonitorMax THEN q ELSE Tail(q), n)

(* _feed_monitors from the read loop of the looked-up runner, which runs   *)
(* on until stop() has cancelled it.                                       *)
CoFeed ==
    /\ coRun > 0 /\ coRunner = coRun /\ coChunks < MaxChunks
    /\ coChunks' = coChunks + 1
    /\ coQueue' = IF coIn THEN FeedMonitor(coQueue, coChunks + 1) ELSE coQueue
    /\ UNCHANGED <<coRun, coRunning, coRole, coPc, coRunner, coAs, coIn, coEnds, coAccess>>

(* A login, a revoked session, login switched on or off, a changed role.   *)
CoAccess(role) ==
    /\ coAccess < MaxAccess /\ role # coRole
    /\ coRole' = role /\ coAccess' = coAccess + 1
    /\ UNCHANGED <<coRun, coRunning, coPc, coRunner, coAs, coIn, coQueue, coEnds, coChunks>>

-----------------------------------------------------------------------------
(* _authorize and the look-up of the runner; then accept() is awaited.     *)
CoConnect ==
    /\ coPc = "none" /\ coRole # 0
    /\ IF coRunning THEN coPc' = "accepting" /\ coRunner' = coRun /\ coAs' = coRole
                    ELSE coPc' = "closed" /\ UNCHANGED <<coRunner, coAs>>
    /\ UNCHANGED <<coRun, coRunning, coRole, coIn, coQueue, coEnds, coChunks, coAccess>>

(* accept() returned: the monitor joins the runner that was looked up.     *)
CoAccepted ==
    /\ coPc = "accepting"
    /\ coPc' = "open" /\ coIn' = TRUE
    /\ UNCHANGED <<coRun, coRunning, coRole, coRunner, coAs, coQueue, coEnds, coChunks,
                   coAccess>>

(* sender: the next item goes out; the sentinel ends it.                   *)
CoSend ==
    /\ coPc = "open" /\ coQueue # <<>> /\ "sender" \notin coEnds
    /\ coQueue' = Tail(coQueue)
    /\ coEnds' = IF Head(coQueue) = Stopped THEN coEnds \cup {"sender"} ELSE coEnds
    /\ UNCHANGED <<coRun, coRunning, coRole, coPc, coRunner, coAs, coIn, coChunks, coAccess>>

(* receiver: the browser goes away.                                        *)
CoLeave ==
    /\ coPc = "open" /\ coEnds' = coEnds \cup {"receiver"}
    /\ UNCHANGED <<coRun, coRunning, coRole, coPc, coRunner, coAs, coIn, coQueue, coChunks,
                   coAccess>>

AccessGone == coRole # coAs

(* access_watch: every CONSOLE_ACCESS_RECHECK_S the access is looked up    *)
(* again; nobody, or another role, ends it.                                *)
CoRecheck ==
    /\ coPc = "open" /\ AccessGone
    /\ coEnds' = coEnds \cup {"watch"}
    /\ UNCHANGED <<coRun, coRunning, coRole, coPc, coRunner, coAs, coIn, coQueue, coChunks,
                   coAccess>>

(* One of the three returned: all are cancelled and the monitor leaves.    *)
CoEnd ==
    /\ coPc = "open" /\ coEnds # {}
    /\ coPc' = "closed" /\ coIn' = FALSE
    /\ UNCHANGED <<coRun, coRunning, coRole, coRunner, coAs, coQueue, coEnds, coChunks,
                   coAccess>>

CoTasks == CoSend \/ CoRecheck \/ CoEnd

CoNext ==
    \/ CoRun \/ CoStop \/ CoFeed \/ CoConnect \/ CoAccepted \/ CoLeave \/ CoTasks
    \/ \E role \in CoRoles \cup {0} : CoAccess(role)

-----------------------------------------------------------------------------
(* A console ends once its access is gone: "end it once its access is gone *)
(* (...) instead of letting it keep watching" (access_watch), whatever the *)
(* runner and the queue do meanwhile.                                      *)
AccessEnds == coPc = "open" /\ coRole # coAs ~> (coPc = "closed" \/ coRole = coAs)

(* A sentinel that got into the queue is delivered: no chunk the read loop *)
(* of the stopping runner still reads may push it out, so the console of a *)
(* stopped mapping closes.                                                 *)
SentinelEnds == coPc = "open" /\ Stopped \in {coQueue[i] : i \in 1 .. Len(coQueue)} ~> coPc = "closed"

(* A console ends when its access is gone and when it is told to.          *)
ConsoleEnds == AccessEnds /\ SentinelEnds

(* "mapping stopped": the console of a runner that was stopped is told.    *)
StopTold == coPc = "open" /\ ~coRunning ~> coPc = "closed"

=============================================================================
