----------------------------- MODULE Lifecycle ------------------------------
(***************************************************************************)
(* Start and stop of the program: main and _serve of app/runtime.py, the   *)
(* engine's start and stop of app/state.py, and run of app/winservice.py,  *)
(* where main runs in the service thread and stop requests arrive in the   *)
(* thread of the Service Control Manager (SCM). An action is one statement *)
(* that the other thread can see, since the threads interleave anywhere.   *)
(***************************************************************************)
EXTENDS Naturals, Sequences

CONSTANTS MaxControls      \* bound: stop and shutdown requests

VARIABLES
    lfPc,          \* the service thread
    lfParts,       \* parts of the engine that run, in the order they started
    lfHooked,      \* _shutdown_hooks holds _serve's hook
    lfAsked,       \* _shutdown_requested
    lfExit,        \* server.should_exit
    lfPosted,      \* the hook's call_soon_threadsafe waits in the loop
    lfCtl,         \* the SCM's thread
    lfCopy,        \* the hooks request_shutdown copied
    lfStatus,      \* status.dwCurrentState, shared by both threads
    lfTold,        \* what SetServiceStatus was called with, in order
    lfControls

lfVars == <<lfPc, lfParts, lfHooked, lfAsked, lfExit, lfPosted, lfCtl, lfCopy, lfStatus, lfTold, lfControls>>

(* start_engine's order; stop_engine takes them in reverse.                *)
Parts == <<"ports", "supervisor", "cluster", "notifier", "maintenance">>

LfInit ==
    /\ lfPc = "register" /\ lfParts = <<>> /\ lfHooked = FALSE /\ lfAsked = FALSE
    /\ lfExit = FALSE /\ lfPosted = FALSE /\ lfCtl = "idle" /\ lfCopy = FALSE
    /\ lfStatus = "START_PENDING" /\ lfTold = <<"START_PENDING">> /\ lfControls = 0

-----------------------------------------------------------------------------
(* The service thread.                                                     *)

(* report: the shared record is filled in, then handed to the SCM.         *)
LfReport(from, mid, to, state) ==
    \/ lfPc = from /\ lfPc' = mid /\ lfStatus' = state /\ UNCHANGED lfTold
    \/ lfPc = mid /\ lfPc' = to /\ lfTold' = Append(lfTold, lfStatus) /\ UNCHANGED lfStatus

LfRunning ==
    /\ LfReport("register", "running", "start", "RUNNING")
    /\ UNCHANGED <<lfParts, lfHooked, lfAsked, lfExit, lfPosted, lfCtl, lfCopy, lfControls>>

(* start_engine: each part is awaited before the next.                     *)
LfStartPart ==
    /\ lfPc = "start" /\ lfParts' = Append(lfParts, Parts[Len(lfParts) + 1])
    /\ lfPc' = IF Len(lfParts') = Len(Parts) THEN "hook" ELSE "start"
    /\ UNCHANGED <<lfHooked, lfAsked, lfExit, lfPosted, lfCtl, lfCopy, lfStatus, lfTold, lfControls>>

(* The hook is registered, and only then the event is looked at.           *)
LfHook ==
    /\ lfPc = "hook" /\ lfPc' = "check" /\ lfHooked' = TRUE
    /\ UNCHANGED <<lfParts, lfAsked, lfExit, lfPosted, lfCtl, lfCopy, lfStatus, lfTold, lfControls>>

NotAsked == FALSE
Asked == lfAsked

LfCheck ==
    /\ lfPc = "check" /\ lfPc' = "serve" /\ lfExit' = (lfExit \/ Asked)
    /\ UNCHANGED <<lfParts, lfHooked, lfAsked, lfPosted, lfCtl, lfCopy, lfStatus, lfTold, lfControls>>

(* The loop runs _request_shutdown.                                        *)
LfPosted ==
    /\ lfPc = "serve" /\ lfPosted /\ lfPosted' = FALSE /\ lfExit' = TRUE
    /\ UNCHANGED <<lfPc, lfParts, lfHooked, lfAsked, lfCtl, lfCopy, lfStatus, lfTold, lfControls>>

(* serve_task ends because it was asked to.                                *)
LfServed ==
    /\ lfPc = "serve" /\ lfExit /\ lfPc' = "unhook"
    /\ UNCHANGED <<lfParts, lfHooked, lfAsked, lfExit, lfPosted, lfCtl, lfCopy, lfStatus, lfTold, lfControls>>

(* serve_task ends by itself: the address of the admin UI cannot be bound. *)
LfServeFails ==
    /\ lfPc = "serve" /\ lfPc' = "unhook"
    /\ UNCHANGED <<lfParts, lfHooked, lfAsked, lfExit, lfPosted, lfCtl, lfCopy, lfStatus, lfTold, lfControls>>

LfUnhook ==
    /\ lfPc = "unhook" /\ lfPc' = "stop" /\ lfHooked' = FALSE
    /\ UNCHANGED <<lfParts, lfAsked, lfExit, lfPosted, lfCtl, lfCopy, lfStatus, lfTold, lfControls>>

(* stop_engine, then the loop is closed and main returns.                  *)
LfStopPart ==
    /\ lfPc = "stop" /\ lfParts' = SubSeq(lfParts, 1, Len(lfParts) - 1)
    /\ lfPc' = IF lfParts' = <<>> THEN "ended" ELSE "stop"
    /\ UNCHANGED <<lfHooked, lfAsked, lfExit, lfPosted, lfCtl, lfCopy, lfStatus, lfTold, lfControls>>

LfStopped ==
    /\ LfReport("ended", "stopped", "done", "STOPPED")
    /\ UNCHANGED <<lfParts, lfHooked, lfAsked, lfExit, lfPosted, lfCtl, lfCopy, lfControls>>

-----------------------------------------------------------------------------
(* The SCM's thread: on_control, one request at a time. Requests are       *)
(* accepted from RUNNING on, while a stop is pending too.                  *)

LfControl ==
    /\ lfCtl = "idle" /\ lfControls < MaxControls /\ lfTold[Len(lfTold)] \in {"RUNNING", "STOP_PENDING"}
    /\ lfControls' = lfControls + 1 /\ lfCtl' = "report"
    /\ UNCHANGED <<lfPc, lfParts, lfHooked, lfAsked, lfExit, lfPosted, lfCopy, lfStatus, lfTold>>

LfCtlReport ==
    /\ \/ lfCtl = "report" /\ lfCtl' = "tell" /\ lfStatus' = "STOP_PENDING" /\ UNCHANGED lfTold
       \/ lfCtl = "tell" /\ lfCtl' = "set" /\ lfTold' = Append(lfTold, lfStatus) /\ UNCHANGED lfStatus
    /\ UNCHANGED <<lfPc, lfParts, lfHooked, lfAsked, lfExit, lfPosted, lfCopy, lfControls>>

(* request_shutdown: the event, a copy of the hooks, each hook.            *)
LfAsk ==
    /\ lfCtl = "set" /\ lfCtl' = "copy" /\ lfAsked' = TRUE
    /\ UNCHANGED <<lfPc, lfParts, lfHooked, lfExit, lfPosted, lfCopy, lfStatus, lfTold, lfControls>>

LfCopy ==
    /\ lfCtl = "copy" /\ lfCtl' = "call" /\ lfCopy' = lfHooked
    /\ UNCHANGED <<lfPc, lfParts, lfHooked, lfAsked, lfExit, lfPosted, lfStatus, lfTold, lfControls>>

(* The hook posts to the loop; a loop already closed raises, and the       *)
(* request ends there.                                                     *)
LfCall ==
    /\ lfCtl = "call" /\ lfCtl' = "idle" /\ lfCopy' = FALSE
    /\ lfPosted' = (lfPosted \/ (lfCopy /\ lfPc \notin {"ended", "stopped", "done"}))
    /\ UNCHANGED <<lfPc, lfParts, lfHooked, lfAsked, lfExit, lfStatus, lfTold, lfControls>>

LfMain  == LfRunning \/ LfStartPart \/ LfHook \/ LfCheck \/ LfPosted \/ LfServed \/ LfUnhook
             \/ LfStopPart \/ LfStopped
LfScm   == LfCtlReport \/ LfAsk \/ LfCopy \/ LfCall

LfNext == LfMain \/ LfServeFails \/ LfControl \/ LfScm

-----------------------------------------------------------------------------
(* A stop request is never lost, whenever it arrives: before the hook is   *)
(* registered, between its registration and the look at the event, while   *)
(* the server runs or while it already stops, main ends.                   *)
StopHeeded == lfAsked ~> lfPc = "done"

(* The SCM is told STOPPED only when every part of the engine has stopped: *)
(* the ports are free for a service that is started again at once.         *)
ToldStopped   == \E i \in 1 .. Len(lfTold) : lfTold[i] = "STOPPED"
StoppedIsDown == ToldStopped => lfParts = <<>>

(* A stop request ends the program, and ends it whole.                     *)
StopsWhole == StopHeeded /\ []StoppedIsDown

(* "Whatever happens, the SCM must still be told STOPPED": when main has   *)
(* ended and reported, the SCM has been told.                              *)
ScmToldStopped == lfPc = "done" => ToldStopped

=============================================================================
