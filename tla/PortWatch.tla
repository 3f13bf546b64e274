------------------------------ MODULE PortWatch ------------------------------
(***************************************************************************)
(* Class PortWatcher of app/engine/portlist.py: the list of serial ports   *)
(* the UI shows, kept by a polling task and by rescans that hotplug events *)
(* and the Refresh button start.  A snapshot is taken in a worker thread   *)
(* and applied later on the event loop, so two of them may be applied in   *)
(* the other order.                                                        *)
(***************************************************************************)
EXTENDS Naturals, FiniteSets

CONSTANTS
    Devices,       \* device names
    Placeholders,  \* those without a UART behind them (hardware is False)
    Rescans,       \* identities of refresh_now tasks
    MaxPlugs       \* bound: devices plugged in or pulled

VARIABLES
    pwPlugged,     \* what the operating system lists
    pwPorts,       \* _ports
    pwVersion,     \* _version
    pwPoll,        \* the poll task: "off", "sleep", "scan", or the snapshot taken
    pwRescan,      \* rescan task -> "none", "scan", "taken"
    pwTaken,       \* task -> the snapshot it took
    pwStop,        \* _stop is set
    pwPlugs

pwVars == <<pwPlugged, pwPorts, pwVersion, pwPoll, pwRescan, pwTaken, pwStop, pwPlugs>>
PwTasks == Rescans \cup {"poll"}

PwInit ==
    /\ pwPlugged = {} /\ pwPorts = {} /\ pwVersion = 0 /\ pwPoll = "off" /\ pwStop = FALSE
    /\ pwRescan = [r \in Rescans |-> "none"] /\ pwTaken = [t \in PwTasks |-> {}] /\ pwPlugs = 0

(* start(): the list is primed, then the poll task and the event source    *)
(* begin.                                                                  *)
PwStart ==
    /\ pwPoll = "off" /\ ~pwStop
    /\ pwPorts' = pwPlugged /\ pwVersion' = 1 /\ pwPoll' = "sleep"
    /\ UNCHANGED <<pwPlugged, pwRescan, pwTaken, pwStop, pwPlugs>>

(* _trigger_rescan: not after a stop.                                      *)
StartsRescan(r) ==
    [pwRescan EXCEPT ![r] = IF @ = "none" /\ ~pwStop THEN "scan" ELSE @]

(* A device appears or goes; with pyudev or pywin32 that starts a rescan.  *)
PwPlug(d, r, event) ==
    /\ pwPlugs < MaxPlugs /\ pwPoll # "off" /\ pwPlugs' = pwPlugs + 1
    /\ pwPlugged' = IF d \in pwPlugged THEN pwPlugged \ {d} ELSE pwPlugged \cup {d}
    /\ pwRescan' = IF event THEN StartsRescan(r) ELSE pwRescan
    /\ UNCHANGED <<pwPorts, pwVersion, pwPoll, pwTaken, pwStop>>

(* The Refresh button.                                                     *)
PwRefresh(r) ==
    /\ pwPoll # "off" /\ pwPlugs < MaxPlugs /\ pwRescan[r] = "none"
    /\ pwRescan' = [pwRescan EXCEPT ![r] = "scan"]
    /\ UNCHANGED <<pwPlugged, pwPorts, pwVersion, pwPoll, pwTaken, pwStop, pwPlugs>>

(* snapshot(), in the worker thread.                                       *)
Snapshot(t) ==
    /\ IF t = "poll" THEN pwPoll = "scan" ELSE pwRescan[t] = "scan"
    /\ pwTaken' = [pwTaken EXCEPT ![t] = pwPlugged]
    /\ IF t = "poll" THEN pwPoll' = "taken" /\ UNCHANGED pwRescan
                     ELSE pwRescan' = [pwRescan EXCEPT ![t] = "taken"] /\ UNCHANGED pwPoll
    /\ UNCHANGED <<pwPlugged, pwPorts, pwVersion, pwStop, pwPlugs>>

ApplyNonEmpty(new) ==
    /\ pwPorts' = IF new = {} THEN pwPorts ELSE new
    /\ pwVersion' = IF pwPorts' # pwPorts THEN pwVersion + 1 ELSE pwVersion

(* _apply: a changed set of devices is a new version.                      *)
Apply(new) ==
    /\ pwPorts' = new
    /\ pwVersion' = IF new # pwPorts THEN pwVersion + 1 ELSE pwVersion

(* The end of refresh_now, and of a round of _run.                         *)
PwApply(t) ==
    /\ IF t = "poll" THEN pwPoll = "taken" ELSE pwRescan[t] = "taken"
    /\ Apply(pwTaken[t])
    /\ IF t = "poll" THEN pwPoll' = "sleep" /\ UNCHANGED pwRescan
                     ELSE pwRescan' = [pwRescan EXCEPT ![t] = "none"] /\ UNCHANGED pwPoll
    /\ pwTaken' = [pwTaken EXCEPT ![t] = {}]
    /\ UNCHANGED <<pwPlugged, pwStop, pwPlugs>>

(* _run: the interval is over; an enumeration that raises is tried again   *)
(* after the next interval.                                                *)
PwInterval ==
    /\ pwPoll = "sleep" /\ ~pwStop
    /\ pwPoll' = "scan"
    /\ UNCHANGED <<pwPlugged, pwPorts, pwVersion, pwRescan, pwTaken, pwStop, pwPlugs>>

(* stop(): the poll task is cancelled; rescans under way are left alone.   *)
PwStop ==
    /\ pwPoll # "off" /\ ~pwStop
    /\ pwStop' = TRUE /\ pwPoll' = "off" /\ pwTaken' = [pwTaken EXCEPT !["poll"] = {}]
    /\ UNCHANGED <<pwPlugged, pwPorts, pwVersion, pwRescan, pwPlugs>>

PwTask(t) == Snapshot(t) \/ PwApply(t)

PwNext ==
    \/ PwStart \/ PwInterval \/ PwStop
    \/ \E t \in PwTasks : PwTask(t)
    \/ \E r \in Rescans : PwRefresh(r) \/ \E d \in Devices, event \in BOOLEAN : PwPlug(d, r, event)

(* visible(): the list a form offers.                                      *)
Visible(ports, showAll) == IF showAll THEN ports ELSE ports \ Placeholders

-----------------------------------------------------------------------------
(* "polling above remains the always-correct source of truth": whatever    *)
(* order overlapping snapshots are applied in, the list settles on what is *)
(* plugged in while the watcher runs.                                      *)
PortsSettle == <>[](pwPoll # "off" => Visible(pwPorts, FALSE) = Visible(pwPlugged, FALSE))

(* "version increments on every change, so the UI can poll cheaply": the   *)
(* set of devices shown never changes under the same version.              *)
VersionTells == [][pwPorts' # pwPorts => pwVersion' > pwVersion]_pwVars

(* The port list settles, and its version tells every change on the way.   *)
WatcherSettles == PortsSettle /\ VersionTells

=============================================================================
