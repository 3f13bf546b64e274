----------------------------- MODULE ModbusEdge -----------------------------
(***************************************************************************)
(* Edge mode of class ModbusGateway (app/engine/modbus_gateway.py): a poll *)
(* loop reads the configured points and publishes them, while writes that  *)
(* came over MQTT run as tasks of their own: write, check the reply, read  *)
(* back, publish.  One bus transaction (_transaction, see ModbusGateway) is*)
(* one step here; between two of them any other task may run.              *)
(***************************************************************************)
EXTENDS Naturals, Sequences, FiniteSets

CONSTANTS
    EdOrder,       \* modbus_poll.points, in order
    EdWritable,    \* the writable ones
    EdValues,      \* register values, numbers above 0
    EdTasks,       \* identities of write tasks
    MaxDrift,      \* bound: changes the device makes on its own
    MaxEdFaults    \* bound: transactions that fail

EdPoints == {EdOrder[i] : i \in 1 .. Len(EdOrder)}
NoNumber == 0

VARIABLES
    edReg,         \* the device's registers
    edPolling,     \* "off", "reading", "waiting", "ended"
    edAt,          \* next point the poll loop reads
    edRead,        \* values: what this round read
    edTask,        \* write task -> its record
    edShown,       \* point -> the value last published
    edResult,      \* task -> what was published on .../set/result
    edOpen,        \* the publisher is connected (_mqtt is not None)
    edDrift, edFaults

edVars == <<edReg, edPolling, edAt, edRead, edTask, edShown, edResult, edOpen, edDrift, edFaults>>

NoTask == [pc |-> "none"]

EdInit ==
    /\ edReg = [p \in EdPoints |-> CHOOSE v \in EdValues : TRUE]
    /\ edPolling = "off" /\ edAt = 1 /\ edRead = [p \in {} |-> 0]
    /\ edTask = [t \in EdTasks |-> NoTask] /\ edShown = [p \in EdPoints |-> NoNumber]
    /\ edResult = [t \in EdTasks |-> "none"] /\ edOpen = FALSE /\ edDrift = 0 /\ edFaults = 0

(* start, with MQTT enabled and points configured.                         *)
EdStart ==
    /\ edPolling = "off" /\ edPolling' = "reading" /\ edOpen' = TRUE
    /\ UNCHANGED <<edReg, edAt, edRead, edTask, edShown, edResult, edDrift, edFaults>>

(* The device changes a register by itself.                                *)
EdDrift(p, v) ==
    /\ edDrift < MaxDrift /\ edPolling # "off" /\ edReg[p] # v
    /\ edDrift' = edDrift + 1 /\ edReg' = [edReg EXCEPT ![p] = v]
    /\ UNCHANGED <<edPolling, edAt, edRead, edTask, edShown, edResult, edOpen, edFaults>>

-----------------------------------------------------------------------------
(* A poll point read: its value, or a failure that skips this point.       *)
EdReadPoint(ok) ==
    LET p == EdOrder[edAt] IN
    /\ edPolling = "reading" /\ edAt <= Len(EdOrder)
    /\ ok \/ edFaults < MaxEdFaults
    /\ edFaults' = IF ok THEN edFaults ELSE edFaults + 1
    /\ edRead' = IF ok THEN [q \in DOMAIN edRead \cup {p} |-> IF q = p THEN edReg[p] ELSE edRead[q]]
                       ELSE edRead
    /\ edAt' = edAt + 1
    /\ UNCHANGED <<edReg, edPolling, edTask, edShown, edResult, edOpen, edDrift>>

(* _publish_values: nothing goes out once the publisher is gone.           *)
PublishValues(vals) ==
    edShown' = [p \in EdPoints |-> IF edOpen /\ p \in DOMAIN vals THEN vals[p] ELSE edShown[p]]

(* The end of a round: publish what was read, then wait for the interval.  *)
EdPollDone ==
    /\ edPolling = "reading" /\ edAt > Len(EdOrder)
    /\ PublishValues(edRead) /\ edPolling' = "waiting"
    /\ UNCHANGED <<edReg, edAt, edRead, edTask, edResult, edOpen, edDrift, edFaults>>

EdInterval ==
    /\ edPolling = "waiting"
    /\ edPolling' = "reading" /\ edAt' = 1 /\ edRead' = [p \in {} |-> 0]
    /\ UNCHANGED <<edReg, edTask, edShown, edResult, edOpen, edDrift, edFaults>>

-----------------------------------------------------------------------------
(* parse_write_payload: a payload that is no value of the point is refused.*)
ParseWritePayload(payload) == IF payload \in EdValues THEN {payload} ELSE {}

Tell(t, told, result) == edResult' = IF told THEN [edResult EXCEPT ![t] = result] ELSE edResult

Writing(t, p, value, told) ==
    edTask' = [edTask EXCEPT ![t] = [pc |-> "write", point |-> p, value |-> value, taken |-> FALSE,
                                     told |-> told]]

(* _on_set_message: refuse, or start a write task (_write_soon).  Only     *)
(* writable points are subscribed to.                                      *)
EdSetMessage(t, p, payload) ==
    /\ edOpen /\ p \in EdWritable /\ edTask[t] = NoTask /\ edResult[t] = "none"
    /\ IF ParseWritePayload(payload) = {}
         THEN Tell(t, TRUE, "error") /\ UNCHANGED edTask
         ELSE Writing(t, p, payload, TRUE) /\ UNCHANGED edResult
    /\ UNCHANGED <<edReg, edPolling, edAt, edRead, edShown, edOpen, edDrift, edFaults>>

(* on_device_command of a Sparkplug node, for one metric: a point that is  *)
(* not writable is ignored, and so is a null value.                        *)
EdDeviceCommand(t, p, value) ==
    /\ edOpen /\ edTask[t] = NoTask /\ edResult[t] = "none"
    /\ p \in EdWritable /\ value # NoNumber
    /\ Writing(t, p, value, FALSE)
    /\ UNCHANGED <<edReg, edPolling, edAt, edRead, edShown, edResult, edOpen, edDrift, edFaults>>

(* check_write_response: only the echo of a write that was done passes.    *)
Passes(taken, checked) == checked => taken

(* write_point, first transaction: the slave takes the value and its reply *)
(* checks; it takes it and the reply is lost; or it refuses.  An error ends*)
(* the task and is told at once.                                           *)
EdWrite(t, taken, checked) ==
    LET w == edTask[t] IN
    /\ w.pc = "write" /\ Passes(taken, checked)
    /\ checked \/ edFaults < MaxEdFaults
    /\ edFaults' = IF checked THEN edFaults ELSE edFaults + 1
    /\ edReg' = IF taken THEN [edReg EXCEPT ![w.point] = w.value] ELSE edReg
    /\ edTask' = [edTask EXCEPT ![t].pc = IF checked THEN "readback" ELSE "ended",
                                ![t].taken = taken]
    /\ IF checked THEN UNCHANGED edResult ELSE Tell(t, w.told, "error")
    /\ UNCHANGED <<edPolling, edAt, edRead, edShown, edOpen, edDrift>>

(* write_point, second transaction: the point is read back and published;  *)
(* a failure of this one is suppressed.  Then done(None) tells "ok".       *)
EdReadback(t, ok) ==
    LET w == edTask[t] IN
    /\ w.pc = "readback"
    /\ ok \/ edFaults < MaxEdFaults
    /\ edFaults' = IF ok THEN edFaults ELSE edFaults + 1
    /\ PublishValues([p \in (IF ok THEN {w.point} ELSE {}) |-> edReg[p]])
    /\ edTask' = [edTask EXCEPT ![t].pc = "ended"]
    /\ Tell(t, w.told, "ok")
    /\ UNCHANGED <<edReg, edPolling, edAt, edRead, edOpen, edDrift>>

(* stop: the poll task is cancelled and waited for ...                     *)
EdStopPoll ==
    /\ edOpen /\ edPolling # "ended"
    /\ edPolling' = "ended"
    /\ UNCHANGED <<edReg, edAt, edRead, edTask, edShown, edResult, edOpen, edDrift, edFaults>>

(* ... then the write tasks are cancelled and the publisher is closed.     *)
EdStopWrites ==
    /\ edOpen /\ edPolling = "ended"
    /\ edOpen' = FALSE
    /\ edTask' = [t \in EdTasks |-> IF edTask[t] = NoTask THEN NoTask
                                   ELSE [edTask[t] EXCEPT !.pc = "ended"]]
    /\ UNCHANGED <<edReg, edPolling, edAt, edRead, edShown, edResult, edDrift, edFaults>>

EdPoll  == (\E ok \in BOOLEAN : EdReadPoint(ok)) \/ EdPollDone \/ EdInterval
EdWriteStep(t) ==
    \/ \E taken, checked \in BOOLEAN : EdWrite(t, taken, checked)
    \/ \E ok \in BOOLEAN : EdReadback(t, ok)

EdNext ==
    \/ EdStart \/ EdPoll \/ EdStopPoll \/ EdStopWrites
    \/ \E p \in EdPoints, v \in EdValues : EdDrift(p, v)
    \/ \E t \in EdTasks :
          \/ \E p \in EdPoints, payload \in EdValues \cup {NoNumber} : EdSetMessage(t, p, payload)
                                                                 \/ EdDeviceCommand(t, p, payload)
          \/ EdWriteStep(t)

-----------------------------------------------------------------------------
(* What is published settles on what the device holds: a poll round that   *)
(* read a point before a write and publishes it after the write's readback *)
(* (_poll_loop collects before it publishes) is corrected by a later round.*)
ShownSettles == <>[](edOpen /\ edPolling # "ended" => edShown = edReg)

(* Every accepted plain write is answered on its result topic, unless the mapping*)
(* is stopped first; and "ok" means that the slave took the value, whatever*)
(* was lost on the bus.                                                    *)
WritesAnswered ==
    \A t \in EdTasks :
        edTask[t] # NoTask /\ edTask[t].told
          ~> (edResult[t] = "error" \/ (edResult[t] = "ok" /\ edTask[t].taken) \/ ~edOpen)


=============================================================================
