------------------------------ MODULE MCTasks -------------------------------
(***************************************************************************)
(* The background tasks that have to keep going, checked together with the *)
(* fairness of their scheduling. They share no state here, so a behaviour  *)
(* runs one of them, chosen at the start, and leaves the others where they *)
(* begin: the state space is the sum of theirs.                            *)
(***************************************************************************)
EXTENDS ModbusEdge, Links, PortWatch, Console, LogFiles, Lifecycle

VARIABLE task

vars == <<task, edVars, lkVars, pwVars, coVars, lgVars, lfVars>>

EdgePoints == <<"p", "q">>
Addresses  == <<"x", "y">>

Init ==
    /\ task \in {"edge", "link", "ports", "console", "logs", "lifecycle"}
    /\ EdInit /\ LkInit /\ PwInit /\ CoInit /\ LgInit /\ LfInit

Edge(A)    == task = "edge" /\ A /\ UNCHANGED <<task, lkVars, pwVars, coVars, lgVars, lfVars>>
Link(A)    == task = "link" /\ A /\ UNCHANGED <<task, edVars, pwVars, coVars, lgVars, lfVars>>
Ports(A)   == task = "ports" /\ A /\ UNCHANGED <<task, edVars, lkVars, coVars, lgVars, lfVars>>
Screen(A)  == task = "console" /\ A /\ UNCHANGED <<task, edVars, lkVars, pwVars, lgVars, lfVars>>
Logs(A)    == task = "logs" /\ A /\ UNCHANGED <<task, edVars, lkVars, pwVars, coVars, lfVars>>
Program(A) == task = "lifecycle" /\ A /\ UNCHANGED <<task, edVars, lkVars, pwVars, coVars, lgVars>>

Next == Edge(EdNext) \/ Link(LkNext) \/ Ports(PwNext) \/ Screen(CoNext) \/ Logs(LgNext) \/ Program(LfNext)

(* Every task is a coroutine or a thread that is resumed when it can go on.*)
Fairness ==
    /\ WF_vars(Edge(EdPoll)) /\ \A t \in EdTasks : WF_vars(Edge(EdWriteStep(t)))
    /\ WF_vars(Link(LkSupervise))
    /\ WF_vars(Ports(PwInterval)) /\ \A t \in PwTasks : WF_vars(Ports(PwTask(t)))
    /\ WF_vars(Screen(CoSend)) /\ WF_vars(Screen(CoRecheck)) /\ WF_vars(Screen(CoEnd))
    /\ WF_vars(Logs(LgMaintain))
    /\ WF_vars(Program(LfMain)) /\ WF_vars(Program(LfScm))

Spec == Init /\ [][Next]_vars /\ Fairness

=============================================================================
