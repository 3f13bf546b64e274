------------------------- MODULE MappingRunnerProofs -------------------------
(***************************************************************************)
(* Invariants of MappingRunner, for any number of connections, any limit   *)
(* and every combination of the mapping's options.                         *)
(***************************************************************************)
EXTENDS MappingRunner, FiniteSetTheorems, TLAPS

-----------------------------------------------------------------------------
(* Type correctness                                                        *)

LEMMA InitTypeOK == Init => TypeOK
<1> SUFFICES ASSUME Init PROVE TypeOK
  OBVIOUS
<1>1. CallTypeOK BY DEF Init, CallTypeOK
<1>2. SerialTypeOK
  <2>1. losses \in 0 .. MaxLosses BY RunnerAssumption DEF Init
  <2> QED BY <2>1 DEF Init, SerialTypeOK
<1>3. clients = {c \in Conns : conn[c] = "serving"} BY DEF Init
<1>4. ConnTypeOK BY <1>3 DEF Init, ConnTypeOK
<1> QED BY <1>1, <1>2, <1>4 DEF TypeOK

\* Steps of start() and stop(), of the serial task and of a client keep the type.
LEMMA NextTypeOK == TypeOK /\ [Next]_vars => TypeOK'
<1> SUFFICES ASSUME CallTypeOK, SerialTypeOK, ConnTypeOK, [Next]_vars
             PROVE  CallTypeOK' /\ SerialTypeOK' /\ ConnTypeOK'
  BY DEF TypeOK
<1>1. CASE CallStep
  <2> USE <1>1 DEF CallStep, Start, Bind, Started, BindFails, StopCall, StopWaited,
                   SupervisorCancelled, SupervisorWasDone, StopDone
  <2>1. CallTypeOK' BY DEF CallTypeOK, StopBegins
  <2>2. SerialTypeOK'
    <3>1. UNCHANGED <<plugged, losses>> BY DEF device
    <3>2. /\ sup' \in {"none", "opening", "reading", "closing", "backoff", "done"}
          /\ held' \in {"no", "open", "closing"}
          /\ state' \in {"stopped", "running", "reconnecting", "device-missing"}
      BY DEF SerialTypeOK, CloseSerial, serialVars
    <3>3. swriter' \in BOOLEAN /\ orphan' \in BOOLEAN
      BY DEF SerialTypeOK, CloseSerial, serialVars
    <3> QED BY <3>1, <3>2, <3>3 DEF SerialTypeOK
  <2>3. ConnTypeOK'
    <3>1. UNCHANGED <<conn, clients, joined, clock>> BY DEF connVars
    <3>2. closing' \subseteq Conns BY DEF ConnTypeOK, connVars, StopBegins
    <3> QED BY <3>1, <3>2 DEF ConnTypeOK
  <2> QED BY <2>1, <2>2, <2>3
<1>2. CASE SerialStep
  <2> USE <1>2 DEF SerialStep, OpenOk, OpenFails, SerialLost, ReadLoopStops, SerialClosed,
                   BackoffOver, TransportCloses, OrphanEnds, DeviceChanges
  <2>1. CallTypeOK' BY DEF CallTypeOK, callVars
  <2>2. SerialTypeOK'
    <3>1. /\ sup' \in {"none", "opening", "reading", "closing", "backoff", "done"}
          /\ held' \in {"no", "open", "closing"}
          /\ state' \in {"stopped", "running", "reconnecting", "device-missing"}
      BY DEF SerialTypeOK, CloseSerial, LoopOn, serialVars
    <3>2. swriter' \in BOOLEAN /\ orphan' \in BOOLEAN /\ plugged' \in BOOLEAN
      BY DEF SerialTypeOK, CloseSerial, LoopOn, serialVars, device
    <3>3. losses' \in 0 .. MaxLosses
      BY RunnerAssumption DEF SerialTypeOK, CloseSerial, LoopOn, serialVars, device
    <3> QED BY <3>1, <3>2, <3>3 DEF SerialTypeOK
  <2>3. ConnTypeOK' BY DEF ConnTypeOK, connVars
  <2> QED BY <2>1, <2>2, <2>3
<1>3. ASSUME NEW c \in Conns, ClientStep(c) PROVE CallTypeOK' /\ SerialTypeOK' /\ ConnTypeOK'
  <2>1. CallTypeOK'
    BY <1>3 DEF ClientStep, Accept, Refuse, Admit, AdmitKicking, WaitedReady, WaitedInVain,
                SessionCloses, Leave, callVars, CallTypeOK
  <2>2. SerialTypeOK'
    BY <1>3 DEF ClientStep, Accept, Refuse, Admit, AdmitKicking, WaitedReady, WaitedInVain,
                SessionCloses, Leave, serialVars, device, SerialTypeOK
  <2>3. ConnTypeOK'
    <3> USE DEF ConnTypeOK
    <3>1. CASE Accept(c) BY <3>1 DEF Accept
    <3>2. CASE Refuse(c) BY <3>2 DEF Refuse
    <3>3. CASE Admit(c) BY <3>3 DEF Admit, EnterOrWait, Register
    <3>4. CASE AdmitKicking(c) BY <3>4 DEF AdmitKicking, EnterOrWait, Register
    <3>5. CASE WaitedReady(c) BY <3>5 DEF WaitedReady, Register
    <3>6. CASE WaitedInVain(c) BY <3>6 DEF WaitedInVain
    <3>7. CASE SessionCloses(c) BY <3>7 DEF SessionCloses
    <3>8. CASE Leave(c) BY <3>8 DEF Leave
    <3> QED BY <1>3, <3>1, <3>2, <3>3, <3>4, <3>5, <3>6, <3>7, <3>8 DEF ClientStep
  <2> QED BY <2>1, <2>2, <2>3
<1>4. CASE UNCHANGED vars
  BY <1>4 DEF CallTypeOK, SerialTypeOK, ConnTypeOK, vars, callVars, serialVars, device, connVars
<1> QED BY <1>1, <1>2, <1>3, <1>4 DEF Next

\* The type invariant, for every value of the constants.
THEOREM TypeCorrect == Spec => []TypeOK
  BY InitTypeOK, NextTypeOK, PTL DEF Spec

-----------------------------------------------------------------------------
(* The limit on clients                                                    *)

\* Only RFC 2217 clients wait between the capacity check and the registration;
\* with them the limit would not be inductive.
NobodyWaits == ~Rfc2217 => \A c \in Conns : conn[c] # "waiting"

CapacityInv == TypeOK /\ NobodyWaits /\ Capacity

\* A set of connections is finite, and one more connection adds one at most.
LEMMA OneMore ==
  ASSUME NEW S \in SUBSET Conns, NEW c \in Conns
  PROVE  /\ IsFiniteSet(S) /\ Cardinality(S) \in Nat
         /\ Cardinality(S \cup {c}) <= Cardinality(S) + 1
<1>1. IsFiniteSet(S) BY RunnerAssumption, FS_Subset
<1>2. Cardinality(S) \in Nat BY <1>1, FS_CardinalityType
<1>3. Cardinality(S \cup {c}) \in {Cardinality(S), Cardinality(S) + 1}
  <2>1. CASE c \in S
    <3>1. S \cup {c} = S BY <2>1
    <3> QED BY <3>1
  <2>2. CASE c \notin S BY <1>1, <2>2, FS_AddElement
  <2> QED BY <2>1, <2>2
<1> QED BY <1>1, <1>2, <1>3

LEMMA FewerClients ==
  ASSUME NEW S \in SUBSET Conns, NEW T \in SUBSET S
  PROVE  Cardinality(T) <= Cardinality(S) /\ Cardinality(T) \in Nat /\ Cardinality(S) \in Nat
<1>1. IsFiniteSet(S) BY RunnerAssumption, FS_Subset
<1>2. IsFiniteSet(T) BY <1>1, FS_Subset
<1> QED BY <1>1, <1>2, FS_Subset, FS_CardinalityType

LEMMA InitCapacity == Init => CapacityInv
<1> SUFFICES ASSUME Init PROVE CapacityInv
  OBVIOUS
<1>1. TypeOK BY InitTypeOK
<1>2. NobodyWaits BY DEF Init, NobodyWaits
<1>3. clients \ PriorityConns = {} BY DEF Init
<1>4. Cardinality(clients \ PriorityConns) = 0 BY <1>3, FS_EmptySet
<1>5. Capacity BY <1>4, RunnerAssumption DEF Capacity
<1> QED BY <1>1, <1>2, <1>5 DEF CapacityInv

LEMMA NextCapacity == CapacityInv /\ [Next]_vars => CapacityInv'
<1> SUFFICES ASSUME CapacityInv, [Next]_vars PROVE CapacityInv'
  OBVIOUS
<1> USE RunnerAssumption
<1>1. TypeOK /\ TypeOK' BY NextTypeOK DEF CapacityInv
\* Whoever changes neither _clients nor a connection keeps both conjuncts.
<1>2. ASSUME UNCHANGED <<conn, clients>> PROVE CapacityInv'
  BY <1>1, <1>2 DEF CapacityInv, NobodyWaits, Capacity
<1>3. CASE CallStep
  BY <1>2, <1>3 DEF CallStep, Start, Bind, Started, BindFails, StopCall, StopWaited,
         SupervisorCancelled, SupervisorWasDone, StopDone, connVars
<1>4. CASE SerialStep
  BY <1>2, <1>4 DEF SerialStep, OpenOk, OpenFails, SerialLost, ReadLoopStops, SerialClosed,
         BackoffOver, TransportCloses, OrphanEnds, DeviceChanges, connVars
<1>5. ASSUME NEW c \in Conns, ClientStep(c) PROVE CapacityInv'
  <2>1. clients \in SUBSET Conns /\ conn \in [Conns -> {"away", "accepted", "waiting", "serving", "gone"}]
    BY <1>1 DEF TypeOK, ConnTypeOK
  \* A step that only takes a connection out of the way.
  <2>2. ASSUME clients' \subseteq clients, NEW s \in {"accepted", "gone"},
               conn' = [conn EXCEPT ![c] = s]
        PROVE  CapacityInv'
    <3>1. NobodyWaits' BY <2>1, <2>2 DEF CapacityInv, NobodyWaits
    <3>2. clients' \ PriorityConns \in SUBSET (clients \ PriorityConns) BY <2>2
    <3>3. Cardinality(clients' \ PriorityConns) <= Cardinality(clients \ PriorityConns)
          /\ Cardinality(clients' \ PriorityConns) \in Nat
          /\ Cardinality(clients \ PriorityConns) \in Nat
      BY <2>1, <3>2, FewerClients
    <3>4. Capacity' BY <3>3 DEF CapacityInv, Capacity
    <3> QED BY <1>1, <3>1, <3>4 DEF CapacityInv
  \* A registration is harmless when there was room or the client has priority.
  <2>3. ASSUME Register(c), Rfc2217 \/ KickOldUser \/ ~Full \/ c \in PriorityConns
        PROVE  CapacityInv'
    <3>1. NobodyWaits' BY <2>1, <2>3 DEF CapacityInv, NobodyWaits, Register
    <3>2. SUFFICES ASSUME ~Rfc2217, ~KickOldUser
                   PROVE  Cardinality(clients' \ PriorityConns) <= MaxConnections
      BY <1>1, <3>1 DEF CapacityInv, Capacity
    <3>3. clients' = clients \cup {c} BY <2>3 DEF Register
    <3>4. CASE c \in PriorityConns
      <4>1. clients' \ PriorityConns = clients \ PriorityConns BY <3>3, <3>4
      <4> QED BY <3>2, <4>1 DEF CapacityInv, Capacity
    <3>5. CASE ~Full
      <4> DEFINE S == clients \ PriorityConns
      <4>1. Cardinality(S) <= Cardinality(clients) /\ Cardinality(S) \in Nat
            /\ Cardinality(clients) \in Nat
        BY <2>1, FewerClients
      <4>2. Cardinality(S) + 1 <= MaxConnections BY <3>5, <4>1 DEF Full
      <4>3. Cardinality(S \cup {c}) <= Cardinality(S) + 1 BY <2>1, OneMore
      <4>4. (clients' \ PriorityConns) \in SUBSET (S \cup {c}) BY <3>3
      <4>5. Cardinality(clients' \ PriorityConns) <= Cardinality(S \cup {c})
            /\ Cardinality(clients' \ PriorityConns) \in Nat
            /\ Cardinality(S \cup {c}) \in Nat
        <5>1. S \cup {c} \in SUBSET Conns BY <2>1
        <5> QED BY <5>1, <4>4, FewerClients
      <4> QED BY <4>1, <4>2, <4>3, <4>5
    <3> QED BY <2>3, <3>2, <3>4, <3>5
  \* With RFC 2217 there is nothing to show.
  <2>4. CASE Rfc2217
    BY <1>1, <2>4 DEF CapacityInv, NobodyWaits, Capacity
  <2>5. CASE ~Rfc2217
    <3>1. CASE Accept(c) BY <2>2, <3>1 DEF Accept
    <3>2. CASE Refuse(c) BY <2>2, <3>2 DEF Refuse
    <3>3. CASE Admit(c) BY <2>3, <2>5, <3>3 DEF Admit, EnterOrWait
    <3>4. CASE AdmitKicking(c) BY <2>3, <2>5, <3>4 DEF AdmitKicking, EnterOrWait
    <3>5. CASE WaitedReady(c) BY <2>5, <3>5 DEF WaitedReady, CapacityInv, NobodyWaits
    <3>6. CASE WaitedInVain(c) BY <2>2, <3>6 DEF WaitedInVain
    <3>7. CASE SessionCloses(c) BY <1>2, <3>7 DEF SessionCloses
    <3>8. CASE Leave(c) BY <2>2, <3>8 DEF Leave
    <3> QED BY <1>5, <3>1, <3>2, <3>3, <3>4, <3>5, <3>6, <3>7, <3>8 DEF ClientStep
  <2> QED BY <2>4, <2>5
<1>6. CASE UNCHANGED vars
  BY <1>2, <1>6 DEF vars, connVars
<1> QED BY <1>3, <1>4, <1>5, <1>6 DEF Next

\* Clients that are refused when the mapping is full never exceed
\* max_connections, however many connections arrive and in whatever order.
THEOREM CapacityHolds == Spec => []Capacity
<1>1. Spec => []CapacityInv BY InitCapacity, NextCapacity, PTL DEF Spec
<1>2. CapacityInv => Capacity BY DEF CapacityInv
<1> QED BY <1>1, <1>2, PTL

-----------------------------------------------------------------------------
(* The serial side and stop()                                              *)

\* How far the serial task is when stop() has cancelled and awaited it.
StopOrder ==
    /\ startPc = "new" => stopPc = "idle" /\ sup = "none"
    /\ stopPc = "closing" => sup \in {"closing", "done"}
    /\ stopPc = "done" => sup = "done"

SerialInv == TypeOK /\ StopOrder /\ WriterIsLive /\ StoppedIsQuiet

LEMMA InitSerial == Init => SerialInv
  BY InitTypeOK DEF Init, SerialInv, StopOrder, WriterIsLive, StoppedIsQuiet

LEMMA NextSerial == SerialInv /\ [Next]_vars => SerialInv'
<1> SUFFICES ASSUME SerialInv, [Next]_vars PROVE SerialInv'
  OBVIOUS
<1>1. TypeOK /\ TypeOK' BY NextTypeOK DEF SerialInv
<1> USE DEF SerialInv, StopOrder, WriterIsLive, StoppedIsQuiet
<1>2. CASE CallStep
  <2> USE DEF serialVars
  <2>1. CASE Start BY <1>1, <2>1 DEF Start
  <2>2. CASE Bind BY <1>1, <2>2 DEF Bind
  <2>3. CASE Started BY <1>1, <2>3 DEF Started
  <2>4. CASE BindFails BY <1>1, <2>4 DEF BindFails, StopBegins
  <2>5. CASE StopCall BY <1>1, <2>5 DEF StopCall, StopBegins
  <2>6. CASE StopWaited BY <1>1, <2>6 DEF StopWaited
  <2>7. CASE SupervisorCancelled BY <1>1, <2>7 DEF SupervisorCancelled, CloseSerial
  <2>8. CASE SupervisorWasDone BY <1>1, <2>8 DEF SupervisorWasDone
  <2>9. CASE StopDone BY <1>1, <2>9 DEF StopDone
  <2> QED BY <1>2, <2>1, <2>2, <2>3, <2>4, <2>5, <2>6, <2>7, <2>8, <2>9 DEF CallStep
<1>3. CASE SerialStep
  BY <1>1, <1>3 DEF SerialStep, OpenOk, OpenFails, SerialLost, ReadLoopStops, SerialClosed,
         BackoffOver, TransportCloses, OrphanEnds, DeviceChanges, LoopOn, CloseSerial,
         callVars, serialVars
<1>4. ASSUME NEW c \in Conns, ClientStep(c) PROVE SerialInv'
  BY <1>1, <1>4 DEF ClientStep, Accept, Refuse, Admit, AdmitKicking, WaitedReady,
         WaitedInVain, SessionCloses, Leave, callVars, serialVars
<1>5. CASE UNCHANGED vars
  BY <1>1, <1>5 DEF vars, callVars, serialVars
<1> QED BY <1>2, <1>3, <1>4, <1>5 DEF Next

\* Whenever clients can write to the device, the supervisor task owns an open
\* handle, the status says so and no stop() has finished.
THEOREM WriterIsLiveHolds == Spec => []WriterIsLive
<1>1. Spec => []SerialInv BY InitSerial, NextSerial, PTL DEF Spec
<1>2. SerialInv => WriterIsLive BY DEF SerialInv
<1> QED BY <1>1, <1>2, PTL

\* After stop() no task is left that could open the device or change the status.
THEOREM StoppedIsQuietHolds == Spec => []StoppedIsQuiet
<1>1. Spec => []SerialInv BY InitSerial, NextSerial, PTL DEF Spec
<1>2. SerialInv => StoppedIsQuiet BY DEF SerialInv
<1> QED BY <1>1, <1>2, PTL

=============================================================================
