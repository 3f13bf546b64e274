------------------------ MODULE ModbusGatewayProofs ------------------------
(***************************************************************************)
(* The bus discipline of ModbusGateway for any set of masters and slaves,  *)
(* any number of requests, late replies and losses of the device.          *)
(***************************************************************************)
EXTENDS ModbusGateway, SequenceTheorems, TLAPS

OnBus == {"port", "clearing", "sent", "reading"}

\* Senders in the queue for the lock wait for it, and are there once.
QueueOK ==
    /\ \A i \in 1 .. Len(waiters) : pc[waiters[i]] = "queued"
    /\ \A i, j \in 1 .. Len(waiters) : waiters[i] = waiters[j] => i = j

\* The senders that queue or transact are those with a request.
HasRequest == \A a \in Senders : pc[a] \in OnBus \cup {"queued"} <=> cur[a] # None

BusInv == TypeOK /\ OneTransaction /\ QueueOK /\ HasRequest

-----------------------------------------------------------------------------
(* The parts of TypeOK                                                     *)

DeviceTypeOK ==
    /\ stopped \in BOOLEAN /\ serial \in {"opening", "open", "backoff", "ended"}
    /\ alive \in BOOLEAN /\ plugged \in BOOLEAN /\ losses \in 0 .. MaxLosses

WireTypeOK == slaves \subseteq Requests /\ bus \in Seq(Frames)

LockTypeOK ==
    /\ lock \in Senders \cup {None} /\ waiters \in Seq(Senders)
    /\ pc \in [Senders -> {"idle", "queued", "port", "clearing", "sent", "reading", "ended"}]

ClientTypeOK ==
    /\ conn \in [Masters -> {"new", "serving", "closing", "gone"}]
    /\ sent \in [Senders -> 0 .. MaxReqs]
    /\ inbox \in [Senders -> Seq(Requests)]

TxnTypeOK ==
    /\ cur \in [Senders -> Requests \cup {None}]
    /\ taken \in [Senders -> Seq(Frames)]
    /\ got \in [Senders -> Seq([req : Requests, frame : Requests \cup {None}])]

LEMMA TypeParts ==
  TypeOK <=> DeviceTypeOK /\ WireTypeOK /\ LockTypeOK /\ ClientTypeOK /\ TxnTypeOK
BY DEF TypeOK, DeviceTypeOK, WireTypeOK, LockTypeOK, ClientTypeOK, TxnTypeOK

LEMMA PrimedTypeParts ==
  TypeOK' <=> DeviceTypeOK' /\ WireTypeOK' /\ LockTypeOK' /\ ClientTypeOK' /\ TxnTypeOK'
BY DEF TypeOK, DeviceTypeOK, WireTypeOK, LockTypeOK, ClientTypeOK, TxnTypeOK

-----------------------------------------------------------------------------
(* Sequences                                                               *)

\* What is left of a queue was in it, in the same order and not twice.
LEMMA WithoutProperties ==
  ASSUME NEW S, NEW q \in Seq(S), NEW x,
         \A i, j \in 1 .. Len(q) : q[i] = q[j] => i = j
  PROVE  /\ Without(q, x) \in Seq(S)
         /\ \A i \in 1 .. Len(Without(q, x)) :
               /\ Without(q, x)[i] # x
               /\ \E k \in 1 .. Len(q) : Without(q, x)[i] = q[k]
         /\ \A i, j \in 1 .. Len(Without(q, x)) : Without(q, x)[i] = Without(q, x)[j] => i = j
<1>1. CASE ~ \E i \in 1 .. Len(q) : q[i] = x
  BY <1>1 DEF Without
<1>2. CASE \E i \in 1 .. Len(q) : q[i] = x
  <2> DEFINE n == CHOOSE k \in 1 .. Len(q) : q[k] = x
             u == SubSeq(q, 1, n - 1)
             v == SubSeq(q, n + 1, Len(q))
             w == u \o v
  <2>1. n \in 1 .. Len(q) /\ q[n] = x BY <1>2
  <2>2. Without(q, x) = w BY <1>2 DEF Without
  <2> HIDE DEF n
  <2>3. Len(q) \in Nat /\ n \in Nat BY <2>1, LenProperties
  <2>4. u \in Seq(S) /\ Len(u) = n - 1 /\ \A k \in 1 .. n - 1 : u[k] = q[k]
    BY <2>1, <2>3, SubSeqProperties
  <2>5. v \in Seq(S) /\ Len(v) = Len(q) - n /\ \A k \in 1 .. Len(q) - n : v[k] = q[n + k]
    BY <2>1, <2>3, SubSeqProperties
  <2> HIDE DEF u, v
  <2>6. w \in Seq(S) /\ Len(w) = Len(q) - 1 BY <2>3, <2>4, <2>5, ConcatProperties
  <2>7. \A k \in 1 .. Len(q) - 1 : w[k] = IF k < n THEN q[k] ELSE q[k + 1]
    <3> TAKE k \in 1 .. Len(q) - 1
    <3>1. w[k] = IF k <= Len(u) THEN u[k] ELSE v[k - Len(u)]
      BY <2>3, <2>4, <2>5, ConcatProperties
    <3> HIDE DEF w
    <3>2. CASE k < n BY <2>3, <2>4, <3>1, <3>2
    <3>3. CASE ~(k < n)
      <4>1. k - Len(u) \in 1 .. Len(q) - n /\ n + (k - Len(u)) = k + 1 BY <2>3, <2>4, <3>3
      <4>2. v[k - Len(u)] = q[n + (k - Len(u))] BY <2>5, <4>1
      <4> QED BY <2>3, <2>4, <3>1, <3>3, <4>1, <4>2
    <3> QED BY <3>2, <3>3
  <2> HIDE DEF w
  <2>8. \A k \in 1 .. Len(w) : w[k] # x /\ \E m \in 1 .. Len(q) : w[k] = q[m]
    BY <2>1, <2>3, <2>6, <2>7
  <2>9. \A i, j \in 1 .. Len(w) : w[i] = w[j] => i = j
    BY <2>1, <2>3, <2>6, <2>7
  <2> QED BY <2>2, <2>6, <2>8, <2>9
<1> QED BY <1>1, <1>2

LEMMA LastOrEarlier ==
  \A n \in Nat : \A k \in 1 .. n + 1 : k \in 1 .. n \/ k = n + 1
OBVIOUS

-----------------------------------------------------------------------------
(* The lock, its queue and the progress of the senders                     *)

LockInv == LockTypeOK /\ OneTransaction /\ QueueOK /\ HasRequest

\* Nothing changes.
LEMMA LockQuiet ==
  ASSUME LockInv, UNCHANGED <<lock, waiters, pc, cur>> PROVE LockInv'
BY DEF LockInv, LockTypeOK, OneTransaction, QueueOK, HasRequest

\* The holder of the lock goes from one stage of its transaction to another.
LEMMA LockMoves ==
  ASSUME LockInv, NEW a \in Senders, NEW p \in OnBus, pc[a] \in OnBus,
         pc' = [pc EXCEPT ![a] = p], UNCHANGED <<lock, waiters, cur>>
  PROVE  LockInv'
<1> USE DEF OnBus, LockTypeOK
<1>1. LockTypeOK' BY DEF LockInv
<1>2. OneTransaction' BY DEF LockInv, OneTransaction
<1>3. QueueOK'
  <2>1. \A i \in 1 .. Len(waiters) : waiters[i] \in Senders /\ pc[waiters[i]] = "queued"
    BY DEF LockInv, QueueOK
  <2>2. \A i \in 1 .. Len(waiters) : pc'[waiters[i]] = "queued" BY <2>1 DEF LockInv
  <2> QED BY <2>2 DEF LockInv, QueueOK
<1>4. HasRequest' BY DEF LockInv, HasRequest
<1> QED BY <1>1, <1>2, <1>3, <1>4 DEF LockInv

\* A request is taken up.
LEMMA LockTake ==
  ASSUME LockInv, NEW a \in Senders, Take(a), Head(inbox[a]) # None,
         cur \in [Senders -> Requests \cup {None}]
  PROVE  LockInv'
<1> USE DEF OnBus, LockTypeOK
<1>0. /\ pc[a] = "idle" /\ cur' = [cur EXCEPT ![a] = Head(inbox[a])]
      /\ lock # a
      /\ \A i \in 1 .. Len(waiters) : waiters[i] \in Senders /\ waiters[i] # a
  BY DEF Take, LockInv, OneTransaction, QueueOK
<1>1. CASE lock = None /\ waiters = <<>>
  <2>1. PICK p \in {"clearing", "port"} :
          lock' = a /\ pc' = [pc EXCEPT ![a] = p] /\ waiters' = waiters
    BY <1>1 DEF Take
  <2>2. LockTypeOK' BY <2>1 DEF LockInv
  <2>3. OneTransaction'
    <3>1. \A b \in Senders : pc[b] \notin OnBus
      BY <1>1, GatewayAssumption DEF LockInv, OneTransaction
    <3> QED BY <2>1, <3>1 DEF LockInv, OneTransaction
  <2>4. QueueOK' BY <1>1, <2>1 DEF QueueOK
  <2>5. HasRequest' BY <1>0, <2>1 DEF LockInv, HasRequest
  <2> QED BY <2>2, <2>3, <2>4, <2>5 DEF LockInv
<1>2. CASE ~(lock = None /\ waiters = <<>>)
  <2>1. lock' = lock /\ pc' = [pc EXCEPT ![a] = "queued"] /\ waiters' = Append(waiters, a)
    BY <1>2 DEF Take
  <2>2. /\ waiters' \in Seq(Senders) /\ Len(waiters') = Len(waiters) + 1
        /\ \A i \in 1 .. Len(waiters) : waiters'[i] = waiters[i]
        /\ waiters'[Len(waiters) + 1] = a
        /\ Len(waiters) \in Nat
    BY <2>1, AppendProperties, LenProperties DEF LockInv
  <2>3. LockTypeOK' BY <2>1, <2>2 DEF LockInv
  <2>4. OneTransaction' BY <1>0, <2>1 DEF LockInv, OneTransaction
  <2>5. \A i \in 1 .. Len(waiters') : pc'[waiters'[i]] = "queued"
    <3>1. \A i \in 1 .. Len(waiters) : pc'[waiters[i]] = "queued"
      BY <1>0, <2>1 DEF LockInv, QueueOK
    <3>2. pc'[a] = "queued" BY <2>1 DEF LockInv
    <3> QED BY <2>2, <3>1, <3>2
  <2>6. \A i, j \in 1 .. Len(waiters') : waiters'[i] = waiters'[j] => i = j
    BY <1>0, <2>2 DEF LockInv, QueueOK
  <2>7. HasRequest' BY <1>0, <2>1 DEF LockInv, HasRequest
  <2> QED BY <2>3, <2>4, <2>5, <2>6, <2>7 DEF LockInv, QueueOK
<1> QED BY <1>1, <1>2

\* The first in the queue gets the lock.
LEMMA LockAcquire ==
  ASSUME LockInv, NEW a \in Senders, Acquire(a) PROVE LockInv'
<1> USE DEF OnBus, LockTypeOK
<1>1. PICK p \in {"clearing", "port"} :
        lock = None /\ lock' = a /\ pc' = [pc EXCEPT ![a] = p] /\ cur' = cur
  BY DEF Acquire
<1>2. /\ waiters # <<>> /\ waiters[1] = a /\ waiters' = Tail(waiters)
      /\ waiters \in Seq(Senders)
  BY HeadTailProperties DEF Acquire, LockInv
<1>3. /\ waiters' \in Seq(Senders) /\ Len(waiters) \in Nat /\ Len(waiters) >= 1
      /\ Len(waiters') = Len(waiters) - 1
      /\ \A i \in 1 .. Len(waiters') : waiters'[i] = waiters[i + 1]
  BY <1>2, HeadTailProperties, LenProperties, EmptySeq
<1>4. pc[a] = "queued" /\ \A i \in 2 .. Len(waiters) : waiters[i] # a
  BY <1>2, <1>3 DEF LockInv, QueueOK
<1>5. LockTypeOK' BY <1>1, <1>3 DEF LockInv
<1>6. OneTransaction'
  <2>1. \A b \in Senders : pc[b] \notin OnBus
    BY <1>1, GatewayAssumption DEF LockInv, OneTransaction
  <2> QED BY <1>1, <2>1 DEF LockInv, OneTransaction
<1>7. \A i \in 1 .. Len(waiters') : pc'[waiters'[i]] = "queued"
  BY <1>1, <1>3, <1>4 DEF LockInv, QueueOK
<1>8. \A i, j \in 1 .. Len(waiters') : waiters'[i] = waiters'[j] => i = j
  BY <1>3 DEF LockInv, QueueOK
<1>9. HasRequest' BY <1>1, <1>4 DEF LockInv, HasRequest
<1> QED BY <1>5, <1>6, <1>7, <1>8, <1>9 DEF LockInv, QueueOK

\* A transaction ends and gives the lock back.
LEMMA LockFinish ==
  ASSUME LockInv, NEW a \in Senders, NEW f, pc[a] \in OnBus, Finish(a, f),
         cur \in [Senders -> Requests \cup {None}]
  PROVE  LockInv'
<1> USE DEF OnBus, LockTypeOK
<1>1. /\ lock' = None /\ pc' = [pc EXCEPT ![a] = "idle"]
      /\ cur' = [cur EXCEPT ![a] = None] /\ waiters' = waiters
  BY DEF Finish
<1>2. lock = a BY DEF LockInv, OneTransaction
<1>3. LockTypeOK' BY <1>1 DEF LockInv
<1>4. OneTransaction'
  <2>1. \A b \in Senders : b # a => pc[b] \notin OnBus BY <1>2 DEF LockInv, OneTransaction
  <2> QED BY <1>1, <2>1, GatewayAssumption DEF LockInv, OneTransaction
<1>5. \A i \in 1 .. Len(waiters) : pc'[waiters[i]] = "queued"
  <2>1. \A i \in 1 .. Len(waiters) : waiters[i] \in Senders /\ waiters[i] # a
    BY DEF LockInv, QueueOK
  <2> QED BY <1>1, <2>1 DEF LockInv, QueueOK
<1>6. QueueOK' BY <1>1, <1>5 DEF LockInv, QueueOK
<1>7. HasRequest' BY <1>1 DEF LockInv, HasRequest
<1> QED BY <1>3, <1>4, <1>6, <1>7 DEF LockInv

\* stop() cancels the poll loop wherever it is.
LEMMA LockStop ==
  ASSUME LockInv, Stop, cur \in [Senders -> Requests \cup {None}] PROVE LockInv'
<1> USE DEF OnBus, LockTypeOK
<1>0. Poller \in Senders BY DEF Senders
<1>1. /\ lock' = (IF lock = Poller THEN None ELSE lock)
      /\ waiters' = Without(waiters, Poller)
      /\ pc' = [pc EXCEPT ![Poller] = "ended"] /\ cur' = [cur EXCEPT ![Poller] = None]
  BY DEF Stop
<1>2. /\ waiters' \in Seq(Senders)
      /\ \A i \in 1 .. Len(waiters') :
            waiters'[i] # Poller /\ \E k \in 1 .. Len(waiters) : waiters'[i] = waiters[k]
      /\ \A i, j \in 1 .. Len(waiters') : waiters'[i] = waiters'[j] => i = j
  <2>1. waiters \in Seq(Senders) BY DEF LockInv
  <2>2. \A i, j \in 1 .. Len(waiters) : waiters[i] = waiters[j] => i = j
    BY DEF LockInv, QueueOK
  <2> DEFINE w == Without(waiters, Poller)
  <2>3. /\ w \in Seq(Senders)
        /\ \A i \in 1 .. Len(w) : w[i] # Poller /\ \E k \in 1 .. Len(waiters) : w[i] = waiters[k]
        /\ \A i, j \in 1 .. Len(w) : w[i] = w[j] => i = j
    BY ONLY <2>1, <2>2, WithoutProperties
  <2>4. waiters' = w BY <1>1
  <2> HIDE DEF w
  <2> QED BY ONLY <2>3, <2>4
<1>3. LockTypeOK' BY <1>1, <1>2 DEF LockInv
<1>4. OneTransaction' BY <1>0, <1>1, GatewayAssumption DEF LockInv, OneTransaction
<1>5. \A i \in 1 .. Len(waiters') : pc'[waiters'[i]] = "queued"
  <2> TAKE i \in 1 .. Len(waiters')
  <2>1. PICK k \in 1 .. Len(waiters) : waiters'[i] = waiters[k] BY <1>2
  <2>2. waiters[k] \in Senders /\ pc[waiters[k]] = "queued" /\ waiters[k] # Poller
    BY <1>2, <2>1 DEF LockInv, QueueOK
  <2> QED BY <1>1, <2>1, <2>2 DEF LockInv
<1>6. HasRequest' BY <1>0, <1>1 DEF LockInv, HasRequest
<1> QED BY <1>2, <1>3, <1>5, <1>4, <1>6 DEF LockInv, QueueOK

-----------------------------------------------------------------------------
(* Types                                                                   *)

\* The steps that leave the transactions alone.
Aside ==
    \/ OpenOk \/ OpenFails \/ BackoffOver \/ Unplug \/ Replug \/ SerialEnds
    \/ \E r \in slaves : SlaveAnswers(r) \/ SlaveKeepsSilent(r)
    \/ \E m \in Masters : Connect(m) \/ MasterGoes(m) \/ Leave(m)
    \/ \E a \in Senders, u \in Units : Send(a, u)

\* A transaction ends without an answer or with the reply it accepts.
Ends(a) == PortTimeout(a) \/ NoAnswer(a) \/ ReplyComplete(a)

LEMMA Kinds ==
  ASSUME [Next]_vars
  PROVE  \/ Aside \/ Stop \/ UNCHANGED vars
         \/ \E a \in Senders : \/ Take(a) \/ Acquire(a) \/ PortReady(a) \/ RequestOut(a)
                               \/ ReadBytes(a) \/ Ends(a)
BY DEF Next, Serve, Transact, Aside, Ends

LEMMA AsideLeavesTxn == ASSUME Aside PROVE UNCHANGED txn
BY DEF Aside, OpenOk, OpenFails, BackoffOver, Unplug, Replug, SerialEnds, SlaveAnswers,
   SlaveKeepsSilent, Connect, MasterGoes, Leave, Send, txn

\* The frame a transaction ends with.
LEMMA EndsFinish ==
  ASSUME TypeOK, NEW a \in Senders, Ends(a)
  PROVE  \E f \in Requests \cup {None} :
            /\ Finish(a, f) /\ pc[a] \in OnBus /\ bus' = bus
            /\ f # None => f.unit = cur[a].unit
<1>1. CASE PortTimeout(a) BY <1>1 DEF PortTimeout, OnBus
<1>2. CASE NoAnswer(a) BY <1>2 DEF NoAnswer, OnBus
<1>3. CASE ReplyComplete(a)
  <2>1. CASE Accepts(a)
    <3>1. taken[a] \in Seq(Frames) /\ Len(taken[a]) = 1 /\ taken[a][1].req.unit = cur[a].unit
      BY <2>1 DEF Accepts, TypeOK
    <3>2. taken[a][1] \in Frames BY <3>1
    <3>3. taken[a][1].req \in Requests BY <3>2 DEF Frames
    <3> QED BY <1>3, <2>1, <3>1, <3>3 DEF ReplyComplete, OnBus
  <2>2. CASE ~Accepts(a) BY <1>3, <2>2 DEF ReplyComplete, OnBus
  <2> QED BY <2>1, <2>2
<1> QED BY <1>1, <1>2, <1>3 DEF Ends

LEMMA LossesBound ==
  ASSUME NEW n, NEW m, n \in 0 .. MaxLosses, m = n \/ (n < MaxLosses /\ m = n + 1)
  PROVE  m \in 0 .. MaxLosses
BY GatewayAssumption

LEMMA StepDeviceTypeOK ==
  ASSUME DeviceTypeOK, [Next]_vars PROVE DeviceTypeOK'
<1> USE DEF DeviceTypeOK
<1>1. CASE Aside
  <2> USE <1>1 DEF Aside, OpenOk, OpenFails, BackoffOver, Unplug, Replug, SerialEnds,
        SlaveAnswers, SlaveKeepsSilent, Connect, MasterGoes, Leave, Send, device
  <2>1. serial' \in {"opening", "open", "backoff", "ended"} OBVIOUS
  <2>2. stopped' = stopped OBVIOUS
  <2>3. stopped' \in BOOLEAN BY ONLY <2>2, DeviceTypeOK DEF DeviceTypeOK
  <2>4. alive' \in BOOLEAN OBVIOUS
  <2>5. plugged' \in BOOLEAN OBVIOUS
  <2>6. losses' = losses \/ (losses < MaxLosses /\ losses' = losses + 1) OBVIOUS
  <2>7. losses' \in 0 .. MaxLosses BY ONLY <2>6, DeviceTypeOK, LossesBound DEF DeviceTypeOK
  <2> QED BY ONLY <2>1, <2>3, <2>4, <2>5, <2>7 DEF DeviceTypeOK
<1>2. ASSUME (stopped' = TRUE \/ stopped' = stopped) /\ UNCHANGED device PROVE DeviceTypeOK'
  <2>1. serial' = serial /\ losses' = losses BY <1>2 DEF device
  <2>2. stopped' \in BOOLEAN BY <1>2, Zenon
  <2>3. alive' \in BOOLEAN /\ plugged' \in BOOLEAN BY <1>2, Zenon DEF device
  <2> QED BY <2>1, <2>2, <2>3
<1>3. CASE Stop \/ UNCHANGED vars BY <1>2, <1>3 DEF Stop, vars
<1>4. ASSUME NEW a \in Senders,
             \/ Take(a) \/ Acquire(a) \/ PortReady(a) \/ RequestOut(a) \/ ReadBytes(a) \/ Ends(a)
      PROVE  DeviceTypeOK'
  <2>1. stopped' = stopped /\ UNCHANGED device
    BY <1>4 DEF Take, Acquire, PortReady, RequestOut, ReadBytes, Ends, PortTimeout, NoAnswer,
       ReplyComplete, Finish
  <2> QED BY <1>2, <2>1
<1> QED BY <1>1, <1>3, <1>4, Kinds

LEMMA WireShrinks ==
  ASSUME WireTypeOK, slaves' = slaves \/ slaves' = {}, bus' = bus \/ bus' = <<>>
  PROVE  WireTypeOK'
<1>1. slaves' \subseteq Requests BY DEF WireTypeOK
<1>2. bus' \in Seq(Frames)
  <2>1. CASE bus' = bus BY <2>1 DEF WireTypeOK
  <2>2. CASE bus' = <<>> BY <2>2
  <2> QED BY <2>1, <2>2
<1> QED BY <1>1, <1>2 DEF WireTypeOK

LEMMA StepWireTypeOK ==
  ASSUME BusInv, [Next]_vars PROVE WireTypeOK'
<1>0. WireTypeOK BY TypeParts DEF BusInv
<1> USE DEF WireTypeOK
<1>1. CASE Aside
  <2>1. CASE \E r \in slaves : SlaveAnswers(r) \/ SlaveKeepsSilent(r)
    <3>1. PICK r \in slaves : SlaveAnswers(r) \/ SlaveKeepsSilent(r) BY <2>1
    <3>2. CASE SlaveAnswers(r)
      <4>1. PICK intact \in BOOLEAN : bus' = Append(bus, [req |-> r, intact |-> intact])
        BY <3>2 DEF SlaveAnswers
      <4>2. [req |-> r, intact |-> intact] \in Frames BY <1>0, <4>1 DEF Frames
      <4>3. bus' \in Seq(Frames) BY <1>0, <4>1, <4>2, AppendProperties
      <4>4. slaves' \subseteq Requests BY <1>0, <3>2 DEF SlaveAnswers
      <4> QED BY <4>3, <4>4
    <3>3. CASE SlaveKeepsSilent(r) BY <1>0, <3>3 DEF SlaveKeepsSilent
    <3> QED BY <3>1, <3>2, <3>3
  <2>2. CASE ~ \E r \in slaves : SlaveAnswers(r) \/ SlaveKeepsSilent(r)
    <3>1. (slaves' = slaves \/ slaves' = {}) /\ (bus' = bus \/ bus' = <<>>)
      BY <1>1, <2>2 DEF Aside, OpenOk, OpenFails, BackoffOver, Unplug, Replug, SerialEnds,
         Connect, MasterGoes, Leave, Send, wire
    <3> QED BY ONLY <1>0, <3>1, WireShrinks
  <2> QED BY <2>1, <2>2
<1>2. CASE Stop \/ UNCHANGED vars BY <1>0, <1>2 DEF Stop, vars, wire
<1>3. ASSUME NEW a \in Senders, RequestOut(a) PROVE WireTypeOK'
  <2>1. cur[a] \in Requests
    BY <1>3 DEF RequestOut, BusInv, HasRequest, TypeOK, OnBus
  <2>2. slaves' \subseteq Requests BY <1>0, <1>3, <2>1 DEF RequestOut
  <2>3. bus' = <<>> BY <1>3 DEF RequestOut
  <2> QED BY <2>2, <2>3
<1>4. ASSUME NEW a \in Senders,
             Take(a) \/ Acquire(a) \/ PortReady(a) \/ ReadBytes(a) \/ Ends(a)
      PROVE  WireTypeOK'
  <2>1. slaves' = slaves /\ (bus' = bus \/ bus' = <<>>)
    BY <1>4 DEF Take, Acquire, PortReady, ReadBytes, Ends, PortTimeout, NoAnswer,
       ReplyComplete, Finish, wire
  <2> QED BY ONLY <1>0, <2>1, WireShrinks
<1> QED BY <1>1, <1>2, <1>3, <1>4, Kinds

LEMMA StepClientTypeOK ==
  ASSUME ClientTypeOK, [Next]_vars PROVE ClientTypeOK'
<1> USE DEF ClientTypeOK
<1>1. ASSUME NEW m \in Masters, Connect(m) \/ MasterGoes(m) \/ Leave(m) PROVE ClientTypeOK'
  <2>1. PICK c \in {"serving", "closing", "gone"} : conn' = [conn EXCEPT ![m] = c]
    BY <1>1 DEF Connect, MasterGoes, Leave
  <2>2. sent' = sent /\ inbox' = inbox BY <1>1 DEF Connect, MasterGoes, Leave
  <2> QED BY <2>1, <2>2
<1>2. ASSUME NEW a \in Senders, NEW u \in Units, Send(a, u) PROVE ClientTypeOK'
  <2> DEFINE r == [who |-> a, n |-> sent[a] + 1, unit |-> u]
  <2>1. sent[a] \in Nat /\ sent[a] + 1 \in 1 .. MaxReqs BY <1>2, GatewayAssumption DEF Send
  <2>2. r \in Requests BY <2>1 DEF Requests
  <2>3. conn' = conn /\ sent' = [sent EXCEPT ![a] = @ + 1]
        /\ inbox' = [inbox EXCEPT ![a] = Append(@, r)]
    BY <1>2 DEF Send
  <2> HIDE DEF r
  <2>4. sent' \in [Senders -> 0 .. MaxReqs] BY <2>1, <2>3
  <2>5. Append(inbox[a], r) \in Seq(Requests) BY <2>2, AppendProperties
  <2>6. inbox' \in [Senders -> Seq(Requests)] BY <2>3, <2>5
  <2> QED BY <2>3, <2>4, <2>6
<1>3. ASSUME NEW a \in Senders, Take(a) PROVE ClientTypeOK'
  <2>1. Tail(inbox[a]) \in Seq(Requests) BY <1>3, HeadTailProperties DEF Take
  <2> QED BY <1>3, <2>1 DEF Take
<1>4. CASE Stop
  <2>1. conn' \in [Masters -> {"new", "serving", "closing", "gone"}] BY <1>4 DEF Stop
  <2> QED BY <1>4, <2>1 DEF Stop
<1>5. CASE UNCHANGED clients BY <1>5 DEF clients
<1>6. CASE Aside
  <2>1. CASE UNCHANGED clients BY <1>5, <2>1
  <2>2. CASE \E m \in Masters : Connect(m) \/ MasterGoes(m) \/ Leave(m) BY <1>1, <2>2
  <2>3. CASE \E a \in Senders, u \in Units : Send(a, u) BY <1>2, <2>3
  <2> QED BY <1>6, <2>1, <2>2, <2>3
     DEF Aside, OpenOk, OpenFails, BackoffOver, Unplug, Replug, SerialEnds, SlaveAnswers,
         SlaveKeepsSilent
<1>7. ASSUME NEW a \in Senders,
             Acquire(a) \/ PortReady(a) \/ RequestOut(a) \/ ReadBytes(a) \/ Ends(a)
      PROVE  UNCHANGED clients
  BY <1>7 DEF Acquire, PortReady, RequestOut, ReadBytes, Ends, PortTimeout, NoAnswer,
     ReplyComplete, Finish
<1>8. UNCHANGED vars => UNCHANGED clients BY DEF vars
<1> QED BY <1>3, <1>4, <1>5, <1>6, <1>7, <1>8, Kinds

Answers == [req : Requests, frame : Requests \cup {None}]

LEMMA StepTxnTypeOK ==
  ASSUME BusInv, [Next]_vars PROVE TxnTypeOK'
<1>0. TxnTypeOK /\ WireTypeOK /\ ClientTypeOK BY TypeParts DEF BusInv
<1> USE DEF TxnTypeOK
<1>1. CASE UNCHANGED <<cur, taken, got>> BY <1>0, <1>1
<1>2. ASSUME NEW a \in Senders, Take(a) PROVE TxnTypeOK'
  <2>1. Head(inbox[a]) \in Requests BY <1>0, <1>2, HeadTailProperties DEF Take, ClientTypeOK
  <2> QED BY <1>0, <1>2, <2>1 DEF Take
<1>3. ASSUME NEW a \in Senders, ReadBytes(a) PROVE TxnTypeOK'
  <2>1. taken[a] \o bus \in Seq(Frames) BY <1>0, ConcatProperties DEF WireTypeOK
  <2>2. taken' \in [Senders -> Seq(Frames)] BY <1>0, <1>3, <2>1 DEF ReadBytes
  <2> QED BY <1>0, <1>3, <2>2 DEF ReadBytes
<1>4. ASSUME NEW a \in Senders, Ends(a) PROVE TxnTypeOK'
  <2>1. PICK f \in Requests \cup {None} : Finish(a, f) /\ pc[a] \in OnBus
    BY <1>4, EndsFinish DEF BusInv
  <2>2. cur[a] \in Requests BY <1>0, <2>1 DEF BusInv, HasRequest, OnBus
  <2> DEFINE e == [req |-> cur[a], frame |-> f]
  <2>3. e \in Answers BY <2>1, <2>2 DEF Answers
  <2>4. got' = [got EXCEPT ![a] = IF Listening(a) THEN Append(@, e) ELSE @]
    BY <2>1 DEF Finish
  <2>5. got \in [Senders -> Seq(Answers)] BY <1>0 DEF Answers
  <2> HIDE DEF e
  <2>6. got[a] \in Seq(Answers) /\ Append(got[a], e) \in Seq(Answers) BY <2>3, <2>5, AppendProperties
  <2>7. got' \in [Senders -> Seq(Answers)] BY <2>4, <2>5, <2>6
  <2>8. cur' \in [Senders -> Requests \cup {None}] BY <1>0, <2>1 DEF Finish
  <2>9. taken' \in [Senders -> Seq(Frames)]
    <3>1. taken' = [taken EXCEPT ![a] = <<>>] /\ <<>> \in Seq(Frames) BY <2>1 DEF Finish
    <3> QED BY <1>0, <3>1
  <2> QED BY <2>7, <2>8, <2>9 DEF Answers
<1>5. CASE Stop
  <2>1. cur' = [cur EXCEPT ![Poller] = None] /\ got' = got BY <1>5 DEF Stop
  <2>2. taken' = [taken EXCEPT ![Poller] = <<>>] /\ <<>> \in Seq(Frames) BY <1>5 DEF Stop
  <2>3. taken' \in [Senders -> Seq(Frames)] BY <1>0, <2>2
  <2> QED BY <1>0, <2>1, <2>3
<1>6. Aside => UNCHANGED <<cur, taken, got>> BY AsideLeavesTxn DEF txn
<1>7. ASSUME NEW a \in Senders, Acquire(a) \/ PortReady(a) \/ RequestOut(a)
      PROVE  UNCHANGED <<cur, taken, got>>
  BY <1>7 DEF Acquire, PortReady, RequestOut
<1>8. UNCHANGED vars => UNCHANGED <<cur, taken, got>> BY DEF vars, txn
<1> QED BY <1>1, <1>2, <1>3, <1>4, <1>5, <1>6, <1>7, <1>8, Kinds

-----------------------------------------------------------------------------
(* The bus                                                                 *)

LEMMA InitBusInv == Init => BusInv
<1> SUFFICES ASSUME Init PROVE BusInv OBVIOUS
<1> USE DEF Init
<1>1. DeviceTypeOK
  <2>1. losses = 0 /\ serial = "opening" OBVIOUS
  <2>2. 0 \in 0 .. MaxLosses BY ONLY GatewayAssumption
  <2>3. stopped \in BOOLEAN /\ alive \in BOOLEAN /\ plugged \in BOOLEAN OBVIOUS
  <2> QED BY ONLY <2>1, <2>2, <2>3 DEF DeviceTypeOK
<1>2. WireTypeOK
  <2>1. slaves \subseteq Requests /\ bus = <<>> OBVIOUS
  <2> QED BY ONLY <2>1 DEF WireTypeOK
<1>3. LockTypeOK
  <2>1. waiters \in Seq(Senders) OBVIOUS
  <2> QED BY <2>1 DEF LockTypeOK
<1>4. ClientTypeOK
  <2>1. sent \in [Senders -> 0 .. MaxReqs] BY GatewayAssumption
  <2>2. inbox \in [Senders -> Seq(Requests)] OBVIOUS
  <2> QED BY <2>1, <2>2 DEF ClientTypeOK
<1>5. TxnTypeOK BY DEF TxnTypeOK
<1>6. OneTransaction BY GatewayAssumption DEF OneTransaction
<1>7. QueueOK BY DEF QueueOK
<1>8. HasRequest BY DEF HasRequest, OnBus
<1> QED BY <1>1, <1>2, <1>3, <1>4, <1>5, <1>6, <1>7, <1>8, TypeParts DEF BusInv

LEMMA StepLockInv ==
  ASSUME BusInv, [Next]_vars PROVE LockInv'
<1>0. /\ LockInv /\ ClientTypeOK
      /\ cur \in [Senders -> Requests \cup {None}]
  BY TypeParts DEF BusInv, LockInv, TxnTypeOK
<1>1. CASE Aside BY <1>0, <1>1, AsideLeavesTxn, LockQuiet DEF txn
<1>2. CASE Stop BY <1>0, <1>2, LockStop
<1>3. CASE UNCHANGED vars BY <1>0, <1>3, LockQuiet DEF vars, txn
<1>4. ASSUME NEW a \in Senders, Take(a) PROVE LockInv'
  <2>1. Head(inbox[a]) \in Requests BY <1>0, <1>4, HeadTailProperties DEF Take, ClientTypeOK
  <2>2. Head(inbox[a]) # None BY <2>1, GatewayAssumption
  <2> QED BY <1>0, <1>4, <2>2, LockTake
<1>5. ASSUME NEW a \in Senders, Acquire(a) PROVE LockInv' BY <1>0, <1>5, LockAcquire
<1>6. ASSUME NEW a \in Senders, PortReady(a) \/ RequestOut(a) \/ ReadBytes(a) PROVE LockInv'
  <2>1. PICK p \in OnBus : pc[a] \in OnBus /\ pc' = [pc EXCEPT ![a] = p]
    BY <1>6 DEF PortReady, RequestOut, ReadBytes, OnBus
  <2>2. UNCHANGED <<lock, waiters, cur>> BY <1>6 DEF PortReady, RequestOut, ReadBytes
  <2> QED BY <1>0, <2>1, <2>2, LockMoves
<1>7. ASSUME NEW a \in Senders, Ends(a) PROVE LockInv'
  <2>1. PICK f \in Requests \cup {None} : Finish(a, f) /\ pc[a] \in OnBus
    BY <1>7, EndsFinish DEF BusInv
  <2> QED BY <1>0, <2>1, LockFinish
<1> QED BY <1>1, <1>2, <1>3, <1>4, <1>5, <1>6, <1>7, Kinds

LEMMA StepBusInv == BusInv /\ [Next]_vars => BusInv'
<1> SUFFICES ASSUME BusInv, [Next]_vars PROVE BusInv' OBVIOUS
<1>1. DeviceTypeOK /\ ClientTypeOK BY TypeParts DEF BusInv
<1>2. DeviceTypeOK' BY <1>1, StepDeviceTypeOK
<1>3. WireTypeOK' BY StepWireTypeOK
<1>4. ClientTypeOK' BY <1>1, StepClientTypeOK
<1>5. TxnTypeOK' BY StepTxnTypeOK
<1>6. LockInv' BY StepLockInv
<1> QED BY <1>2, <1>3, <1>4, <1>5, <1>6, PrimedTypeParts DEF BusInv, LockInv

\* The gateway's state keeps its types: what the slaves, the reader's buffer and
\* the answers hold are requests that somebody made (_on_client, _transaction,
\* _poll_loop and stop() of modbus_gateway.py).
THEOREM TypeCorrect == Spec => []TypeOK
BY InitBusInv, StepBusInv, PTL DEF Spec, BusInv

\* However masters, the poll loop, cancellation and losses of the device
\* interleave, a sender is in a transaction exactly while it holds _bus_lock.
THEOREM OneTransactionHolds == Spec => []OneTransaction
BY InitBusInv, StepBusInv, PTL DEF Spec, BusInv

-----------------------------------------------------------------------------
(* The answers                                                             *)

\* Requests of a that left its input buffer.
TakenUp(a) == sent[a] - Len(inbox[a])

\* The answers of a are still wanted, or it has not connected yet.
Wanted(a) == IF a = Poller THEN ~stopped ELSE conn[a] \in {"new", "serving"}

\* The requests of a are buffered, taken up and answered under consecutive
\* numbers; each answer is the reply of the addressed slave or an exception.
InStep(a) ==
    /\ \A k \in 1 .. Len(inbox[a]) : inbox[a][k].who = a /\ inbox[a][k].n = TakenUp(a) + k
    /\ cur[a] # None => cur[a].who = a /\ cur[a].n = TakenUp(a)
    /\ Wanted(a) => Len(got[a]) = TakenUp(a) - (IF cur[a] = None THEN 0 ELSE 1)
    /\ a # Poller /\ conn[a] = "new" => cur[a] = None
    /\ \A k \in 1 .. Len(got[a]) :
          /\ got[a][k].req.who = a /\ got[a][k].req.n = k
          /\ got[a][k].frame # None => got[a][k].frame.unit = got[a][k].req.unit

AnswerInv == BusInv /\ \A a \in Senders : InStep(a)

\* A step that does not concern b, or only makes its answers unwanted.
LEMMA InStepQuiet ==
  ASSUME NEW b \in Senders, InStep(b),
         sent'[b] = sent[b], inbox'[b] = inbox[b], cur'[b] = cur[b] \/ (cur'[b] = None /\ ~Wanted(b)'),
         got'[b] = got[b], Wanted(b)' => Wanted(b),
         b # Poller /\ conn'[b] = "new" => conn[b] = "new"
  PROVE  InStep(b)'
<1>1. TakenUp(b)' = TakenUp(b) BY DEF TakenUp
<1>2. CASE cur'[b] = cur[b] BY <1>1, <1>2, SMTT(20) DEF InStep
<1>3. CASE cur'[b] = None /\ ~Wanted(b)' BY <1>1, <1>3, SMTT(20) DEF InStep
<1> QED BY <1>2, <1>3

LEMMA InStepSend ==
  ASSUME TypeOK, NEW a \in Senders, NEW u \in Units, Send(a, u), InStep(a) PROVE InStep(a)'
<1> DEFINE r == [who |-> a, n |-> sent[a] + 1, unit |-> u]
<1>1. sent[a] \in Nat /\ inbox[a] \in Seq(Requests) /\ Len(inbox[a]) \in Nat
  BY LenProperties, GatewayAssumption DEF TypeOK
<1>2. /\ sent'[a] = sent[a] + 1 /\ inbox'[a] = Append(inbox[a], r)
      /\ cur' = cur /\ got' = got /\ conn' = conn /\ stopped' = stopped
  BY DEF Send, TypeOK, txn
<1>3. r.who = a /\ r.n = sent[a] + 1 OBVIOUS
<1>r. r \in Requests
  <2>1. sent[a] + 1 \in 1 .. MaxReqs BY <1>1, GatewayAssumption DEF Send
  <2> QED BY <2>1 DEF Requests
<1> HIDE DEF r
<1>4. /\ Len(inbox'[a]) = Len(inbox[a]) + 1
      /\ \A k \in 1 .. Len(inbox[a]) : inbox'[a][k] = inbox[a][k]
      /\ inbox'[a][Len(inbox[a]) + 1] = r
  BY ONLY <1>1, <1>2, <1>r, AppendProperties
<1>5. TakenUp(a)' = TakenUp(a) /\ TakenUp(a) \in Int
  <2>1. TakenUp(a)' = (sent[a] + 1) - (Len(inbox[a]) + 1) BY <1>2, <1>4 DEF TakenUp
  <2> QED BY ONLY <1>1, <2>1 DEF TakenUp
<1>6. r.n = TakenUp(a) + (Len(inbox[a]) + 1) BY <1>1, <1>3 DEF TakenUp
<1>7. \A k \in 1 .. Len(inbox'[a]) : inbox'[a][k].who = a /\ inbox'[a][k].n = TakenUp(a)' + k
  <2> TAKE k \in 1 .. Len(inbox'[a])
  <2>1. CASE k \in 1 .. Len(inbox[a]) BY <1>4, <1>5, <2>1 DEF InStep
  <2>2. CASE k = Len(inbox[a]) + 1 BY <1>3, <1>4, <1>5, <1>6, <2>2
  <2>3. Len(inbox[a]) \in Nat /\ k \in 1 .. Len(inbox[a]) + 1 BY <1>1, <1>4
  <2>4. k \in 1 .. Len(inbox[a]) \/ k = Len(inbox[a]) + 1 BY ONLY <2>3, LastOrEarlier
  <2> QED BY ONLY <2>1, <2>2, <2>4
<1>8. Wanted(a)' = Wanted(a) BY <1>2 DEF Wanted
<1> QED BY <1>2, <1>5, <1>7, <1>8 DEF InStep

LEMMA InStepTake ==
  ASSUME BusInv, NEW a \in Senders, Take(a), InStep(a) PROVE InStep(a)'
<1>1. /\ sent[a] \in Nat /\ inbox[a] \in Seq(Requests) /\ inbox[a] # <<>>
      /\ Len(inbox[a]) \in Nat
  <2>1. /\ sent[a] \in 0 .. MaxReqs /\ inbox[a] \in Seq(Requests) /\ inbox[a] # <<>>
    BY DEF BusInv, TypeOK, Take
  <2> QED BY ONLY <2>1, GatewayAssumption, LenProperties
<1>2. /\ sent' = sent /\ inbox'[a] = Tail(inbox[a]) /\ cur'[a] = Head(inbox[a])
      /\ got' = got /\ conn' = conn /\ stopped' = stopped
  BY DEF Take, BusInv, TypeOK
<1>3. /\ Len(inbox[a]) >= 1 /\ Len(inbox'[a]) = Len(inbox[a]) - 1
      /\ \A k \in 1 .. Len(inbox'[a]) : inbox'[a][k] = inbox[a][k + 1]
      /\ cur'[a] = inbox[a][1]
  BY <1>1, <1>2, HeadTailProperties, EmptySeq
<1>4. cur[a] = None BY DEF Take, BusInv, HasRequest, OnBus
<1>5. cur'[a] # None
  <2>0. 1 \in 1 .. Len(inbox[a]) BY <1>1, <1>3
  <2>1. inbox[a][1] \in Requests BY ONLY <1>1, <2>0, ElementOfSeq
  <2> QED BY <1>3, <2>1, GatewayAssumption
<1>6. TakenUp(a)' = TakenUp(a) + 1 /\ TakenUp(a) \in Int BY <1>1, <1>2, <1>3 DEF TakenUp
<1>7. \A k \in 1 .. Len(inbox'[a]) : inbox'[a][k].who = a /\ inbox'[a][k].n = TakenUp(a)' + k
  <2> TAKE k \in 1 .. Len(inbox'[a])
  <2>1. k + 1 \in 1 .. Len(inbox[a]) BY <1>1, <1>3
  <2>2. inbox[a][k + 1].who = a /\ inbox[a][k + 1].n = TakenUp(a) + (k + 1) BY <2>1 DEF InStep
  <2>3. inbox'[a][k] = inbox[a][k + 1] BY <1>3
  <2>4. TakenUp(a) + (k + 1) = TakenUp(a)' + k BY ONLY <1>6
  <2> QED BY ONLY <2>2, <2>3, <2>4
<1>8. cur'[a].who = a /\ cur'[a].n = TakenUp(a)'
  <2>1. 1 \in 1 .. Len(inbox[a]) BY <1>1, <1>3
  <2>2. inbox[a][1].who = a /\ inbox[a][1].n = TakenUp(a) + 1 BY <2>1 DEF InStep
  <2> QED BY <1>3, <1>6, <2>2
<1>9. Wanted(a)' => Len(got'[a]) = TakenUp(a)' - 1
  BY <1>2, <1>4, <1>6 DEF Wanted, InStep
<1>10. a # Poller => conn'[a] # "new" BY <1>2 DEF Take, Listening
<1> QED BY <1>2, <1>5, <1>7, <1>8, <1>9, <1>10 DEF InStep

LEMMA InStepEnds ==
  ASSUME BusInv, NEW a \in Senders, Ends(a), InStep(a) PROVE InStep(a)'
<1>0. PICK f \in Requests \cup {None} :
        Finish(a, f) /\ pc[a] \in OnBus /\ (f # None => f.unit = cur[a].unit)
  BY EndsFinish DEF BusInv
<1> DEFINE e == [req |-> cur[a], frame |-> f]
<1>1. /\ sent' = sent /\ inbox' = inbox /\ conn' = conn /\ stopped' = stopped
      /\ cur'[a] = None
      /\ got'[a] = IF Listening(a) THEN Append(got[a], e) ELSE got[a]
  BY <1>0 DEF Finish, clients, BusInv, TypeOK
<1>2. cur[a] # None /\ cur[a] \in Requests BY <1>0 DEF BusInv, HasRequest, TypeOK
<1>3. TakenUp(a)' = TakenUp(a) /\ Wanted(a)' = Wanted(a) BY <1>1 DEF TakenUp, Wanted
<1>4. Wanted(a) => Listening(a)
  <2>1. a # Poller => conn[a] # "new" BY <1>2 DEF InStep
  <2> QED BY ONLY <2>1 DEF Wanted, Listening
<1>5. Listening(a) => Wanted(a) BY DEF Wanted, Listening
<1>6. e.req = cur[a] /\ e.frame = f OBVIOUS
<1>7. /\ sent[a] \in Nat /\ Len(inbox[a]) \in Nat
      /\ got[a] \in Seq(Answers) /\ Len(got[a]) \in Nat
  <2>1. /\ sent[a] \in 0 .. MaxReqs /\ inbox[a] \in Seq(Requests)
        /\ got[a] \in Seq(Answers)
    BY DEF BusInv, TypeOK, Answers
  <2> QED BY ONLY <2>1, GatewayAssumption, LenProperties
<1>8. e \in Answers BY <1>0, <1>2 DEF Answers
<1> HIDE DEF e
<1>9. CASE Listening(a)
  <2>1. Len(got[a]) = TakenUp(a) - 1 BY <1>2, <1>5, <1>9 DEF InStep
  <2>2. /\ Len(got'[a]) = Len(got[a]) + 1 /\ got'[a][Len(got[a]) + 1] = e
        /\ \A k \in 1 .. Len(got[a]) : got'[a][k] = got[a][k]
    BY <1>1, <1>7, <1>8, <1>9, AppendProperties
  <2>3. TakenUp(a) \in Int BY <1>7 DEF TakenUp
  <2>4. Len(got'[a]) = TakenUp(a) BY <1>7, <2>1, <2>2, <2>3
  <2>5. e.req.who = a /\ e.req.n = Len(got[a]) + 1 BY <1>2, <1>6, <1>7, <2>1, <2>3 DEF InStep
  <2>6. \A k \in 1 .. Len(got'[a]) :
          /\ got'[a][k].req.who = a /\ got'[a][k].req.n = k
          /\ got'[a][k].frame # None => got'[a][k].frame.unit = got'[a][k].req.unit
    <3> TAKE k \in 1 .. Len(got'[a])
    <3>1. CASE k \in 1 .. Len(got[a]) BY <2>2, <3>1 DEF InStep
    <3>2. CASE k = Len(got[a]) + 1 BY <1>0, <1>6, <2>2, <2>5, <3>2
    <3>3. k \in 1 .. Len(got[a]) \/ k = Len(got[a]) + 1
      <4>1. Len(got[a]) \in Nat /\ k \in 1 .. Len(got[a]) + 1 BY <1>7, <2>2
      <4> QED BY ONLY <4>1, LastOrEarlier
    <3> QED BY ONLY <3>1, <3>2, <3>3
  <2>7. Len(got'[a]) = TakenUp(a) - 0 BY <2>3, <2>4
  <2> QED BY <1>1, <1>3, <2>6, <2>7 DEF InStep
<1>10. CASE ~Listening(a)
  <2>1. ~Wanted(a)' /\ got'[a] = got[a] BY <1>1, <1>3, <1>4, <1>10
  <2> QED BY <1>1, <1>3, <2>1 DEF InStep
<1> QED BY <1>9, <1>10

LEMMA StepAnswerInv == AnswerInv /\ [Next]_vars => AnswerInv'
<1> SUFFICES ASSUME AnswerInv, [Next]_vars, NEW b \in Senders PROVE InStep(b)'
  BY StepBusInv DEF AnswerInv
<1>0. BusInv /\ TypeOK /\ InStep(b) BY DEF AnswerInv, BusInv
<1> USE DEF BusInv, TypeOK
<1>1. ASSUME UNCHANGED <<stopped, conn, sent, inbox, cur, got>> PROVE InStep(b)'
  BY <1>0, <1>1, InStepQuiet DEF Wanted
<1>2. ASSUME NEW m \in Masters, Connect(m) \/ MasterGoes(m) \/ Leave(m) PROVE InStep(b)'
  <2>1. UNCHANGED <<stopped, sent, inbox, cur, got>>
    BY <1>2 DEF Connect, MasterGoes, Leave, txn
  <2>2. Wanted(b)' => Wanted(b)
    BY <1>0, <1>2, GatewayAssumption DEF Connect, MasterGoes, Leave, Wanted, Senders
  <2>3. b # Poller /\ conn'[b] = "new" => conn[b] = "new"
    BY <1>0, <1>2 DEF Connect, MasterGoes, Leave, Senders
  <2> QED BY <1>0, <2>1, <2>2, <2>3, InStepQuiet
<1>3. ASSUME NEW a \in Senders, NEW u \in Units, Send(a, u) PROVE InStep(b)'
  <2>1. CASE a = b BY <1>0, <1>3, <2>1, InStepSend
  <2>2. CASE a # b
    <3>1. /\ sent'[b] = sent[b] /\ inbox'[b] = inbox[b]
          /\ UNCHANGED <<stopped, conn, cur, got>>
      BY <1>0, <1>3, <2>2 DEF Send, txn
    <3> QED BY <1>0, <3>1, InStepQuiet DEF Wanted
  <2> QED BY <2>1, <2>2
<1>4. ASSUME NEW a \in Senders, Take(a) PROVE InStep(b)'
  <2>1. CASE a = b BY <1>0, <1>4, <2>1, InStepTake
  <2>2. CASE a # b
    <3>1. /\ inbox'[b] = inbox[b] /\ cur'[b] = cur[b]
          /\ UNCHANGED <<stopped, conn, sent, got>>
      BY <1>0, <1>4, <2>2 DEF Take
    <3> QED BY <1>0, <3>1, InStepQuiet DEF Wanted
  <2> QED BY <2>1, <2>2
<1>5. ASSUME NEW a \in Senders, Ends(a) PROVE InStep(b)'
  <2>1. CASE a = b BY <1>0, <1>5, <2>1, InStepEnds
  <2>2. CASE a # b
    <3>1. /\ cur'[b] = cur[b] /\ got'[b] = got[b]
          /\ UNCHANGED <<stopped, conn, sent, inbox>>
      BY <1>0, <1>5, <2>2 DEF Ends, PortTimeout, NoAnswer, ReplyComplete, Finish, clients
    <3> QED BY <1>0, <3>1, InStepQuiet DEF Wanted
  <2> QED BY <2>1, <2>2
<1>6. CASE Stop
  <2>1. UNCHANGED <<sent, inbox, got>> BY <1>6 DEF Stop
  <2>2. CASE b = Poller
    <3>1. ~Wanted(b)' /\ cur'[b] = None BY <1>0, <1>6, <2>2 DEF Stop, Wanted
    <3> QED BY <1>0, <2>1, <2>2, <3>1, InStepQuiet
  <2>3. CASE b # Poller
    <3>1. /\ cur'[b] = cur[b]
          /\ conn'[b] = IF conn[b] = "serving" THEN "closing" ELSE conn[b]
      BY <1>0, <1>6, <2>3 DEF Stop, Senders
    <3>2. Wanted(b)' => Wanted(b) BY <2>3, <3>1 DEF Wanted
    <3>3. conn'[b] = "new" => conn[b] = "new" BY <3>1
    <3> QED BY <1>0, <2>1, <3>1, <3>2, <3>3, InStepQuiet
  <2> QED BY <2>2, <2>3
<1>7. ASSUME NEW a \in Senders, Acquire(a) \/ PortReady(a) \/ RequestOut(a) \/ ReadBytes(a)
      PROVE  UNCHANGED <<stopped, conn, sent, inbox, cur, got>>
  BY <1>7 DEF Acquire, PortReady, RequestOut, ReadBytes, clients
<1>8. UNCHANGED vars => UNCHANGED <<stopped, conn, sent, inbox, cur, got>>
  BY DEF vars, txn, clients
<1>9. CASE Aside
  <2>1. CASE UNCHANGED <<stopped, conn, sent, inbox, cur, got>> BY <1>1, <2>1
  <2>2. CASE \E m \in Masters : Connect(m) \/ MasterGoes(m) \/ Leave(m) BY <1>2, <2>2
  <2>3. CASE \E a \in Senders, u \in Units : Send(a, u) BY <1>3, <2>3
  <2> QED BY <1>9, <2>1, <2>2, <2>3
     DEF Aside, OpenOk, OpenFails, BackoffOver, Unplug, Replug, SerialEnds, SlaveAnswers,
         SlaveKeepsSilent, txn, clients
<1> QED BY <1>1, <1>4, <1>5, <1>6, <1>7, <1>8, <1>9, Kinds

LEMMA InitAnswerInv == Init => AnswerInv
<1> SUFFICES ASSUME Init, NEW a \in Senders PROVE InStep(a)
  BY InitBusInv DEF AnswerInv
<1>1. sent[a] = 0 /\ inbox[a] = <<>> /\ cur[a] = None /\ got[a] = <<>> BY DEF Init
<1>2. Len(got[a]) = 0 /\ Len(inbox[a]) = 0 BY <1>1
<1>3. TakenUp(a) = 0 - 0 BY <1>1, <1>2 DEF TakenUp
<1>4. Len(got[a]) = TakenUp(a) - 0 BY <1>2, <1>3
<1>5. 1 .. Len(inbox[a]) = {} /\ 1 .. Len(got[a]) = {} BY ONLY <1>2
<1> QED BY ONLY <1>1, <1>4, <1>5 DEF InStep

\* Each sender's answers come in the order of its requests, one for each, also
\* when it pipelines them between other masters' transactions (_on_client's
\* read loop awaits _transaction for one frame at a time).
THEOREM AnswersInOrderHolds == Spec => []AnswersInOrder
<1>1. AnswerInv => AnswersInOrder
  <2> SUFFICES ASSUME AnswerInv PROVE AnswersInOrder OBVIOUS
  <2>1. \A a \in Senders : InStep(a) BY ONLY AnswerInv DEF AnswerInv
  <2> QED BY ONLY <2>1 DEF InStep, AnswersInOrder
<1> QED BY <1>1, InitAnswerInv, StepAnswerInv, PTL DEF Spec

\* Whatever is late or stale on the bus, data that reaches a master comes from
\* the slave it asked (the comparison of unit ids after _read_rtu_response).
THEOREM FromTheUnitHolds == Spec => []FromTheUnit
<1>1. AnswerInv => FromTheUnit
  <2> SUFFICES ASSUME AnswerInv PROVE FromTheUnit OBVIOUS
  <2>1. \A a \in Senders : InStep(a) BY ONLY AnswerInv DEF AnswerInv
  <2> QED BY ONLY <2>1 DEF InStep, FromTheUnit
<1> QED BY <1>1, InitAnswerInv, StepAnswerInv, PTL DEF Spec

=============================================================================
