-------------------------- MODULE ClientConnProofs --------------------------
(***************************************************************************)
(* Invariants of ClientConn, for every queue length, every number of       *)
(* chunks and every combination of the session's options.                  *)
(***************************************************************************)
EXTENDS ClientConn, SequenceTheorems, TLAPS

-----------------------------------------------------------------------------
(* Streams of items                                                        *)

Ordered(s) == \A i, j \in 1 .. Len(s) : i < j /\ s[i] > 0 /\ s[j] > 0 => s[i] < s[j]
Below(s, f) == \A i \in 1 .. Len(s) : s[i] <= f
Covers(s, f) == \A n \in 1 .. f : \E i \in 1 .. Len(s) : s[i] = n

LEMMA ItemsAreInts == Items \subseteq Int /\ Ctrl \in Items /\ Sentinel \in Items
  BY ClientAssumption DEF Items, Ctrl, Sentinel

LEMMA Bounds == QueueMax \in Nat \ {0} /\ MaxChunks \in Nat /\ MaxNoise \in Nat
  BY ClientAssumption

\* Appending to the queue appends to the stream.
LEMMA StreamAppend ==
  ASSUME NEW w \in Seq(Items), NEW q \in Seq(Items), NEW e \in Items
  PROVE  w \o Append(q, e) = Append(w \o q, e)
<1>1. /\ Append(q, e) \in Seq(Items) /\ Len(Append(q, e)) = Len(q) + 1
      /\ \A i \in 1 .. Len(q) : Append(q, e)[i] = q[i]
      /\ Append(q, e)[Len(q) + 1] = e
  BY AppendProperties
<1>2. /\ w \o q \in Seq(Items) /\ Len(w \o q) = Len(w) + Len(q)
      /\ \A i \in 1 .. Len(w) + Len(q) :
            (w \o q)[i] = IF i <= Len(w) THEN w[i] ELSE q[i - Len(w)]
  BY ConcatProperties
<1> QED BY <1>1, <1>2, AppendIsConcat, ConcatAssociative, AppendProperties

LEMMA StreamAssoc ==
  \A a, b, c \in Seq(Items) : (a \o b) \o c = a \o (b \o c)
  BY ConcatAssociative

\* Moving k items from the queue to the wire leaves the stream as it is.
LEMMA StreamMove ==
  ASSUME NEW w \in Seq(Items), NEW q \in Seq(Items), NEW k \in 1 .. Len(q)
  PROVE  /\ SubSeq(q, 1, k) \in Seq(Items) /\ Len(SubSeq(q, 1, k)) = k
         /\ SubSeq(q, k + 1, Len(q)) \in Seq(Items)
         /\ Len(SubSeq(q, k + 1, Len(q))) = Len(q) - k
         /\ (w \o SubSeq(q, 1, k)) \o SubSeq(q, k + 1, Len(q)) = w \o q
<1>0. Len(q) \in Nat /\ \A i \in 1 .. Len(q) : q[i] \in Items
  BY LenProperties, ElementOfSeq
<1>1. SubSeq(q, 1, k) \in Seq(Items) /\ Len(SubSeq(q, 1, k)) = k
  <2>1. \A i \in 1 .. k : q[i] \in Items BY <1>0
  <2> QED BY <1>0, <2>1, SubSeqProperties
<1>2. SubSeq(q, k + 1, Len(q)) \in Seq(Items) /\ Len(SubSeq(q, k + 1, Len(q))) = Len(q) - k
  <2>1. \A i \in k + 1 .. Len(q) : q[i] \in Items BY <1>0
  <2> QED BY <1>0, <2>1, SubSeqProperties
<1>3. SubSeq(q, 1, k) \o SubSeq(q, k + 1, Len(q)) = SubSeq(q, 1, Len(q))
  <2>1. 1 \in 1 .. Len(q) + 1 /\ k \in (1 - 1) .. Len(q) /\ Len(q) \in k .. Len(q) BY <1>0
  <2> QED BY <2>1, ConcatAdjacentSubSeq
<1>4. SubSeq(q, 1, Len(q)) = q BY SubSeqFull
<1>5. (w \o SubSeq(q, 1, k)) \o SubSeq(q, k + 1, Len(q))
        = w \o (SubSeq(q, 1, k) \o SubSeq(q, k + 1, Len(q)))
  <2> DEFINE a == SubSeq(q, 1, k)
             b == SubSeq(q, k + 1, Len(q))
  <2>1. a \in Seq(Items) /\ b \in Seq(Items) BY <1>1, <1>2
  <2> HIDE DEF a, b
  <2>2. (w \o a) \o b = w \o (a \o b) BY <2>1, StreamAssoc
  <2> QED BY <2>2 DEF a, b
<1> QED BY <1>1, <1>2, <1>3, <1>4, <1>5

\* A control item, the sentinel or the next chunk keeps a stream well formed.
LEMMA AppendItem ==
  ASSUME NEW s \in Seq(Items), NEW f \in Nat, NEW e \in Items, NEW g \in Nat,
         \/ e <= 0 /\ g = f
         \/ e = f + 1 /\ g = f + 1,
         Ordered(s), Below(s, f)
  PROVE  /\ Append(s, e) \in Seq(Items)
         /\ Ordered(Append(s, e)) /\ Below(Append(s, e), g)
         /\ Covers(s, f) => Covers(Append(s, e), g)
<1> DEFINE t == Append(s, e)
<1>1. /\ t \in Seq(Items) /\ Len(t) = Len(s) + 1 /\ Len(s) \in Nat
      /\ \A i \in 1 .. Len(s) : t[i] = s[i]
      /\ t[Len(s) + 1] = e
  BY AppendProperties, LenProperties
<1>2. \A i \in 1 .. Len(s) : s[i] \in Int
  BY ElementOfSeq, ItemsAreInts
<1>3. e \in Int BY ItemsAreInts
<1> HIDE DEF t
<1>4. Ordered(t) BY <1>1, <1>2, <1>3 DEF Ordered, Below
<1>5. Below(t, g) BY <1>1, <1>2, <1>3 DEF Below
<1>6. ASSUME Covers(s, f) PROVE Covers(t, g)
  <2> SUFFICES ASSUME NEW n \in 1 .. g PROVE \E i \in 1 .. Len(t) : t[i] = n
    BY DEF Covers
  <2>1. CASE n \in 1 .. f
    <3>1. PICK i \in 1 .. Len(s) : s[i] = n BY <1>6, <2>1 DEF Covers
    <3>2. i \in 1 .. Len(t) /\ t[i] = n BY <1>1, <3>1
    <3> QED BY <3>2
  <2>2. CASE n \notin 1 .. f
    <3>1. e = n /\ Len(s) + 1 \in 1 .. Len(t) BY <1>1, <1>3, <2>2
    <3> QED BY <1>1, <3>1
  <2> QED BY <2>1, <2>2
<1> QED BY <1>1, <1>4, <1>5, <1>6 DEF t

\* Taking the first item off the queue: nothing is lost unless it was a chunk.
LEMMA DropItem ==
  ASSUME NEW w \in Seq(Items), NEW q \in Seq(Items), q # <<>>, NEW f \in Nat,
         Ordered(w \o q), Below(w \o q, f)
  PROVE  /\ Tail(q) \in Seq(Items) /\ Len(Tail(q)) = Len(q) - 1 /\ Len(q) >= 1
         /\ Ordered(w \o Tail(q)) /\ Below(w \o Tail(q), f)
         /\ Head(q) <= 0 /\ Covers(w \o q, f) => Covers(w \o Tail(q), f)
<1> DEFINE s == w \o q
           t == w \o Tail(q)
<1>1. /\ Tail(q) \in Seq(Items) /\ Len(Tail(q)) = Len(q) - 1
      /\ \A i \in 1 .. Len(Tail(q)) : Tail(q)[i] = q[i + 1]
      /\ Len(q) \in Nat /\ Len(q) >= 1 /\ Len(w) \in Nat
  BY HeadTailProperties, LenProperties, EmptySeq
<1>2. /\ Len(s) = Len(w) + Len(q)
      /\ \A i \in 1 .. Len(w) + Len(q) : s[i] = IF i <= Len(w) THEN w[i] ELSE q[i - Len(w)]
  BY ConcatProperties
<1>3. /\ Len(t) = Len(w) + Len(Tail(q))
      /\ \A i \in 1 .. Len(w) + Len(Tail(q)) :
            t[i] = IF i <= Len(w) THEN w[i] ELSE Tail(q)[i - Len(w)]
  BY <1>1, ConcatProperties
<1>4. Head(q) = q[1] OBVIOUS
<1>5. \A i \in 1 .. Len(q) : q[i] \in Int BY ElementOfSeq, ItemsAreInts
<1>6. \A i \in 1 .. Len(w) : w[i] \in Int BY ElementOfSeq, ItemsAreInts
<1>7. Ordered(s) /\ Below(s, f) OBVIOUS
<1> HIDE DEF s, t
\* Position i of t is position i or i + 1 of s.
<1>8. Len(s) = Len(t) + 1 /\ Len(t) \in Nat
  BY <1>1, <1>2, <1>3
<1>9. \A i \in 1 .. Len(t) : t[i] = s[IF i <= Len(w) THEN i ELSE i + 1]
  <2> SUFFICES ASSUME NEW i \in 1 .. Len(t)
               PROVE  t[i] = s[IF i <= Len(w) THEN i ELSE i + 1]
    OBVIOUS
  <2>1. CASE i <= Len(w) BY <1>1, <1>2, <1>3, <1>8, <2>1
  <2>2. CASE i > Len(w)
    <3>1. t[i] = Tail(q)[i - Len(w)] BY <1>1, <1>3, <2>2
    <3>2. i - Len(w) \in 1 .. Len(Tail(q)) BY <1>1, <1>3, <2>2
    <3>3. t[i] = q[i - Len(w) + 1] BY <1>1, <3>1, <3>2
    <3>4. s[i + 1] = q[i + 1 - Len(w)] BY <1>1, <1>2, <1>3, <2>2
    <3>5. i - Len(w) + 1 = i + 1 - Len(w) BY <1>1, <2>2
    <3> QED BY <1>1, <2>2, <3>3, <3>4, <3>5
  <2> QED BY <1>1, <1>8, <2>1, <2>2
<1>10. s[Len(w) + 1] = Head(q) BY <1>1, <1>2, <1>4
<1>11. Ordered(t) BY <1>1, <1>7, <1>8, <1>9 DEF Ordered
<1>12. Below(t, f) BY <1>1, <1>7, <1>8, <1>9 DEF Below
<1>13. ASSUME Head(q) <= 0, Covers(s, f) PROVE Covers(t, f)
  <2> SUFFICES ASSUME NEW n \in 1 .. f PROVE \E i \in 1 .. Len(t) : t[i] = n
    BY DEF Covers
  <2>1. PICK j \in 1 .. Len(s) : s[j] = n BY <1>13 DEF Covers
  <2>2. j # Len(w) + 1 BY <1>1, <1>4, <1>5, <1>10, <1>13, <2>1
  <2>3. CASE j <= Len(w)
    <3>1. j \in 1 .. Len(t) BY <1>1, <1>8, <1>3, <2>3
    <3> QED BY <1>9, <2>1, <2>3, <3>1
  <2>4. CASE j > Len(w) + 1
    <3>1. j - 1 \in 1 .. Len(t) /\ ~(j - 1 <= Len(w)) BY <1>1, <1>8, <2>4
    <3>2. t[j - 1] = s[j] BY <1>1, <1>8, <1>9, <3>1
    <3> QED BY <2>1, <3>1, <3>2
  <2> QED BY <1>1, <1>8, <2>2, <2>3, <2>4
<1> QED BY <1>1, <1>11, <1>12, <1>13 DEF s, t

-----------------------------------------------------------------------------
(* Type correctness                                                        *)

\* The steps that neither touch the queue nor the wire nor the counters.
Quiet == UNCHANGED <<out, wire, chunks, fed>>

\* What happens to the data in a step.
DataStep ==
    \/ Quiet
    \/ PutCtrl /\ UNCHANGED <<wire, chunks, fed>>
    \/ PumpOut \/ PumpSentinel \/ PumpOutLost
    \/ \E match \in {FALSE, HasCloseon} : FeedFromSerial(match)

LEMMA DataSteps == ASSUME [Next]_vars PROVE DataStep
<1>1. CASE Next
  BY <1>1 DEF Next, Step, Done, vars, net, tasks, DataStep, Quiet, Greeted, GreetingFails,
     GroupEnds, Closed, FromNetwork, SerialDrained, SerialWriteFails, ReadEnds, Drained,
     PumpPoll, IdleTimeout, IdleGuardEnds, LifetimeOver, Kick, PeerReads, PeerCloses,
     PeerResets, KeepAliveExpires
<1>2. CASE UNCHANGED vars BY <1>2 DEF vars, DataStep, Quiet
<1> QED BY <1>1, <1>2

LEMMA InitTypeOK == Init => TypeOK
<1> SUFFICES ASSUME Init PROVE TypeOK
  OBVIOUS
<1>1. ControlTypeOK
  <2>0. noise = 0 BY DEF Init
  <2>1. noise \in 0 .. MaxNoise BY ONLY <2>0, Bounds
  <2>2. closing \in BOOLEAN /\ stalled \in BOOLEAN /\ polling \in BOOLEAN /\ idling \in BOOLEAN
    BY DEF Init
  <2>3. /\ phase = "greeting" /\ n2s = "done" /\ s2n = "done" /\ link = "open"
        /\ reason = "" /\ raised = ""
    BY DEF Init
  <2> QED BY ONLY <2>1, <2>2, <2>3 DEF ControlTypeOK
<1>2. DataTypeOK
  <2>1. out = <<>> /\ wire = <<>> /\ chunks = 0 /\ fed = 0 BY DEF Init
  <2>2. Len(out) = 0 /\ out \in Seq(Items) /\ wire \in Seq(Items) BY <2>1
  <2> QED BY <2>1, <2>2, ClientAssumption DEF DataTypeOK
<1> QED BY <1>1, <1>2 DEF TypeOK

\* A put fits; what the pump takes out shortens the queue.
LEMMA StepDataTypeOK ==
  ASSUME DataTypeOK, DataStep PROVE DataTypeOK'
<1> USE DEF DataTypeOK
<1>0. /\ Len(out) \in Nat /\ QueueMax \in Nat \ {0} /\ MaxChunks \in Nat
      /\ chunks \in Nat /\ fed \in Nat
  BY LenProperties, ClientAssumption
<1>1. CASE Quiet BY <1>1 DEF Quiet
<1>2. CASE PutCtrl /\ UNCHANGED <<wire, chunks, fed>>
  <2>1. out' = out \/ (Len(out) < QueueMax /\ out' = Append(out, Ctrl))
    BY <1>2 DEF PutCtrl, HasRoom
  <2>2. out' \in Seq(Items) /\ Len(out') <= QueueMax
    BY <1>0, <2>1, AppendProperties, ItemsAreInts
  <2> QED BY <1>2, <2>2
<1>3. CASE PumpOut
  <2>1. PICK k \in 1 .. Len(out) : wire' = wire \o SubSeq(out, 1, k) /\ out' = SubSeq(out, k + 1, Len(out))
    BY <1>3 DEF PumpOut
  <2>2. /\ SubSeq(out, 1, k) \in Seq(Items) /\ SubSeq(out, k + 1, Len(out)) \in Seq(Items)
        /\ Len(SubSeq(out, k + 1, Len(out))) = Len(out) - k
    BY StreamMove
  <2>3. wire' \in Seq(Items) BY <2>1, <2>2, ConcatProperties
  <2>4. out' \in Seq(Items) /\ Len(out') <= QueueMax BY <1>0, <2>1, <2>2
  <2> QED BY <1>3, <2>3, <2>4 DEF PumpOut
<1>4. CASE PumpSentinel
  <2>1. wire' = wire \o Tail(out) /\ out' = <<>> /\ out # <<>> BY <1>4 DEF PumpSentinel
  <2>2. Tail(out) \in Seq(Items) BY <2>1, HeadTailProperties
  <2>3. wire' \in Seq(Items) BY <2>1, <2>2, ConcatProperties
  <2>4. out' \in Seq(Items) /\ Len(out') <= QueueMax BY <1>0, <2>1
  <2> QED BY <1>4, <2>3, <2>4 DEF PumpSentinel
<1>5. CASE PumpOutLost
  <2>1. out' = out \/ (out # <<>> /\ out' = Tail(out)) BY <1>5 DEF PumpOutLost
  <2>2. out' \in Seq(Items) /\ Len(out') <= QueueMax
    BY <1>0, <2>1, HeadTailProperties, EmptySeq
  <2> QED BY <1>5, <2>2 DEF PumpOutLost, net
<1>6. ASSUME NEW match \in {FALSE, HasCloseon}, FeedFromSerial(match) PROVE DataTypeOK'
  <2> DEFINE q == Append(out, chunks + 1)
  <2>1. chunks' = chunks + 1 /\ chunks' \in 0 .. MaxChunks /\ wire' = wire
    BY <1>0, <1>6 DEF FeedFromSerial
  <2>2. chunks + 1 \in Items BY <1>0, <1>6 DEF FeedFromSerial, Items
  <2>3. q \in Seq(Items) /\ Len(q) = Len(out) + 1 BY <2>2, AppendProperties
  <2> HIDE DEF q
  <2>4. Append(q, Sentinel) \in Seq(Items) /\ Len(Append(q, Sentinel)) = Len(q) + 1
    BY <2>3, ItemsAreInts, AppendProperties
  <2>5. \/ out' = out /\ fed' = fed
        \/ /\ Len(out) < QueueMax /\ fed' = chunks + 1
           /\ out' = q \/ (Len(q) # QueueMax /\ out' = Append(q, Sentinel))
    BY <1>6 DEF FeedFromSerial, HasRoom, q
  <2>6. out' \in Seq(Items) /\ Len(out') <= QueueMax
    <3> DEFINE s == Append(q, Sentinel)
    <3>1. /\ out \in Seq(Items) /\ Len(out) <= QueueMax
          /\ Len(out) \in Nat /\ QueueMax \in Nat
      BY <1>0
    <3>2. s \in Seq(Items) /\ Len(s) = Len(q) + 1 BY <2>4
    <3>3. \/ out' = out
          \/ (Len(out) < QueueMax /\ out' = q)
          \/ (Len(out) < QueueMax /\ Len(q) # QueueMax /\ out' = s)
      BY <2>5
    <3> HIDE DEF s
    <3>4. CASE out' = out BY ONLY <3>1, <3>4
    <3>5. CASE Len(out) < QueueMax /\ out' = q BY ONLY <2>3, <3>1, <3>5
    <3>6. CASE Len(out) < QueueMax /\ Len(q) # QueueMax /\ out' = s
      BY ONLY <2>3, <3>1, <3>2, <3>6
    <3> QED BY ONLY <3>3, <3>4, <3>5, <3>6
  <2>7. fed' \in 0 .. chunks' BY <1>0, <2>1, <2>5
  <2> QED BY <2>1, <2>6, <2>7
<1> QED BY <1>1, <1>2, <1>3, <1>4, <1>5, <1>6 DEF DataStep

LEMMA StepControlTypeOK ==
  ASSUME ControlTypeOK, [Next]_vars PROVE ControlTypeOK'
<1>1. CASE Next
  <2> USE <1>1 DEF Next, Step, Done, vars, net, tasks, Greeted, GreetingFails, GroupEnds, Closed,
     FromNetwork, NextRead, SerialDrained, SerialWriteFails, ReadEnds, Drained, PumpPoll,
     IdleTimeout, IdleGuardEnds, LifetimeOver, Kick, PeerReads, PeerCloses, PeerResets,
     KeepAliveExpires, PumpOut, PumpSentinel, PumpOutLost, FeedFromSerial
  <2>1. phase' \in {"greeting", "pumping", "closing", "ended"} BY DEF ControlTypeOK
  <2>2. n2s' \in {"read", "write", "done"} BY DEF ControlTypeOK
  <2>3. s2n' \in {"get", "drain", "flush", "done"} BY DEF ControlTypeOK
  <2>4. link' \in {"open", "fin", "lost"} BY DEF ControlTypeOK
  <2>5. reason' \in Causes \cup {""} BY DEF ControlTypeOK, First, Causes
  <2>6. raised' \in Causes \cup {""} BY DEF ControlTypeOK, First, Causes
  <2>7. noise' \in 0 .. MaxNoise
    <3>1. noise' = noise \/ (noise < MaxNoise /\ noise' = noise + 1) OBVIOUS
    <3>2. noise \in 0 .. MaxNoise BY DEF ControlTypeOK
    <3> QED BY ONLY <3>1, <3>2, Bounds
  <2>8. closing' \in BOOLEAN BY ClientAssumption DEF ControlTypeOK
  <2>9. stalled' \in BOOLEAN BY DEF ControlTypeOK
  <2>10. polling' \in BOOLEAN /\ idling' \in BOOLEAN BY DEF ControlTypeOK
  <2> QED BY ONLY <2>1, <2>2, <2>3, <2>4, <2>5, <2>6, <2>7, <2>8, <2>9, <2>10 DEF ControlTypeOK
<1>2. CASE UNCHANGED vars
  <2>1. /\ phase' = phase /\ n2s' = n2s /\ s2n' = s2n /\ link' = link /\ noise' = noise
        /\ reason' = reason /\ raised' = raised
    BY <1>2 DEF vars
  <2>2. closing' = closing /\ stalled' = stalled /\ polling' = polling /\ idling' = idling
    BY <1>2 DEF vars
  <2>3. closing' \in BOOLEAN /\ stalled' \in BOOLEAN /\ polling' \in BOOLEAN /\ idling' \in BOOLEAN
    BY <2>2, Zenon DEF ControlTypeOK
  <2> QED BY ONLY ControlTypeOK, <2>1, <2>3 DEF ControlTypeOK
<1> QED BY <1>1, <1>2

\* Every variable of a session keeps its type, and the outbound queue never
\* exceeds client_queue_max (put_nowait of feed_from_serial, of the control
\* bytes and of the close request).
THEOREM TypeCorrect == Spec => []TypeOK
<1>1. TypeOK /\ [Next]_vars => TypeOK'
  BY DataSteps, StepDataTypeOK, StepControlTypeOK DEF TypeOK
<1> QED BY <1>1, InitTypeOK, PTL DEF Spec

-----------------------------------------------------------------------------
(* The stream of chunks                                                    *)

Contiguous(s) == \A i \in 1 .. Len(s) : \A n \in 1 .. s[i] : \E j \in 1 .. i : s[j] = n

\* The inductive invariant: what is on the wire or queued is in order and comes
\* from the accepted chunks; while the link is up nothing accepted is missing;
\* while the session is not closing everything the device sent was accepted.
StreamInv ==
    /\ Ordered(Stream) /\ Below(Stream, fed)
    /\ link # "lost" => Covers(Stream, fed)
    /\ ~closing => fed = chunks
    /\ Contiguous(wire)

\* An ordered stream that holds all of 1 .. f holds them in counting order.
LEMMA OrderedIsContiguous ==
  ASSUME NEW s \in Seq(Items), NEW f \in Nat, Ordered(s), Below(s, f), Covers(s, f)
  PROVE  Contiguous(s)
<1> SUFFICES ASSUME NEW i \in 1 .. Len(s), NEW n \in 1 .. s[i]
             PROVE  \E j \in 1 .. i : s[j] = n
  BY DEF Contiguous
<1>0. Len(s) \in Nat /\ s[i] \in Int BY LenProperties, ElementOfSeq, ItemsAreInts
<1>1. n \in 1 .. f BY <1>0 DEF Below
<1>2. PICK j \in 1 .. Len(s) : s[j] = n BY <1>1 DEF Covers
<1>3. ~(i < j) BY <1>0, <1>2 DEF Ordered
<1>4. j \in 1 .. i BY <1>0, <1>3
<1> QED BY <1>2, <1>4

LEMMA ContiguousPrefix ==
  ASSUME NEW w \in Seq(Items), NEW q \in Seq(Items), Contiguous(w \o q)
  PROVE  Contiguous(w)
<1> DEFINE s == w \o q
<1>0. Len(w) \in Nat /\ Len(q) \in Nat BY LenProperties
<1>1. Len(s) = Len(w) + Len(q) /\ \A i \in 1 .. Len(w) : s[i] = w[i]
  <2>1. /\ Len(s) = Len(w) + Len(q)
        /\ \A i \in 1 .. Len(w) + Len(q) : s[i] = IF i <= Len(w) THEN w[i] ELSE q[i - Len(w)]
    BY ConcatProperties
  <2> HIDE DEF s
  <2> QED BY <1>0, <2>1
<1>2. Contiguous(s) OBVIOUS
<1> HIDE DEF s
<1> SUFFICES ASSUME NEW i \in 1 .. Len(w), NEW n \in 1 .. w[i]
             PROVE  \E j \in 1 .. i : w[j] = n
  BY DEF Contiguous
<1>3. PICK j \in 1 .. i : s[j] = n BY <1>0, <1>1, <1>2 DEF Contiguous
<1>4. w[j] = n BY <1>0, <1>1, <1>3
<1> QED BY <1>4

\* A lost link stays lost and a closing session stays closing.
LEMMA OneWay ==
  ASSUME [Next]_vars PROVE (link' # "lost" => link # "lost") /\ (~closing' => ~closing)
<1>1. CASE Next
  <2> USE <1>1 DEF Next, Step, Done, vars, net, tasks, Greeted, GreetingFails,
     GroupEnds, Closed, FromNetwork, SerialDrained, SerialWriteFails, ReadEnds, Drained,
     PumpPoll, IdleTimeout, IdleGuardEnds, LifetimeOver, Kick, PeerReads, PeerCloses,
     PeerResets, KeepAliveExpires, PumpOut, PumpSentinel, PumpOutLost, FeedFromSerial
  <2>1. link' # "lost" => link # "lost" OBVIOUS
  <2>2. closing' = closing \/ closing' = TRUE \/ ~closing OBVIOUS
  <2> QED BY ONLY <2>1, <2>2
<1>2. CASE UNCHANGED vars BY <1>2 DEF vars
<1> QED BY <1>1, <1>2

LEMMA InitStream == Init => StreamInv
<1> SUFFICES ASSUME Init PROVE StreamInv
  OBVIOUS
<1>1. wire = <<>> /\ out = <<>> /\ fed = 0 /\ chunks = 0 BY DEF Init
<1>2. Len(wire) = 0 /\ Len(Stream) = 0 BY <1>1 DEF Stream
<1> QED BY <1>1, <1>2 DEF StreamInv, Ordered, Below, Covers, Contiguous

LEMMA NextStream ==
  ASSUME TypeOK, StreamInv, [Next]_vars PROVE StreamInv'
<1>0. /\ out \in Seq(Items) /\ wire \in Seq(Items) /\ fed \in Nat /\ chunks \in Nat
      /\ Stream \in Seq(Items)
  BY Bounds, ConcatProperties DEF TypeOK, DataTypeOK, Stream
<1>a. Ordered(Stream) /\ Below(Stream, fed) /\ Contiguous(wire) BY DEF StreamInv
<1>b. link # "lost" => Covers(Stream, fed) BY DEF StreamInv
<1>c. ~closing => fed = chunks BY DEF StreamInv
<1>d. (link' # "lost" => link # "lost") /\ (~closing' => ~closing) BY OneWay
<1>e. DataStep BY DataSteps
<1>1. CASE Quiet
  <2>1. wire' = wire /\ Stream' = Stream /\ fed' = fed /\ chunks' = chunks
    BY <1>1 DEF Quiet, Stream
  <2> QED BY <1>a, <1>b, <1>c, <1>d, <2>1 DEF StreamInv, Ordered, Below, Covers, Contiguous
<1>2. CASE PutCtrl /\ UNCHANGED <<wire, chunks, fed>>
  <2>1. CASE out' = out
    <3>1. wire' = wire /\ Stream' = Stream /\ fed' = fed /\ chunks' = chunks
      BY <1>2, <2>1 DEF Stream
    <3> QED BY <1>a, <1>b, <1>c, <1>d, <3>1 DEF StreamInv, Ordered, Below, Covers, Contiguous
  <2>2. CASE out' = Append(out, Ctrl)
    <3>1. Stream' = Append(Stream, Ctrl) /\ wire' = wire /\ fed' = fed /\ chunks' = chunks
      BY <1>0, <1>2, <2>2, StreamAppend, ItemsAreInts DEF Stream
    <3>2. /\ Ordered(Append(Stream, Ctrl)) /\ Below(Append(Stream, Ctrl), fed)
          /\ Covers(Stream, fed) => Covers(Append(Stream, Ctrl), fed)
      <4>1. Ctrl \in Items /\ Ctrl <= 0 BY ItemsAreInts DEF Ctrl
      <4> QED BY <1>0, <1>a, <4>1, AppendItem
    <3> QED BY <1>a, <1>b, <1>c, <1>d, <3>1, <3>2 DEF StreamInv, Ordered, Below, Covers, Contiguous
  <2> QED BY <1>2, <2>1, <2>2 DEF PutCtrl
<1>3. CASE PumpOut
  <2>1. PICK k \in 1 .. Len(out) : wire' = wire \o SubSeq(out, 1, k) /\ out' = SubSeq(out, k + 1, Len(out))
    BY <1>3 DEF PumpOut
  <2>2. /\ SubSeq(out, 1, k) \in Seq(Items) /\ out' \in Seq(Items)
        /\ (wire \o SubSeq(out, 1, k)) \o SubSeq(out, k + 1, Len(out)) = wire \o out
    BY <1>0, <2>1, StreamMove
  <2>3. Stream' = Stream BY <2>1, <2>2 DEF Stream
  <2>4. fed' = fed /\ chunks' = chunks /\ link # "lost" BY <1>3 DEF PumpOut
  <2>5. Contiguous(Stream) BY <1>0, <1>a, <1>b, <2>4, OrderedIsContiguous
  <2>6. wire' \in Seq(Items) BY <1>0, <2>1, <2>2, ConcatProperties
  <2>7. wire' \o out' = Stream BY <2>3 DEF Stream
  <2>8. Contiguous(wire') BY <2>2, <2>5, <2>6, <2>7, ContiguousPrefix
  <2> QED BY <1>a, <1>b, <1>c, <1>d, <2>3, <2>4, <2>8 DEF StreamInv, Ordered, Below, Covers, Contiguous
<1>4. CASE PumpSentinel
  <2>1. /\ wire' = wire \o Tail(out) /\ out' = <<>> /\ out # <<>> /\ Head(out) = Sentinel
        /\ link # "lost" /\ fed' = fed /\ chunks' = chunks
    BY <1>4 DEF PumpSentinel
  <2>2. Ordered(wire \o out) /\ Below(wire \o out, fed) /\ Covers(wire \o out, fed)
    BY <1>a, <1>b, <2>1 DEF Stream
  <2>3. /\ Tail(out) \in Seq(Items) /\ Ordered(wire \o Tail(out)) /\ Below(wire \o Tail(out), fed)
        /\ Head(out) <= 0 /\ Covers(wire \o out, fed) => Covers(wire \o Tail(out), fed)
    BY <1>0, <2>1, <2>2, DropItem
  <2>4. wire' \in Seq(Items) BY <1>0, <2>1, <2>3, ConcatProperties
  <2>5. Stream' = wire' BY <2>1, <2>4, ConcatEmptySeq DEF Stream
  <2>6. Covers(wire', fed) BY <2>1, <2>2, <2>3 DEF Sentinel
  <2>7. Ordered(wire') /\ Below(wire', fed) BY <2>1, <2>3
  <2>8. Contiguous(wire') BY <1>0, <2>4, <2>6, <2>7, OrderedIsContiguous
  <2> QED BY <1>c, <1>d, <2>1, <2>5, <2>6, <2>7, <2>8 DEF StreamInv, Ordered, Below, Covers, Contiguous
<1>5. CASE PumpOutLost
  <2>1. link' = "lost" /\ wire' = wire /\ fed' = fed /\ chunks' = chunks
    BY <1>5 DEF PumpOutLost, net
  <2>2. CASE out' = out
    <3>1. Stream' = Stream BY <2>1, <2>2 DEF Stream
    <3> QED BY <1>a, <1>c, <1>d, <2>1, <3>1 DEF StreamInv, Ordered, Below, Contiguous
  <2>3. CASE out # <<>> /\ out' = Tail(out)
    <3>1. Ordered(wire \o Tail(out)) /\ Below(wire \o Tail(out), fed)
      BY <1>0, <1>a, <2>3, DropItem DEF Stream
    <3>2. Stream' = wire \o Tail(out) BY <2>1, <2>3 DEF Stream
    <3> QED BY <1>a, <1>c, <1>d, <2>1, <3>1, <3>2 DEF StreamInv, Ordered, Below, Contiguous
  <2> QED BY <1>5, <2>2, <2>3 DEF PumpOutLost
<1>6. ASSUME NEW match \in {FALSE, HasCloseon}, FeedFromSerial(match) PROVE StreamInv'
  <2>0. wire' = wire /\ chunks' = chunks + 1 BY <1>6 DEF FeedFromSerial
  <2>1. CASE out' = out /\ fed' = fed /\ closing'
    <3>1. Stream' = Stream BY <2>0, <2>1 DEF Stream
    <3> QED BY <1>a, <1>b, <1>d, <2>0, <2>1, <3>1 DEF StreamInv, Ordered, Below, Covers, Contiguous
  <2> DEFINE e == chunks + 1
             q == Append(out, e)
             t == Append(Stream, e)
  <2>2. CASE ~closing /\ fed' = e /\ (out' = q \/ out' = Append(q, Sentinel))
    <3>1. e \in Items /\ e = fed + 1 /\ e \in Nat
      <4>1. chunks < MaxChunks BY <1>6 DEF FeedFromSerial
      <4>2. fed = chunks BY <1>c, <2>2
      <4>3. e \in 1 .. MaxChunks BY ONLY <1>0, <4>1, Bounds
      <4> QED BY <1>0, <4>2, <4>3 DEF Items
    <3>2. q \in Seq(Items) BY <1>0, <3>1, AppendProperties
    <3>3. wire \o q = t BY <1>0, <3>1, StreamAppend DEF Stream
    <3>4. t \in Seq(Items) /\ Ordered(t) /\ Below(t, e) /\ (Covers(Stream, fed) => Covers(t, e))
      BY <1>0, <1>a, <3>1, AppendItem
    <3>5. fed' = e /\ chunks' = e BY <2>0, <2>2
    <3> HIDE DEF e, q, t
    <3>6. CASE out' = q
      <4>1. Stream' = t BY <2>0, <3>3, <3>6 DEF Stream
      <4> QED BY <1>a, <1>b, <1>d, <2>0, <3>4, <3>5, <4>1
             DEF StreamInv, Ordered, Below, Covers, Contiguous
    <3>7. CASE out' = Append(q, Sentinel)
      <4>1. wire \o Append(q, Sentinel) = Append(wire \o q, Sentinel)
        BY <1>0, <3>2, ItemsAreInts, StreamAppend
      <4>2. Stream' = Append(t, Sentinel) BY <2>0, <3>3, <3>7, <4>1 DEF Stream
      <4>3. Sentinel \in Items /\ Sentinel <= 0 BY ItemsAreInts DEF Sentinel
      <4>4. /\ Ordered(Append(t, Sentinel)) /\ Below(Append(t, Sentinel), e)
            /\ Covers(t, e) => Covers(Append(t, Sentinel), e)
        BY <3>1, <3>4, <4>3, AppendItem
      <4> QED BY <1>a, <1>b, <1>d, <2>0, <3>4, <3>5, <4>2, <4>4
             DEF StreamInv, Ordered, Below, Covers, Contiguous
    <3> QED BY <2>2, <3>6, <3>7
  <2> QED
    <3>1. (out' = out /\ fed' = fed /\ closing')
            \/ (~closing /\ fed' = e /\ (out' = q \/ out' = Append(q, Sentinel)))
      <4>1. CASE closing BY <1>6, <4>1 DEF FeedFromSerial
      <4>2. CASE ~closing /\ HasRoom
        <5>1. fed' = chunks + 1 BY <1>6, <4>2 DEF FeedFromSerial
        <5>2. out' = Append(out, chunks + 1) \/ out' = Append(Append(out, chunks + 1), Sentinel)
          BY <1>6, <4>2 DEF FeedFromSerial
        <5> QED BY <4>2, <5>1, <5>2
      <4>3. CASE ~closing /\ ~HasRoom BY <1>6, <4>3 DEF FeedFromSerial
      <4> QED BY <4>1, <4>2, <4>3
    <3> QED BY <2>1, <2>2, <3>1
<1> QED BY <1>e, <1>1, <1>2, <1>3, <1>4, <1>5, <1>6 DEF DataStep

StreamHolds == TypeOK /\ StreamInv

\* On every client's connection the chunks of the device appear in order, none
\* twice and none left out (feed_from_serial, _pump_serial_to_net).
THEOREM NoGapHolds == Spec => []NoGap
<1>1. Init => StreamHolds BY InitTypeOK, InitStream DEF StreamHolds
<1>2. StreamHolds /\ [Next]_vars => StreamHolds'
  BY DataSteps, StepDataTypeOK, StepControlTypeOK, NextStream DEF StreamHolds, TypeOK
<1>3. StreamHolds => NoGap BY DEF StreamHolds, StreamInv, NoGap, Ordered, Contiguous
<1> QED BY <1>1, <1>2, <1>3, PTL DEF Spec

\* A client that is not being closed has been given every chunk the device sent
\* since it was registered (feed_from_serial closes on overflow, Greeted keeps
\* what was queued during the greeting).
THEOREM NothingMissedHolds == Spec => []NothingMissed
<1>1. Init => StreamHolds BY InitTypeOK, InitStream DEF StreamHolds
<1>2. StreamHolds /\ [Next]_vars => StreamHolds'
  BY DataSteps, StepDataTypeOK, StepControlTypeOK, NextStream DEF StreamHolds, TypeOK
<1>3. StreamHolds => NothingMissed BY DEF StreamHolds, StreamInv, NothingMissed, Covers
<1> QED BY <1>1, <1>2, <1>3, PTL DEF Spec

=============================================================================
