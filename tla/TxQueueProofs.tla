--------------------------- MODULE TxQueueProofs ---------------------------
(***************************************************************************)
(* Proofs about TxQueue, for any number of producers, any queue sizes and  *)
(* any number of items.                                                    *)
(***************************************************************************)
EXTENDS TxQueue, QueueLemmas

LEMMA OfferTyped ==
    ASSUME QueueTypeOK, NEW p \in Producer, MayPut(p)
    PROVE  ClassOf[p] \in Class /\ Offer(p) \in Item /\ put[p] + 1 \in 0..ItemLimit
<1>1. ClassOf[p] \in Class /\ ItemLimit \in Nat
  BY QueueAssumption
<1>2. put[p] \in 0..ItemLimit /\ put[p] < ItemLimit
  BY DEF QueueTypeOK, MayPut
<1>3. put[p] + 1 \in 1..ItemLimit /\ put[p] + 1 \in 0..ItemLimit
  BY <1>1, <1>2
<1> QED
  BY <1>1, <1>3 DEF Offer, Item

LEMMA InitType == QueueInit => QueueTypeOK
<1> SUFFICES ASSUME QueueInit PROVE QueueTypeOK
  OBVIOUS
<1>1. <<>> \in Seq(Item) /\ Len(<<>>) = 0
  BY EmptySeq
<1>2. \A k \in Class : Cap[k] \in Nat
  BY QueueAssumption
<1>3. \A k \in Class : Len(queue[k]) <= Cap[k]
  BY <1>1, <1>2 DEF QueueInit
<1>4. put \in [Producer -> 0..ItemLimit]
  BY QueueAssumption DEF QueueInit
<1> QED
  BY <1>1, <1>3, <1>4 DEF QueueInit, QueueTypeOK, Class

LEMMA NextType == QueueTypeOK /\ [QueueNext]_queueVars => QueueTypeOK'
<1> SUFFICES ASSUME QueueTypeOK, [QueueNext]_queueVars PROVE QueueTypeOK'
  OBVIOUS
<1> USE QueueAssumption
<1>1. ASSUME NEW p \in Producer, Put(p) PROVE QueueTypeOK'
  <2> DEFINE k == ClassOf[p]
  <2>1. k \in Class /\ Offer(p) \in Item /\ put[p] + 1 \in 0..ItemLimit
    BY <1>1, OfferTyped DEF Put
  <2>2. /\ queue[k] \in Seq(Item) /\ Len(queue[k]) \in Nat
        /\ Append(queue[k], Offer(p)) \in Seq(Item)
        /\ Len(Append(queue[k], Offer(p))) = Len(queue[k]) + 1
        /\ Append(accepted[k], Offer(p)) \in Seq(Item)
    BY <2>1, AppendFacts, LenProperties DEF QueueTypeOK
  <2>3. /\ queue' \in [Class -> Seq(Item)] /\ accepted' \in [Class -> Seq(Item)]
        /\ put' \in [Producer -> 0..ItemLimit] /\ overtaken' \in [Class -> Nat]
    BY <1>1, <2>1, <2>2 DEF QueueTypeOK, Put
  <2>4. \A h \in Class : Len(queue'[h]) <= Cap[h]
    BY <1>1, <2>1, <2>2, QueueAssumption DEF QueueTypeOK, Put
  <2> QED
    BY <1>1, <2>3, <2>4 DEF QueueTypeOK, Put
<1>2. ASSUME NEW p \in Producer, Drop(p) PROVE QueueTypeOK'
  <2>1. put[p] \in 0..ItemLimit /\ put[p] < ItemLimit /\ ItemLimit \in Nat
    BY <1>2 DEF QueueTypeOK, Drop, MayPut
  <2>2. put[p] + 1 \in 0..ItemLimit
    BY <2>1
  <2>3. put' \in [Producer -> 0..ItemLimit]
    BY <1>2, <2>2 DEF QueueTypeOK, Drop
  <2> QED
    BY <1>2, <2>3 DEF QueueTypeOK, Drop
<1>3. ASSUME NEW p \in Producer, SetEvent(p) PROVE QueueTypeOK'
  BY <1>3 DEF QueueTypeOK, SetEvent
<1>4. ASSUME NEW k \in Class, Take(k) PROVE QueueTypeOK'
  <2>1. queue[k] \in Seq(Item) /\ handed[k] \in Seq(Item) /\ queue[k] # <<>>
    BY <1>4 DEF QueueTypeOK, Take
  <2>2. /\ Head(queue[k]) \in Item /\ Tail(queue[k]) \in Seq(Item)
        /\ Len(Tail(queue[k])) = Len(queue[k]) - 1 /\ Len(queue[k]) \in Nat
        /\ Append(handed[k], Head(queue[k])) \in Seq(Item)
    BY <2>1, TailFacts, AppendFacts, LenProperties
  <2>3. overtaken' \in [Class -> Nat]
    BY <1>4 DEF QueueTypeOK, Take
  <2>4. queue' \in [Class -> Seq(Item)] /\ handed' \in [Class -> Seq(Item)]
    BY <1>4, <2>2 DEF QueueTypeOK, Take
  <2>5. \A h \in Class : Len(queue'[h]) <= Cap[h]
    BY <1>4, <2>2, QueueAssumption DEF QueueTypeOK, Take
  <2>6. getPc' \in Class
    BY <1>4 DEF Take, Restart, Class
  <2> QED
    BY <1>4, <2>3, <2>4, <2>5, <2>6 DEF QueueTypeOK, Take
<1>5. ASSUME NEW k \in Class, Miss(k) PROVE QueueTypeOK'
  BY <1>5 DEF QueueTypeOK, Miss, Following, Class
<1>6. CASE Expire \/ Wake \/ Poll \/ ClearEvent
  BY <1>6 DEF QueueTypeOK, Expire, Wake, Poll, ClearEvent, Following, Class
<1>7. CASE UNCHANGED queueVars
  BY <1>7 DEF QueueTypeOK, queueVars
<1> QED
  BY <1>1, <1>2, <1>3, <1>4, <1>5, <1>6, <1>7 DEF QueueNext, GetStep

\* Type correctness: no interleaving of puts and gets exceeds a queue's size.
THEOREM TypeCorrect == QueueSpec => []QueueTypeOK
BY InitType, NextType, PTL DEF QueueSpec

-----------------------------------------------------------------------------
(* Both invariants below rest on what the consumer still has to look at:   *)
(* from the statements in Ahead(k) it scans queue k before it next waits.  *)

Ahead(k) == {"clear", k} \cup {h \in Class : k \in Lower(h)}

\* Going on from an empty queue never leaves Ahead of another queue, and the
\* scan starts ahead of all of them.
LEMMA ScanOrder ==
    /\ \A h \in Class : "control" \in Ahead(h) /\ "clear" \in Ahead(h)
    /\ \A h \in Class, k \in Class :
          k \in Ahead(h) /\ h # k => Following[k] \in Ahead(h)
    /\ \A h \in Class, k \in Class : k \in Lower(h) => k \notin Ahead(h)
    /\ Following["wait"] = "clear" /\ Following["clear"] = "control"
BY DEF Ahead, Class, Lower, Following

\* Strengthening of NoLostWakeup to all of the consumer's statements.
WakeupInv == \A k \in Class :
    queue[k] # <<>> => notEmpty \/ setting # {} \/ getPc \in Ahead(k)

\* The consumer never waits on a lowered flag while an item is queued, unless
\* its producer is just about to raise the flag: the order wait, clear, scan
\* of get loses no wake-up, for any number of producers.
THEOREM WakeupNotLost == QueueSpec => []NoLostWakeup
<1>1. QueueInit => WakeupInv
  BY DEF QueueInit, WakeupInv, Class
<1>2. QueueTypeOK /\ WakeupInv /\ [QueueNext]_queueVars => WakeupInv'
  <2> SUFFICES ASSUME QueueTypeOK, WakeupInv, [QueueNext]_queueVars, NEW h \in Class, queue'[h] # <<>>
               PROVE  notEmpty' \/ setting' # {} \/ getPc' \in Ahead(h)
    BY DEF WakeupInv
  <2>1. CASE \E p \in Producer : Put(p)
    BY <2>1 DEF Put
  <2>2. CASE \E p \in Producer : Drop(p)
    BY <2>2 DEF Drop, WakeupInv
  <2>3. CASE \E p \in Producer : SetEvent(p)
    BY <2>3 DEF SetEvent
  <2>4. CASE \E k \in Class : Take(k)
    BY <2>4, ScanOrder DEF Take, Restart
  <2>5. CASE \E k \in Class : Miss(k)
    BY <2>5, ScanOrder DEF Miss, WakeupInv
  <2>6. CASE Expire \/ Wake \/ Poll \/ ClearEvent
    BY <2>6, ScanOrder DEF Expire, Wake, Poll, ClearEvent
  <2>7. CASE UNCHANGED queueVars
    BY <2>7 DEF queueVars, WakeupInv
  <2> QED
    BY <2>1, <2>2, <2>3, <2>4, <2>5, <2>6, <2>7 DEF QueueNext, GetStep
<1>3. WakeupInv => NoLostWakeup
  BY DEF WakeupInv, NoLostWakeup, Ahead, Class
<1> QED
  BY <1>1, <1>2, <1>3, TypeCorrect, PTL DEF QueueSpec

\* Once a frame has been overtaken, the scan has restarted and reaches its
\* queue before any lower one.
OvertakeInv == \A h \in Class :
    /\ overtaken[h] <= 1
    /\ queue[h] # <<>> /\ overtaken[h] = 1 => getPc \in Ahead(h)

\* A waiting frame is overtaken by one frame of a lower class at most,
\* whatever arrives while the consumer scans.
THEOREM AtMostOneAhead == QueueSpec => []OneFrameAhead
<1>1. QueueInit => OvertakeInv
  BY DEF QueueInit, OvertakeInv
<1>2. QueueTypeOK /\ OvertakeInv /\ [QueueNext]_queueVars => OvertakeInv'
  <2> SUFFICES ASSUME QueueTypeOK, OvertakeInv, [QueueNext]_queueVars, NEW h \in Class
               PROVE  /\ overtaken'[h] <= 1
                      /\ queue'[h] # <<>> /\ overtaken'[h] = 1 => getPc' \in Ahead(h)
    BY DEF OvertakeInv
  <2>a. /\ overtaken[h] <= 1
        /\ queue[h] # <<>> /\ overtaken[h] = 1 => getPc \in Ahead(h)
    BY DEF OvertakeInv
  <2>1. ASSUME NEW p \in Producer, Put(p)
        PROVE  /\ overtaken'[h] <= 1
               /\ queue'[h] # <<>> /\ overtaken'[h] = 1 => getPc' \in Ahead(h)
    <3> DEFINE k == ClassOf[p]
    <3>1. /\ k \in Class /\ getPc' = getPc
          /\ queue' = [queue EXCEPT ![k] = Append(@, Offer(p))]
          /\ overtaken' = [overtaken EXCEPT ![k] = IF queue[k] = <<>> THEN 0 ELSE @]
      BY <2>1, QueueAssumption DEF Put
    <3>2. DOMAIN queue = Class /\ DOMAIN overtaken = Class
      BY DEF QueueTypeOK
    <3> HIDE DEF k
    <3>3. CASE h = k
      BY <2>a, <3>1, <3>2, <3>3
    <3>4. CASE h # k
      BY <2>a, <3>1, <3>2, <3>4
    <3> QED
      BY <3>3, <3>4
  <2>2. CASE \E p \in Producer : Drop(p) \/ SetEvent(p)
    BY <2>2 DEF Drop, SetEvent, OvertakeInv
  <2>3. ASSUME NEW k \in Class, Take(k)
        PROVE  /\ overtaken'[h] <= 1
               /\ queue'[h] # <<>> /\ overtaken'[h] = 1 => getPc' \in Ahead(h)
    <3>1. getPc' \in Ahead(h)
      BY <2>3, ScanOrder DEF Take, Restart
    <3>2. overtaken'[h] <= 1
      <4>1. k \in Lower(h) /\ queue[h] # <<>> => overtaken[h] = 0
        BY <2>3, ScanOrder DEF Take, OvertakeInv, QueueTypeOK
      <4> QED
        BY <2>3, <4>1 DEF Take, OvertakeInv
    <3> QED
      BY <3>1, <3>2
  <2>4. CASE \E k \in Class : Miss(k)
    BY <2>4, ScanOrder DEF Miss, OvertakeInv
  <2>5. CASE Expire \/ Wake \/ Poll \/ ClearEvent
    BY <2>5, ScanOrder DEF Expire, Wake, Poll, ClearEvent, OvertakeInv
  <2>6. CASE UNCHANGED queueVars
    BY <2>6 DEF queueVars, OvertakeInv
  <2> QED
    BY <2>1, <2>2, <2>3, <2>4, <2>5, <2>6 DEF QueueNext, GetStep
<1>3. OvertakeInv => OneFrameAhead
  BY DEF OvertakeInv, OneFrameAhead
<1> QED
  BY <1>1, <1>2, <1>3, TypeCorrect, PTL DEF QueueSpec

-----------------------------------------------------------------------------
\* Every class is a FIFO queue: nothing accepted is lost, duplicated or
\* reordered between put and get.
THEOREM EveryClassIsFifo == QueueSpec => []FifoPerClass
<1>1. QueueInit => FifoPerClass
  BY DEF QueueInit, FifoPerClass
<1>2. QueueTypeOK /\ FifoPerClass /\ [QueueNext]_queueVars => FifoPerClass'
  <2> SUFFICES ASSUME QueueTypeOK, FifoPerClass, [QueueNext]_queueVars PROVE FifoPerClass'
    OBVIOUS
  <2>0. \A k \in Class : queue[k] \in Seq(Item) /\ handed[k] \in Seq(Item)
    BY DEF QueueTypeOK
  <2>1. ASSUME NEW p \in Producer, Put(p) PROVE FifoPerClass'
    <3> DEFINE k == ClassOf[p]
    <3>1. k \in Class /\ Offer(p) \in Item
      BY <2>1, OfferTyped DEF Put
    <3>2. handed[k] \o Append(queue[k], Offer(p)) = Append(handed[k] \o queue[k], Offer(p))
      <4>1. \A t \in Seq(Item), q \in Seq(Item), x \in Item :
               t \o Append(q, x) = Append(t \o q, x)
        BY AddLast
      <4>2. handed[k] \in Seq(Item) /\ queue[k] \in Seq(Item)
        BY <2>0, <3>1
      <4> HIDE DEF k
      <4> QED
        BY <3>1, <4>1, <4>2
    <3> QED
      BY <2>1, <3>1, <3>2 DEF Put, FifoPerClass, QueueTypeOK
  <2>2. ASSUME NEW k \in Class, Take(k) PROVE FifoPerClass'
    <3>1. Append(handed[k], Head(queue[k])) \o Tail(queue[k]) = handed[k] \o queue[k]
      BY <2>0, <2>2, MoveHead DEF Take
    <3> QED
      BY <2>2, <3>1 DEF Take, FifoPerClass, QueueTypeOK
  <2>3. CASE UNCHANGED <<queue, accepted, handed>>
    BY <2>3 DEF FifoPerClass
  <2> QED
    BY <2>1, <2>2, <2>3 DEF QueueNext, GetStep, Drop, SetEvent, Miss, Expire, Wake, Poll,
       ClearEvent, queueVars
<1> QED
  BY <1>1, <1>2, TypeCorrect, PTL DEF QueueSpec

=============================================================================
