--------------------------- MODULE MacArqProofs ---------------------------
(***************************************************************************)
(* Proofs about MacArq, for every set of nodes and callers, every topology *)
(* and all sizes and bounds.                                               *)
(***************************************************************************)
EXTENDS MacArq, QueueLemmas

\* ack() and nack() keep the rate between 0 and TopMcs.
LEMMA AmcTyped ==
    ASSUME NEW r \in Amc
    PROVE  AmcAck(r) \in Amc /\ AmcNack(r) \in Amc
BY AmcAssumption DEF Amc, Mcs, AmcAck, AmcNack, AmcStart

\* The counter stays a 16-bit number.
LEMMA NextSeqTyped ==
    ASSUME NEW n \in Node, seq[n] \in SeqNo
    PROVE  NextSeq(n) \in SeqNo
BY MacAssumption DEF NextSeq, SeqNo

\* The type field tells the kinds of frames apart.
LEMMA FrameKinds ==
    ASSUME NEW f \in Frame
    PROVE  /\ f.type = "AREQ" => f \in AreqFrame
           /\ f.type = "ACK" => f \in AckFrame
           /\ f.type \in {"NACK", "PROBE"} => f \in ForeignFrame
BY DEF Frame, AreqFrame, AckFrame, ForeignFrame

\* Requests and probes are answered with a well-formed ACK.
LEMMA AckForTyped ==
    ASSUME NEW n \in Node, NEW f \in AreqFrame \cup ForeignFrame
    PROVE  AckFor(n, f) \in AckFrame
BY DEF AckFor, AckFrame, AreqFrame, ForeignFrame

\* What the receive thread takes from its inbox.
LEMMA ReceivesTyped ==
    ASSUME TypeRx, NEW n \in Node, NEW t, Receives(n, t)
    PROVE  /\ Head(inbox[n]) \in Frame
           /\ Head(inbox[n]).type = t
           /\ inbox' \in [Node -> Seq(Frame)]
<1>1. inbox[n] \in Seq(Frame) /\ inbox[n] # <<>>
  BY DEF TypeRx, Receives
<1>2. Head(inbox[n]) \in Frame /\ Tail(inbox[n]) \in Seq(Frame)
  BY <1>1, TailFacts
<1> QED
  BY <1>2 DEF TypeRx, Receives

\* What the radio adds to the inboxes.
LEMMA TransmitTyped ==
    ASSUME TypeRx, NEW n \in Node, NEW f \in Frame, Transmit(n, f)
    PROVE  inbox' \in [Node -> Seq(Frame)]
<1>1. \A k \in Node : inbox[k] \in Seq(Frame) /\ Append(inbox[k], f) \in Seq(Frame)
  BY AppendFacts DEF TypeRx
<1> QED
  BY <1>1 DEF Transmit

\* An ACK is queued only if there is room.
LEMMA SendControlTyped ==
    ASSUME TypeTx, NEW n \in Node, NEW f \in AckFrame, SendControl(n, f)
    PROVE  /\ ctrlQ' \in [Node -> Seq(AckFrame)]
           /\ \A k \in Node : Len(ctrlQ'[k]) <= ControlCap
<1>1. /\ ctrlQ[n] \in Seq(AckFrame) /\ Len(ctrlQ[n]) \in Nat
      /\ Append(ctrlQ[n], f) \in Seq(AckFrame)
      /\ Len(Append(ctrlQ[n], f)) = Len(ctrlQ[n]) + 1
  BY AppendFacts, LenProperties DEF TypeTx
<1>2. CASE Len(ctrlQ[n]) < ControlCap
  BY <1>1, <1>2, MacAssumption DEF SendControl, TypeTx
<1>3. CASE ~(Len(ctrlQ[n]) < ControlCap)
  BY <1>3 DEF SendControl, TypeTx
<1> QED
  BY <1>2, <1>3

(* What a caller listens for is an attempt of one of its calls. *)
LEMMA ListeningTyped ==
    ASSUME TypeCaller, NEW n \in Node
    PROVE  Listening(n) \subseteq Msg \X (0..MaxRetries)
<1> SUFFICES ASSUME NEW c \in CallersOf(n), pc[c] # "idle"
             PROVE  <<Current(c), attempt[c]>> \in Msg \X (0..MaxRetries)
  BY DEF Listening
<1>1. c \in Caller
  BY DEF CallersOf
<1>2. calls[c] \in 1..CallLimit
  BY <1>1, MacAssumption DEF TypeCaller
<1>3. attempt[c] \in 0..MaxRetries
  BY <1>1 DEF TypeCaller
<1> QED
  BY <1>1, <1>2, <1>3 DEF Current, Msg

LEMMA InitType == Init => TypeOK
BY MacAssumption, AmcAssumption, FrameAssumption, EmptyFacts, EmptySeq
   DEF Init, TypeOK, TypeCaller, TypeMac, TypeTx, TypeRx, TypeHist, Amc, AmcStart, SeqNo, Msg

LEMMA NextType == TypeOK /\ [Next]_vars => TypeOK'
<1> SUFFICES ASSUME TypeOK, [Next]_vars PROVE TypeOK'
  OBVIOUS
<1> USE MacAssumption, FrameAssumption DEF TypeOK
<1>a. UNCHANGED callerVars => TypeCaller'
  BY DEF TypeCaller, callerVars
<1>b. UNCHANGED <<seq, ackVars, amc>> => TypeMac'
  BY DEF TypeMac, ackVars
<1>c. UNCHANGED <<queueVars, txVars>> => TypeTx'
  BY DEF TypeTx, queueVars, txVars
<1>d. UNCHANGED rxVars => TypeRx'
  BY DEF TypeRx, rxVars
<1>e. UNCHANGED <<histVars, envVars>> => TypeHist'
  BY DEF TypeHist, histVars, envVars
<1>1. ASSUME NEW c \in Caller, Call(c) PROVE TypeOK'
  <2>1. TypeCaller'
    <3>1. <<c, calls[c] + 1>> \in Msg /\ calls[c] + 1 \in 1..CallLimit
      BY <1>1 DEF Call, TypeCaller, Msg
    <3>2. frame'[c] \in AreqFrame /\ frame' = [frame EXCEPT ![c] = frame'[c]]
      BY <1>1, <3>1 DEF Call, TypeCaller, TypeMac, AreqFrame
    <3>3. frame'[c] # None
      BY <3>2 DEF Frame
    <3>4. 1 \in 0..MaxRetries
      OBVIOUS
    <3> QED
      BY <1>1, <3>1, <3>2, <3>3, <3>4 DEF Call, TypeCaller
  <2>2. TypeMac'
    BY <1>1, NextSeqTyped DEF Call, TypeMac, ackVars
  <2>3. TypeHist'
    <3>1. <<c, calls[c] + 1>> \in Msg /\ seq[NodeOf[c]] \in SeqNo
      BY <1>1 DEF Call, TypeCaller, TypeMac, Msg
    <3> QED
      BY <1>1, <3>1 DEF Call, TypeHist, envVars
  <2> QED
    BY <1>1, <2>1, <2>2, <2>3, <1>c, <1>d DEF Call, callerVars, ackVars, queueVars, txVars, rxVars, histVars, envVars
<1>2. ASSUME NEW c \in Caller, Arm(c) PROVE TypeOK'
  <2>1. TypeCaller'
    BY <1>2 DEF Arm, TypeCaller, callerVars
  <2>2. TypeMac'
    BY <1>2 DEF Arm, TypeMac, TypeCaller
  <2> QED
    BY <1>2, <2>1, <2>2, <1>c, <1>d, <1>e DEF Arm, callerVars, ackVars, queueVars, txVars, rxVars, histVars, envVars
<1>3. ASSUME NEW c \in Caller, ClearEvt(c) PROVE TypeOK'
  <2>1. TypeCaller'
    BY <1>3 DEF ClearEvt, TypeCaller, callerVars
  <2>2. TypeMac'
    BY <1>3 DEF ClearEvt, TypeMac, ackVars
  <2> QED
    BY <1>3, <2>1, <2>2, <1>c, <1>d, <1>e DEF ClearEvt, callerVars, ackVars, queueVars, txVars, rxVars, histVars, envVars
<1>4. ASSUME NEW c \in Caller, PutData(c) PROVE TypeOK'
  <2>1. TypeCaller'
    BY <1>4 DEF PutData, TypeCaller, callerVars
  <2>2. TypeTx'
    <3> DEFINE n == NodeOf[c]
    <3>1. n \in Node /\ frame[c] \in AreqFrame
      BY <1>4 DEF PutData, TypeCaller
    <3>2. /\ dataQ[n] \in Seq(AreqFrame) /\ Len(dataQ[n]) \in Nat
          /\ Append(dataQ[n], frame[c]) \in Seq(AreqFrame)
          /\ Len(Append(dataQ[n], frame[c])) = Len(dataQ[n]) + 1
      BY <3>1, AppendFacts, LenProperties DEF TypeTx
    <3> QED
      BY <1>4, <3>1, <3>2 DEF PutData, TypeTx, txVars
  <2> QED
    BY <1>4, <2>1, <2>2, <1>b, <1>d, <1>e DEF PutData, callerVars, ackVars, queueVars, txVars, rxVars, histVars, envVars
<1>5. ASSUME NEW c \in Caller, EnterWait(c) PROVE TypeOK'
  <2>1. TypeCaller'
    BY <1>5 DEF EnterWait, TypeCaller, callerVars
  <2> QED
    BY <1>5, <2>1, <1>b, <1>c, <1>d, <1>e DEF EnterWait, callerVars, ackVars, queueVars, txVars, rxVars, histVars, envVars
<1>6. ASSUME NEW c \in Caller, Timeout(c) PROVE TypeOK'
  <2>1. TypeCaller'
    BY <1>6 DEF Timeout, TypeCaller, callerVars
  <2> QED
    BY <1>6, <2>1, <1>b, <1>c, <1>d, <1>e DEF Timeout, callerVars, ackVars, queueVars, txVars, rxVars, histVars, envVars
<1>7. ASSUME NEW c \in Caller, ReturnTrue(c) PROVE TypeOK'
  <2>1. TypeCaller'
    BY <1>7 DEF ReturnTrue, TypeCaller, callerVars
  <2>2. TypeMac'
    BY <1>7, AmcTyped DEF ReturnTrue, TypeMac, ackVars
  <2> QED
    BY <1>7, <2>1, <2>2, <1>c, <1>d, <1>e DEF ReturnTrue, callerVars, ackVars, queueVars, txVars, rxVars, histVars, envVars
<1>8. ASSUME NEW c \in Caller, ReturnFalse(c) PROVE TypeOK'
  <2>1. TypeCaller'
    BY <1>8 DEF ReturnFalse, TypeCaller, callerVars
  <2>2. TypeMac'
    BY <1>8, AmcTyped DEF ReturnFalse, TypeMac
  <2> QED
    BY <1>8, <2>1, <2>2, <1>c, <1>d, <1>e DEF ReturnFalse, callerVars, ackVars, queueVars, txVars, rxVars, histVars, envVars
<1>9. ASSUME NEW n \in Node, SendDatagram(n) PROVE TypeOK'
  <2>1. TypeMac'
    BY <1>9, NextSeqTyped DEF SendDatagram, TypeMac, ackVars
  <2>2. TypeTx'
    BY <1>9 DEF SendDatagram, TypeTx, queueVars, txVars
  <2>3. TypeHist'
    BY <1>9 DEF SendDatagram, TypeHist, histVars, envVars
  <2> QED
    BY <1>9, <2>1, <2>2, <2>3, <1>a, <1>d DEF SendDatagram, callerVars, ackVars, queueVars, txVars, rxVars, histVars, envVars
<1>10. ASSUME NEW n \in Node, TxControl(n) PROVE TypeOK'
  <2>1. TypeTx'
    BY <1>10 DEF TxControl, TypeTx, queueVars, txVars
  <2>2. TypeRx'
    <3>1. Head(ctrlQ[n]) \in Frame
      BY <1>10, TailFacts DEF TxControl, TypeTx, Frame
    <3> QED
      BY <1>10, <3>1, TransmitTyped DEF TxControl, TypeRx
  <2> QED
    BY <1>10, <2>1, <2>2, <1>a, <1>b, <1>e DEF TxControl, callerVars, ackVars, queueVars, txVars, rxVars, histVars, envVars
<1>11. ASSUME NEW n \in Node, TxVideo(n) PROVE TypeOK'
  <2>1. TypeTx'
    BY <1>11 DEF TxVideo, TypeTx, queueVars, txVars
  <2> QED
    BY <1>11, <2>1, <1>a, <1>b, <1>d, <1>e DEF TxVideo, callerVars, ackVars, queueVars, txVars, rxVars, histVars, envVars
<1>12. ASSUME NEW n \in Node, TxData(n) PROVE TypeOK'
  <2>1. TypeTx'
    BY <1>12 DEF TxData, TypeTx, queueVars, txVars
  <2>2. TypeRx'
    <3>1. Head(dataQ[n]) \in Frame
      BY <1>12, TailFacts DEF TxData, TypeTx, Frame
    <3>2. inbox' \in [Node -> Seq(Frame)]
      BY <1>12, <3>1, TransmitTyped DEF TxData, TypeRx
    <3> QED
      BY <1>12, <3>2 DEF TxData, TypeRx
  <2> QED
    BY <1>12, <2>1, <2>2, <1>a, <1>b, <1>e DEF TxData, callerVars, ackVars, queueVars, txVars, rxVars, histVars, envVars
<1>13. ASSUME NEW n \in Node, TxMiss(n) PROVE TypeOK'
  <2>1. TypeTx'
    BY <1>13 DEF TxMiss, TypeTx, queueVars, txVars
  <2> QED
    BY <1>13, <2>1, <1>a, <1>b, <1>d, <1>e DEF TxMiss, callerVars, ackVars, queueVars, txVars, rxVars, histVars, envVars
<1>14. ASSUME NEW n \in Node, RxAreq(n) PROVE TypeOK'
  <2>1. TypeTx'
    <3>1. Head(inbox[n]) \in AreqFrame /\ inbox' \in [Node -> Seq(Frame)]
      BY <1>14, ReceivesTyped, FrameKinds DEF RxAreq

    <3>2. AckFor(n, Head(inbox[n])) \in AckFrame
      BY <3>1, AckForTyped
    <3> QED
      BY <1>14, <3>2, SendControlTyped DEF RxAreq, TypeTx, txVars
  <2>2. TypeRx'
    <3>1. Head(inbox[n]) \in AreqFrame /\ inbox' \in [Node -> Seq(Frame)]
      BY <1>14, ReceivesTyped, FrameKinds DEF RxAreq

    <3>2. Head(inbox[n]).msg \in Msg
      BY <3>1 DEF AreqFrame
    <3> QED
      BY <1>14, <3>1, <3>2 DEF RxAreq, TypeRx
  <2>3. TypeHist'
    <3>1. Head(inbox[n]) \in AreqFrame /\ inbox' \in [Node -> Seq(Frame)]
      BY <1>14, ReceivesTyped, FrameKinds DEF RxAreq

    <3>2. Head(inbox[n]).msg \in Msg
      BY <3>1 DEF AreqFrame
    <3> QED
      BY <1>14, <3>2 DEF RxAreq, TypeHist, envVars
  <2> QED
    BY <1>14, <2>1, <2>2, <2>3, <1>a, <1>b DEF RxAreq, callerVars, ackVars, queueVars, txVars, rxVars, histVars, envVars
<1>15. ASSUME NEW n \in Node, RxDeliver(n) PROVE TypeOK'
  <2>1. TypeRx'
    BY <1>15 DEF RxDeliver, TypeRx, rxVars
  <2>2. TypeHist'
    <3>1. rxMsg[n] \in Msg
      BY <1>15 DEF RxDeliver, TypeRx
    <3>2. Append(delivered[n], rxMsg[n]) \in Seq(Msg)
      BY <3>1, AppendFacts DEF TypeHist
    <3> QED
      BY <1>15, <3>2 DEF RxDeliver, TypeHist, envVars
  <2> QED
    BY <1>15, <2>1, <2>2, <1>a, <1>b, <1>c DEF RxDeliver, callerVars, ackVars, queueVars, txVars, rxVars, histVars, envVars
<1>16. ASSUME NEW n \in Node, RxProbe(n) PROVE TypeOK'
  <2>1. TypeTx'
    <3>1. Head(inbox[n]) \in ForeignFrame
      BY <1>16, ReceivesTyped, FrameKinds DEF RxProbe
    <3>2. AckFor(n, Head(inbox[n])) \in AckFrame
      BY <3>1, AckForTyped
    <3> QED
      BY <1>16, <3>2, SendControlTyped DEF RxProbe, TypeTx, txVars
  <2>2. TypeRx'
    BY <1>16, ReceivesTyped DEF RxProbe, TypeRx
  <2> QED
    BY <1>16, <2>1, <2>2, <1>a, <1>b, <1>e DEF RxProbe, callerVars, ackVars, queueVars, txVars, rxVars, histVars, envVars
<1>17. ASSUME NEW n \in Node, RxAck(n) PROVE TypeOK'
  <2>1. TypeMac'
    BY <1>17 DEF RxAck, TypeMac, ackVars
  <2>2. TypeRx'
    <3>1. inbox' \in [Node -> Seq(Frame)]
      BY <1>17, ReceivesTyped DEF RxAck
    <3> QED
      BY <1>17, <3>1 DEF RxAck, TypeRx
  <2>3. TypeHist'
    <3>1. Matches(n, Head(inbox[n])) => pending[n].msg \in Msg
      BY DEF Matches, TypeMac, AreqFrame
    <3>2. CASE Matches(n, Head(inbox[n]))
      <4>1. PICK A \in SUBSET (Msg \X (0..MaxRetries)) : heard' = [heard EXCEPT ![n] = A]
        BY <1>17, <3>2, ListeningTyped DEF RxAck
      <4>2. heard' \in [Node -> SUBSET (Msg \X (0..MaxRetries))]
        BY <4>1 DEF TypeHist
      <4>3. PICK m \in Msg : acked' = acked \cup {m}
        BY <1>17, <3>1, <3>2 DEF RxAck
      <4>4. wakeups' = [wakeups EXCEPT ![n] = @ + 1]
        BY <1>17, <3>2 DEF RxAck
      <4>5. wakeups' \in [Node -> Nat]
        BY <4>4 DEF TypeHist
      <4>6. UNCHANGED <<owner, accepted, ackedInTime, delivered, envVars>>
        BY <1>17 DEF RxAck
      <4> QED
        BY <4>2, <4>3, <4>5, <4>6 DEF TypeHist, envVars
    <3>3. CASE ~Matches(n, Head(inbox[n]))
      BY <1>17, <3>3 DEF RxAck, TypeHist, envVars
    <3> QED
      BY <3>2, <3>3
  <2> QED
    BY <1>17, <2>1, <2>2, <2>3, <1>a, <1>c DEF RxAck, callerVars, ackVars, queueVars, txVars, rxVars, histVars, envVars
<1>18. ASSUME NEW n \in Node, RxNack(n) PROVE TypeOK'
  <2>1. TypeMac'
    BY <1>18, AmcTyped DEF RxNack, TypeMac, ackVars
  <2>2. TypeRx'
    <3>1. inbox' \in [Node -> Seq(Frame)]
      BY <1>18, ReceivesTyped DEF RxNack
    <3> QED
      BY <1>18, <3>1 DEF RxNack, TypeRx
  <2>3. TypeHist'
    <3>1. wakeups' = wakeups \/ wakeups' = [wakeups EXCEPT ![n] = @ + 1]
      BY <1>18 DEF RxNack
    <3>2. wakeups \in [Node -> Nat] /\ n \in Node
      BY DEF TypeHist
    <3>3. wakeups' \in [Node -> Nat]
      <4>1. CASE wakeups' = wakeups
        BY <3>2, <4>1
      <4>2. CASE wakeups' = [wakeups EXCEPT ![n] = @ + 1]
        BY <3>2, <4>2
      <4> QED
        BY <3>1, <4>1, <4>2
    <3>4. UNCHANGED <<owner, accepted, acked, heard, ackedInTime, delivered, envVars>>
      BY <1>18 DEF RxNack
    <3> QED
      BY <3>3, <3>4 DEF TypeHist, envVars
  <2> QED
    BY <1>18, <2>1, <2>2, <2>3, <1>a, <1>c DEF RxNack, callerVars, ackVars, queueVars, txVars, rxVars, histVars, envVars
<1>19. ASSUME NEW n \in Node, RxSet(n) PROVE TypeOK'
  <2>1. TypeCaller'
    BY <1>19 DEF RxSet, TypeCaller, callerVars
  <2>2. TypeMac'
    BY <1>19 DEF RxSet, TypeMac, ackVars
  <2>3. TypeRx'
    BY <1>19 DEF RxSet, TypeRx, rxVars
  <2>4. TypeHist'
    <3>1. {x[1] : x \in heard[n] \cap Listening(n)} \subseteq Msg
      BY DEF TypeHist
    <3>2. ackedInTime' \subseteq Msg
      BY <1>19, <3>1 DEF RxSet, TypeHist
    <3>3. heard' \in [Node -> SUBSET (Msg \X (0..MaxRetries))]
      BY <1>19 DEF RxSet, TypeHist
    <3>4. UNCHANGED <<owner, accepted, acked, delivered, wakeups, envVars>>
      BY <1>19 DEF RxSet
    <3> QED
      BY <3>2, <3>3, <3>4 DEF TypeHist, envVars
  <2> QED
    BY <1>19, <2>1, <2>2, <2>3, <2>4, <1>c DEF RxSet, callerVars, ackVars, queueVars, txVars, rxVars, histVars, envVars
<1>20. ASSUME NEW n \in Node, RxIgnore(n) PROVE TypeOK'
  <2>1. TypeRx'
    BY <1>20 DEF RxIgnore, TypeRx, rxVars
  <2> QED
    BY <1>20, <2>1, <1>a, <1>b, <1>c, <1>e DEF RxIgnore, callerVars, ackVars, queueVars, txVars, rxVars, histVars, envVars
<1>21. ASSUME NEW n \in Node, Foreign(n) PROVE TypeOK'
  <2>1. TypeRx'
    <3>1. PICK f \in ForeignFrame : inbox' = [inbox EXCEPT ![n] = Append(@, f)]
      BY <1>21 DEF Foreign
    <3>2. f \in Frame /\ inbox[n] \in Seq(Frame)
      BY DEF Frame, TypeRx
    <3>3. inbox' \in [Node -> Seq(Frame)]
      BY <3>1, <3>2, AppendFacts DEF TypeRx
    <3> QED
      BY <1>21, <3>3 DEF Foreign, TypeRx
  <2>2. TypeHist'
    BY <1>21 DEF Foreign, TypeHist, histVars, envVars
  <2> QED
    BY <1>21, <2>1, <2>2, <1>a, <1>b, <1>c DEF Foreign, callerVars, ackVars, queueVars, txVars, rxVars, histVars, envVars
<1>22. CASE UNCHANGED vars
  BY <1>22, <1>a, <1>b, <1>c, <1>d, <1>e DEF vars
<1> QED
  BY <1>1, <1>2, <1>3, <1>4, <1>5, <1>6, <1>7, <1>8, <1>9, <1>10, <1>11, <1>12, <1>13, <1>14, <1>15, <1>16, <1>17, <1>18, <1>19, <1>20, <1>21, <1>22 DEF Next, CallerStep, TxStep, RxStep

\* Type correctness: whatever the interleaving of callers, TX workers,
\* receive threads and radio losses, the queues keep to their sizes and hold
\* frames of their class, and no thread uses a frame or payload it lacks.
THEOREM TypeCorrect == Spec => []TypeOK
BY InitType, NextType, PTL DEF Spec

-----------------------------------------------------------------------------
(* AckTruthful.  On its own it is not inductive: that a matched ACK is one *)
(* for the pending frame follows from the owner of each sequence number.   *)
(* Every request in flight and every ACK of one still belongs to the call  *)
(* its number was last given to, and so does the pending frame.            *)

Faithful(f) ==
    /\ f.type = "AREQ" => owner[f.src][f.seq] = f.msg
    /\ f.type = "ACK" /\ f.dst \in Node =>
          owner[f.dst][f.seq] = f.msg /\ f.msg \in accepted

FlightInv == \A f \in InFlight : Faithful(f)

PendingInv == \A n \in Node : pending[n] # None =>
    pending[n].src = n /\ owner[n][pending[n].seq] = pending[n].msg

CallInv == \A c \in Caller : pc[c] # "idle" =>
    frame[c].src = NodeOf[c] /\ owner[NodeOf[c]][frame[c].seq] = frame[c].msg

AckInv == TypeOK /\ FlightInv /\ PendingInv /\ CallInv /\ AckTruthful

\* The frames in flight before and after a step, by place.
LEMMA Places ==
    ASSUME NEW f
    PROVE  /\ f \in InFlight <=> \E k \in Node : \/ f \in Range(ctrlQ[k])
                                               \/ f \in Range(dataQ[k])
                                               \/ f \in Range(inbox[k])
           /\ f \in InFlight' <=> \E k \in Node : \/ f \in Range(ctrlQ'[k])
                                                \/ f \in Range(dataQ'[k])
                                                \/ f \in Range(inbox'[k])
BY DEF InFlight

\* A step that leaves the queues alone, or only takes frames out of the
\* inbox of a node, adds nothing.
LEMMA FlightUnchanged ==
    ASSUME ctrlQ' = ctrlQ, dataQ' = dataQ, inbox' = inbox
    PROVE  InFlight' = InFlight
BY DEF InFlight

LEMMA FlightReceived ==
    ASSUME TypeOK, NEW n \in Node, inbox[n] # <<>>,
           inbox' = [inbox EXCEPT ![n] = Tail(@)], dataQ' = dataQ
    PROVE  /\ Head(inbox[n]) \in InFlight
           /\ ctrlQ' = ctrlQ => InFlight' \subseteq InFlight
           /\ \A x \in AckFrame :
                 SendControl(n, x) => InFlight' \subseteq InFlight \cup {x}
<1>1. inbox[n] \in Seq(Frame) /\ inbox \in [Node -> Seq(Frame)]
  BY DEF TypeOK, TypeRx
<1>2. Head(inbox[n]) \in Range(inbox[n]) /\ Range(Tail(inbox[n])) \subseteq Range(inbox[n])
  BY <1>1, TailFacts
<1>3. \A k \in Node : Range(inbox'[k]) \subseteq Range(inbox[k])
  BY <1>1, <1>2
<1>4. Head(inbox[n]) \in InFlight
  BY <1>2, Places
<1>5. ctrlQ' = ctrlQ => InFlight' \subseteq InFlight
  BY <1>3, Places
<1>6. ASSUME NEW x \in AckFrame, SendControl(n, x)
      PROVE  InFlight' \subseteq InFlight \cup {x}
  <2>1. ctrlQ \in [Node -> Seq(AckFrame)]
    BY DEF TypeOK, TypeTx
  <2>2. Range(Append(ctrlQ[n], x)) = Range(ctrlQ[n]) \cup {x}
    BY <2>1, AppendFacts
  <2>3. \A k \in Node : Range(ctrlQ'[k]) \subseteq Range(ctrlQ[k]) \cup {x}
    BY <1>6, <2>1, <2>2 DEF SendControl
  <2> QED
    BY <1>3, <2>3, Places
<1> QED
  BY <1>4, <1>5, <1>6

\* What the radio delivers was in the queue it was taken from.
LEMMA FlightSent ==
    ASSUME TypeOK, NEW n \in Node, NEW f \in Frame, NEW q,
           Transmit(n, f) \/ inbox' = inbox,
           \/ q = ctrlQ /\ ctrlQ' = [ctrlQ EXCEPT ![n] = Tail(@)] /\ dataQ' = dataQ
           \/ q = dataQ /\ dataQ' = [dataQ EXCEPT ![n] = Tail(@)] /\ ctrlQ' = ctrlQ,
           q[n] # <<>>, f = Head(q[n])
    PROVE  f \in InFlight /\ InFlight' \subseteq InFlight
<1>1. /\ ctrlQ \in [Node -> Seq(AckFrame)] /\ dataQ \in [Node -> Seq(AreqFrame)]
      /\ inbox \in [Node -> Seq(Frame)]
  BY DEF TypeOK, TypeTx, TypeRx
<1>2. f \in Range(q[n]) /\ Range(Tail(q[n])) \subseteq Range(q[n])
  BY <1>1, TailFacts
<1>3. f \in InFlight
  BY <1>2, Places
<1>4. \A k \in Node : /\ Range(ctrlQ'[k]) \subseteq Range(ctrlQ[k])
                      /\ Range(dataQ'[k]) \subseteq Range(dataQ[k])
  BY <1>1, <1>2
<1>5. \A k \in Node : Range(inbox'[k]) \subseteq Range(inbox[k]) \cup {f}
  <2>1. \A k \in Node : Range(Append(inbox[k], f)) = Range(inbox[k]) \cup {f}
    BY <1>1, AppendFacts
  <2> QED
    BY <2>1 DEF Transmit
<1> QED
  BY <1>3, <1>4, <1>5, Places

\* Frames that stay faithful: nothing is forgotten as long as the owner of
\* their number stays.
LEMMA FaithfulKept ==
    ASSUME NEW f, Faithful(f), owner' = owner, accepted \subseteq accepted'
    PROVE  Faithful(f)'
BY DEF Faithful

LEMMA InitAck == Init => AckInv
<1> SUFFICES ASSUME Init PROVE AckInv
  OBVIOUS
<1>1. InFlight = {}
  BY EmptyFacts DEF Init, InFlight
<1> QED
  BY <1>1, InitType DEF Init, AckInv, FlightInv, PendingInv, CallInv, AckTruthful

\* A new call takes over a number that nothing in flight uses.
LEMMA CallAck ==
    ASSUME AckInv, TypeOK', NEW c \in Caller, Call(c)
    PROVE  AckInv'
<1> DEFINE n == NodeOf[c]
<1> USE MacAssumption, FrameAssumption
<1>1. /\ n \in Node /\ seq[n] \in SeqNo /\ owner \in [Node -> [SeqNo -> Msg \cup {None}]]
      /\ pending \in [Node -> AreqFrame \cup {None}]
      /\ frame \in [Caller -> AreqFrame \cup {None}]
      /\ pc \in [Caller -> {"idle", "arm", "clear", "put", "enter", "waiting",
                            "woken", "giveUp"}]
  BY DEF AckInv, TypeOK, TypeCaller, TypeMac, TypeHist
<1>2. \A k \in Node : \A s : k # n \/ s # seq[n] => owner'[k][s] = owner[k][s]
  BY <1>1 DEF Call
<1>3. InFlight' = InFlight
  BY FlightUnchanged DEF Call, queueVars, rxVars
<1>4. FlightInv'
  <2>1. SUFFICES ASSUME NEW f \in InFlight PROVE Faithful(f)'
    BY <1>3 DEF FlightInv
  <2>2. Faithful(f) /\ ~Uses(f, n, seq[n]) /\ f \in Frame
    <3>1. Faithful(f) /\ ~Uses(f, n, seq[n])
      BY DEF AckInv, FlightInv, Call, Fresh
    <3>2. \A k \in Node : /\ ctrlQ[k] \in Seq(AckFrame) /\ dataQ[k] \in Seq(AreqFrame)
                          /\ inbox[k] \in Seq(Frame)
      BY DEF AckInv, TypeOK, TypeTx, TypeRx
    <3>3. \A k \in Node : /\ Range(ctrlQ[k]) \subseteq AckFrame
                          /\ Range(dataQ[k]) \subseteq AreqFrame
                          /\ Range(inbox[k]) \subseteq Frame
      BY <3>2, RangeOfSeq
    <3> QED
      BY <3>1, <3>3, Places DEF Frame
  <2>3. f.type = "AREQ" => f.src \in Node
    BY <2>2, FrameKinds DEF AreqFrame
  <2>4. accepted' = accepted
    BY DEF Call
  <2> QED
    BY <1>2, <2>2, <2>3, <2>4 DEF Faithful, Uses
<1>5. PendingInv'
  <2>1. pending' = pending /\ (pending[n] # None => pending[n].seq # seq[n])
    BY DEF Call, ackVars, Fresh
  <2> QED
    BY <1>2, <2>1 DEF PendingInv, AckInv
<1>6. CallInv'
  <2>1. SUFFICES ASSUME NEW e \in Caller, pc'[e] # "idle"
                 PROVE  /\ frame'[e].src = NodeOf[e]
                        /\ owner'[NodeOf[e]][frame'[e].seq] = frame'[e].msg
    BY DEF CallInv
  <2>2. CASE e = c
    <3>1. frame'[c] = [type |-> "AREQ", seq |-> seq[n], src |-> n,
                       dst |-> Dest[c], msg |-> <<c, calls[c] + 1>>]
      BY <1>1 DEF Call
    <3>2. owner'[n][seq[n]] = <<c, calls[c] + 1>>
      BY <1>1 DEF Call
    <3> QED
      BY <2>2, <3>1, <3>2
  <2>3. CASE e # c
    <3>1. frame'[e] = frame[e] /\ pc[e] # "idle"
      BY <1>1, <2>1, <2>3 DEF Call
    <3>2. NodeOf[e] = n => frame[e].seq # seq[n]
      BY <3>1 DEF Call, Fresh, CallersOf
    <3> QED
      BY <1>2, <3>1, <3>2 DEF CallInv, AckInv
  <2> QED
    BY <2>2, <2>3
<1>7. AckTruthful'
  BY DEF AckInv, AckTruthful, Call
<1> QED
  BY <1>4, <1>5, <1>6, <1>7 DEF AckInv

\* The other steps leave the owners alone, so that only new frames, a new
\* pending frame and a match have to be looked at.
LEMMA StepAck ==
    ASSUME AckInv, TypeOK', [Next]_vars, \A c \in Caller : ~Call(c)
    PROVE  AckInv'
<1> USE MacAssumption, FrameAssumption
<1>0. TypeOK /\ FlightInv /\ PendingInv /\ CallInv /\ AckTruthful
  BY DEF AckInv
<1>o. owner' = owner /\ accepted \subseteq accepted' /\ frame' = frame
  BY DEF Next, CallerStep, TxStep, RxStep, vars, callerVars, histVars, Arm, ClearEvt,
         PutData, EnterWait, Timeout, ReturnTrue, ReturnFalse, SendDatagram, TxControl,
         TxVideo, TxData, TxMiss, RxAreq, RxDeliver, RxProbe, RxAck, RxNack, RxSet,
         RxIgnore, Foreign
<1>k. ASSUME InFlight' \subseteq InFlight PROVE FlightInv'
  BY <1>0, <1>o, <1>k, FaithfulKept DEF FlightInv
<1>n. ASSUME NEW x, InFlight' \subseteq InFlight \cup {x}, Faithful(x)' PROVE FlightInv'
  BY <1>0, <1>o, <1>n, FaithfulKept DEF FlightInv
<1>p. ASSUME pending' = pending PROVE PendingInv'
  BY <1>0, <1>o, <1>p DEF PendingInv
<1>c. ASSUME \A c \in Caller : pc'[c] # "idle" => pc[c] # "idle" PROVE CallInv'
  BY <1>0, <1>o, <1>c DEF CallInv
<1>a. ASSUME acked' = acked PROVE AckTruthful'
  BY <1>0, <1>o, <1>a DEF AckTruthful
<1>q. AckInv' <=> FlightInv' /\ PendingInv' /\ CallInv' /\ AckTruthful'
  BY DEF AckInv
<1>pc. pc \in [Caller -> {"idle", "arm", "clear", "put", "enter", "waiting",
                          "woken", "giveUp"}]
  BY <1>0 DEF TypeOK, TypeCaller
<1>1. ASSUME NEW c \in Caller, Arm(c) PROVE AckInv'
  <2>1. InFlight' = InFlight
    BY <1>1, FlightUnchanged DEF Arm, queueVars, rxVars
  <2>2. pending \in [Node -> AreqFrame \cup {None}]
    BY <1>0 DEF TypeOK, TypeMac
  <2>3. PendingInv'
    BY <1>1, <1>0, <1>o, <2>2 DEF PendingInv, CallInv, Arm
  <2> QED
    BY <1>1, <2>1, <2>3, <1>k, <1>c, <1>a, <1>q, <1>pc DEF Arm, histVars
<1>2. ASSUME NEW c \in Caller, ClearEvt(c) PROVE AckInv'
  <2>1. InFlight' = InFlight
    BY <1>2, FlightUnchanged DEF ClearEvt, queueVars, rxVars
  <2> QED
    BY <1>2, <2>1, <1>k, <1>p, <1>c, <1>a, <1>q, <1>pc DEF ClearEvt, callerVars, ackVars, queueVars, txVars, rxVars, histVars
<1>3. ASSUME NEW c \in Caller, PutData(c) PROVE AckInv'
  <2> DEFINE n == NodeOf[c]
  <2>1. n \in Node /\ frame[c] \in AreqFrame /\ dataQ \in [Node -> Seq(AreqFrame)]
    BY <1>3, <1>0 DEF PutData, TypeOK, TypeCaller, TypeTx
  <2>2. Range(Append(dataQ[n], frame[c])) = Range(dataQ[n]) \cup {frame[c]}
    BY <2>1, AppendFacts
  <2>3. \A k \in Node : Range(dataQ'[k]) \subseteq Range(dataQ[k]) \cup {frame[c]}
    BY <1>3, <2>1, <2>2 DEF PutData
  <2>4. InFlight' \subseteq InFlight \cup {frame[c]}
    BY <1>3, <2>3, Places DEF PutData, rxVars
  <2>5. Faithful(frame[c])'
    BY <1>3, <1>0, <1>o, <2>1 DEF CallInv, PutData, Faithful, AreqFrame
  <2> QED
    BY <1>3, <2>4, <2>5, <1>n, <1>p, <1>c, <1>a, <1>q, <1>pc DEF PutData, ackVars, histVars
<1>4. ASSUME NEW c \in Caller, EnterWait(c) PROVE AckInv'
  <2>1. InFlight' = InFlight
    BY <1>4, FlightUnchanged DEF EnterWait, queueVars, rxVars
  <2> QED
    BY <1>4, <2>1, <1>k, <1>p, <1>c, <1>a, <1>q, <1>pc DEF EnterWait, callerVars, ackVars, queueVars, txVars, rxVars, histVars
<1>5. ASSUME NEW c \in Caller, Timeout(c) PROVE AckInv'
  <2>1. InFlight' = InFlight
    BY <1>5, FlightUnchanged DEF Timeout, queueVars, rxVars
  <2> QED
    BY <1>5, <2>1, <1>k, <1>p, <1>c, <1>a, <1>q, <1>pc DEF Timeout, callerVars, ackVars, queueVars, txVars, rxVars, histVars
<1>6. ASSUME NEW c \in Caller, ReturnTrue(c) PROVE AckInv'
  <2>1. InFlight' = InFlight
    BY <1>6, FlightUnchanged DEF ReturnTrue, queueVars, rxVars
  <2> QED
    BY <1>6, <2>1, <1>k, <1>p, <1>c, <1>a, <1>q, <1>pc DEF ReturnTrue, callerVars, ackVars, queueVars, txVars, rxVars, histVars
<1>7. ASSUME NEW c \in Caller, ReturnFalse(c) PROVE AckInv'
  <2>1. InFlight' = InFlight
    BY <1>7, FlightUnchanged DEF ReturnFalse, queueVars, rxVars
  <2>2. pending \in [Node -> AreqFrame \cup {None}]
    BY <1>0 DEF TypeOK, TypeMac
  <2>3. PendingInv'
    BY <1>7, <1>0, <1>o, <2>2 DEF PendingInv, ReturnFalse
  <2> QED
    BY <1>7, <2>1, <2>3, <1>k, <1>c, <1>a, <1>q, <1>pc DEF ReturnFalse, histVars
<1>8. ASSUME NEW n \in Node, SendDatagram(n) PROVE AckInv'
  <2>1. InFlight' = InFlight
    BY <1>8, FlightUnchanged DEF SendDatagram, queueVars, rxVars
  <2> QED
    BY <1>8, <2>1, <1>k, <1>p, <1>c, <1>a, <1>q, <1>pc DEF SendDatagram, callerVars, ackVars, queueVars, txVars, rxVars, histVars
<1>9. ASSUME NEW n \in Node, TxControl(n) PROVE AckInv'
  <2>1. Head(ctrlQ[n]) \in Frame
    BY <1>9, <1>0, TailFacts DEF TxControl, TypeOK, TypeTx, Frame
  <2>2. InFlight' \subseteq InFlight
    BY <1>9, <1>0, <2>1, FlightSent DEF TxControl
  <2> QED
    BY <1>9, <2>2, <1>k, <1>p, <1>c, <1>a, <1>q DEF TxControl, callerVars, ackVars, histVars
<1>10. ASSUME NEW n \in Node, TxVideo(n) PROVE AckInv'
  <2>1. InFlight' = InFlight
    BY <1>10, FlightUnchanged DEF TxVideo, queueVars, rxVars
  <2> QED
    BY <1>10, <2>1, <1>k, <1>p, <1>c, <1>a, <1>q, <1>pc DEF TxVideo, callerVars, ackVars, queueVars, txVars, rxVars, histVars
<1>11. ASSUME NEW n \in Node, TxData(n) PROVE AckInv'
  <2>1. Head(dataQ[n]) \in Frame
    BY <1>11, <1>0, TailFacts DEF TxData, TypeOK, TypeTx, Frame
  <2>2. Transmit(n, Head(dataQ[n])) \/ inbox' = inbox
    BY <1>11 DEF TxData
  <2>3. InFlight' \subseteq InFlight
    BY <1>11, <1>0, <2>1, <2>2, FlightSent DEF TxData
  <2> QED
    BY <1>11, <2>3, <1>k, <1>p, <1>c, <1>a, <1>q DEF TxData, callerVars, ackVars, histVars
<1>12. ASSUME NEW n \in Node, TxMiss(n) PROVE AckInv'
  <2>1. InFlight' = InFlight
    BY <1>12, FlightUnchanged DEF TxMiss, queueVars, rxVars
  <2> QED
    BY <1>12, <2>1, <1>k, <1>p, <1>c, <1>a, <1>q, <1>pc DEF TxMiss, callerVars, ackVars, queueVars, txVars, rxVars, histVars
<1>13. ASSUME NEW n \in Node, RxAreq(n) PROVE AckInv'
  <2>0. PICK f : f = Head(inbox[n])
    OBVIOUS
  <2>1. f \in AreqFrame /\ f.type = "AREQ"
    BY <1>13, <1>0, <2>0, ReceivesTyped, FrameKinds DEF RxAreq, TypeOK
  <2>2. AckFor(n, f) \in AckFrame
    BY <2>1, AckForTyped
  <2>3. f \in InFlight /\ InFlight' \subseteq InFlight \cup {AckFor(n, f)}
    BY <1>13, <1>0, <2>0, <2>2, FlightReceived DEF RxAreq, Receives
  <2>4. Faithful(f)
    BY <1>0, <2>3 DEF FlightInv
  <2>5. f.msg \in accepted'
    BY <1>13, <2>0 DEF RxAreq
  <2>6. Faithful(AckFor(n, f))'
    BY <1>o, <2>1, <2>4, <2>5 DEF Faithful, AckFor
  <2> QED
    BY <1>13, <2>3, <2>6, <1>n, <1>p, <1>c, <1>a, <1>q DEF RxAreq, callerVars, ackVars
<1>14. ASSUME NEW n \in Node, RxDeliver(n) PROVE AckInv'
  <2>1. InFlight' = InFlight
    BY <1>14, FlightUnchanged DEF RxDeliver, queueVars, rxVars
  <2> QED
    BY <1>14, <2>1, <1>k, <1>p, <1>c, <1>a, <1>q, <1>pc DEF RxDeliver, callerVars, ackVars, queueVars, txVars, rxVars, histVars
<1>15. ASSUME NEW n \in Node, RxProbe(n) PROVE AckInv'
  <2>0. PICK f : f = Head(inbox[n])
    OBVIOUS
  <2>1. f \in ForeignFrame
    BY <1>15, <1>0, <2>0, ReceivesTyped, FrameKinds DEF RxProbe, TypeOK
  <2>2. AckFor(n, f) \in AckFrame
    BY <2>1, AckForTyped
  <2>3. InFlight' \subseteq InFlight \cup {AckFor(n, f)}
    BY <1>15, <1>0, <2>0, <2>2, FlightReceived DEF RxProbe, Receives
  <2>4. Faithful(AckFor(n, f))'
    BY <2>1 DEF Faithful, AckFor, ForeignFrame
  <2> QED
    BY <1>15, <2>3, <2>4, <1>n, <1>p, <1>c, <1>a, <1>q DEF RxProbe, callerVars, ackVars, histVars
<1>16. ASSUME NEW n \in Node, RxAck(n) PROVE AckInv'
  <2> DEFINE f == Head(inbox[n])
             m == pending[n].msg
  <2>1. f \in AckFrame /\ f.type = "ACK" /\ f.dst \in {n, Bcast}
    BY <1>16, <1>0, ReceivesTyped, FrameKinds DEF RxAck, TypeOK, Receives, ForMe
  <2>2. f.dst = n
    BY <2>1 DEF AckFrame
  <2>3. f \in InFlight /\ InFlight' \subseteq InFlight
    BY <1>16, <1>0, FlightReceived DEF RxAck, Receives, queueVars
  <2>4. owner[n][f.seq] = f.msg /\ f.msg \in accepted
    BY <1>0, <2>1, <2>2, <2>3 DEF FlightInv, Faithful
  <2>5. CASE Matches(n, f)
    <3>1. m \in accepted
      BY <1>0, <2>4, <2>5 DEF Matches, PendingInv
    <3>2. AckTruthful'
      BY <1>16, <1>0, <2>5, <3>1 DEF RxAck, AckTruthful
    <3>3. PendingInv'
      <4>1. pending \in [Node -> AreqFrame \cup {None}]
        BY <1>0 DEF TypeOK, TypeMac
      <4> QED
        BY <1>16, <1>0, <1>o, <2>5, <4>1 DEF RxAck, PendingInv
    <3> QED
      BY <1>16, <2>3, <3>2, <3>3, <1>k, <1>c, <1>q DEF RxAck, callerVars
  <2>6. CASE ~Matches(n, f)
    BY <1>16, <2>3, <2>6, <1>k, <1>p, <1>c, <1>a, <1>q DEF RxAck, callerVars
  <2> QED
    BY <2>5, <2>6
<1>17. ASSUME NEW n \in Node, RxNack(n) PROVE AckInv'
  <2>1. InFlight' \subseteq InFlight
    BY <1>17, <1>0, FlightReceived DEF RxNack, Receives, queueVars
  <2> QED
    BY <1>17, <2>1, <1>k, <1>p, <1>c, <1>a, <1>q DEF RxNack, callerVars, ackVars
<1>18. ASSUME NEW n \in Node, RxSet(n) PROVE AckInv'
  <2>1. InFlight' = InFlight
    BY <1>18, FlightUnchanged DEF RxSet, queueVars, rxVars
  <2> QED
    BY <1>18, <2>1, <1>k, <1>p, <1>c, <1>a, <1>q, <1>pc DEF RxSet, callerVars, ackVars, queueVars, txVars, rxVars, histVars
<1>19. ASSUME NEW n \in Node, RxIgnore(n) PROVE AckInv'
  <2>1. InFlight' \subseteq InFlight
    BY <1>19, <1>0, FlightReceived DEF RxIgnore, queueVars
  <2> QED
    BY <1>19, <2>1, <1>k, <1>p, <1>c, <1>a, <1>q DEF RxIgnore, callerVars, ackVars, histVars
<1>20. ASSUME NEW n \in Node, Foreign(n) PROVE AckInv'
  <2>1. PICK f \in ForeignFrame : inbox' = [inbox EXCEPT ![n] = Append(@, f)]
    BY <1>20 DEF Foreign
  <2>2. f \in Frame /\ inbox \in [Node -> Seq(Frame)]
    BY <1>0 DEF Frame, TypeOK, TypeRx
  <2>3. Range(Append(inbox[n], f)) = Range(inbox[n]) \cup {f}
    BY <2>2, AppendFacts
  <2>4. \A k \in Node : Range(inbox'[k]) \subseteq Range(inbox[k]) \cup {f}
    BY <2>1, <2>2, <2>3
  <2>5. InFlight' \subseteq InFlight \cup {f}
    BY <1>20, <2>4, Places DEF Foreign, queueVars
  <2>6. Faithful(f)'
    BY DEF Faithful, ForeignFrame
  <2> QED
    BY <1>20, <2>5, <2>6, <1>n, <1>p, <1>c, <1>a, <1>q DEF Foreign, callerVars, ackVars, histVars
<1>21. CASE UNCHANGED vars
  <2>1. InFlight' = InFlight
    BY <1>21, FlightUnchanged DEF vars, queueVars, rxVars
  <2> QED
    BY <1>21, <2>1, <1>k, <1>p, <1>c, <1>a, <1>q DEF vars, callerVars, ackVars, histVars
<1> QED
  BY <1>1, <1>2, <1>3, <1>4, <1>5, <1>6, <1>7, <1>8, <1>9, <1>10, <1>11, <1>12, <1>13, <1>14, <1>15, <1>16, <1>17, <1>18, <1>19, <1>20, <1>21 DEF Next, CallerStep, TxStep, RxStep

\* Only an ACK of the pending call is ever matched with it: for any number
\* of callers per node, any topology, retransmissions, losses and late or
\* repeated ACKs, as long as a number is not reused while it is in use.
THEOREM AckIsTruthful == Spec => []AckTruthful
<1>1. Init => AckInv
  BY InitAck
<1>2. AckInv /\ [Next]_vars => AckInv'
  <2> SUFFICES ASSUME AckInv, [Next]_vars PROVE AckInv'
    OBVIOUS
  <2>1. TypeOK'
    BY NextType DEF AckInv
  <2> QED
    BY <2>1, CallAck, StepAck
<1>3. AckInv => AckTruthful
  BY DEF AckInv
<1> QED
  BY <1>1, <1>2, <1>3, PTL DEF Spec

-----------------------------------------------------------------------------
(* The way of a payload: data queue, inbox, the receive thread, on_rx.     *)
(* What InOrder and DeliveryBound need to know of the rest of the node: a  *)
(* caller's frame names its current call, a data queue holds only requests *)
(* of its node's callers, and rxMsg holds a payload only until on_rx.      *)

FrameInv == \A c \in Caller : pc[c] # "idle" => frame[c].msg = Current(c)

OwnInv == \A k \in Node : \A f \in Range(dataQ[k]) : NodeOf[f.msg[1]] = k

RxInv == \A n \in Node : rxPc[n] # "deliver" => rxMsg[n] = None

PathInv == TypeOK /\ FrameInv /\ OwnInv /\ RxInv

\* The steps of a payload on its way.  Reaches: the frame arrives at some
\* of the nodes, the other inboxes stay.
Reaches(f) == \E R \in SUBSET Node :
    inbox' = [k \in Node |-> IF k \in R THEN Append(inbox[k], f) ELSE inbox[k]]

Sends(k, f) ==
    /\ dataQ[k] # <<>> /\ f = Head(dataQ[k])
    /\ dataQ' = [dataQ EXCEPT ![k] = Tail(@)]
    /\ Reaches(f) \/ inbox' = inbox
    /\ UNCHANGED <<rxMsg, delivered>>

Noise(f) == f.type # "AREQ" /\ Reaches(f) /\ UNCHANGED <<dataQ, rxMsg, delivered>>

Takes(n, f) ==
    /\ inbox[n] # <<>> /\ f = Head(inbox[n]) /\ f \in AreqFrame /\ f.type = "AREQ"
    /\ inbox' = [inbox EXCEPT ![n] = Tail(@)]
    /\ rxMsg[n] = None /\ rxMsg' = [rxMsg EXCEPT ![n] = f.msg]
    /\ UNCHANGED <<dataQ, delivered>>

Drops(n) ==
    /\ inbox[n] # <<>>
    /\ inbox' = [inbox EXCEPT ![n] = Tail(@)]
    /\ UNCHANGED <<dataQ, rxMsg, delivered>>

Hands(n) ==
    /\ rxMsg[n] \in Msg
    /\ delivered' = [delivered EXCEPT ![n] = Append(@, rxMsg[n])]
    /\ rxMsg' = [rxMsg EXCEPT ![n] = None]
    /\ UNCHANGED <<dataQ, inbox>>

\* Every step is one of these for the payloads.
LEMMA PathSteps ==
    ASSUME PathInv, [Next]_vars
    PROVE  \/ UNCHANGED <<dataQ, inbox, rxMsg, delivered>>
           \/ \E c \in Caller : PutData(c)
           \/ \E k \in Node, f \in AreqFrame : Sends(k, f)
           \/ \E f \in Frame : Noise(f)
           \/ \E n \in Node, f \in AreqFrame : Takes(n, f)
           \/ \E n \in Node : Drops(n) \/ Hands(n)
<1> DEFINE Goal == \/ UNCHANGED <<dataQ, inbox, rxMsg, delivered>>
                   \/ \E c \in Caller : PutData(c)
                   \/ \E k \in Node, f \in AreqFrame : Sends(k, f)
                   \/ \E f \in Frame : Noise(f)
                   \/ \E n \in Node, f \in AreqFrame : Takes(n, f)
                   \/ \E n \in Node : Drops(n) \/ Hands(n)
<1> SUFFICES Goal
  OBVIOUS
<1>0. /\ TypeRx /\ RxInv /\ ctrlQ \in [Node -> Seq(AckFrame)]
      /\ dataQ \in [Node -> Seq(AreqFrame)] /\ inbox \in [Node -> Seq(Frame)]
      /\ \A n \in Node : Hears[n] \subseteq Node
  BY MacAssumption DEF PathInv, TypeOK, TypeTx, TypeRx
<1>1. ASSUME NEW c \in Caller, Call(c) \/ CallerStep(c) PROVE Goal
  BY <1>1 DEF CallerStep, Call, Arm, ClearEvt, EnterWait, Timeout, ReturnTrue,
     ReturnFalse, queueVars, rxVars, histVars
<1>2. ASSUME NEW n \in Node, SendDatagram(n) \/ TxVideo(n) \/ TxMiss(n) \/ RxSet(n)
      PROVE  Goal
  BY <1>2 DEF SendDatagram, TxVideo, TxMiss, RxSet, queueVars, rxVars, histVars
<1>3. ASSUME NEW n \in Node, TxControl(n) PROVE Goal
  <2>1. PICK f : f = Head(ctrlQ[n])
    OBVIOUS
  <2>2. f \in AckFrame
    BY <1>0, <1>3, <2>1, TailFacts DEF TxControl
  <2>5. f \in Frame /\ f.type # "AREQ"
    BY <2>2 DEF AckFrame, Frame
  <2>3. Reaches(f) /\ UNCHANGED <<dataQ, rxMsg, delivered>>
    BY <1>0, <1>3, <2>1 DEF TxControl, Transmit, Reaches, histVars
  <2> QED
    BY <2>3, <2>5 DEF Noise
<1>4. ASSUME NEW n \in Node, TxData(n) PROVE Goal
  <2>1. PICK f : f = Head(dataQ[n])
    OBVIOUS
  <2>2. f \in AreqFrame
    BY <1>0, <1>4, <2>1, TailFacts DEF TxData
  <2>3. Transmit(n, f) \/ inbox' = inbox
    BY <1>4, <2>1 DEF TxData
  <2>4. Reaches(f) \/ inbox' = inbox
    BY <1>0, <2>3 DEF Transmit, Reaches
  <2> QED
    BY <1>4, <2>1, <2>2, <2>4 DEF TxData, Sends, histVars
<1>5. ASSUME NEW n \in Node, RxAreq(n) PROVE Goal
  <2>1. PICK f : f = Head(inbox[n])
    OBVIOUS
  <2>2. f \in AreqFrame /\ f.type = "AREQ"
    BY <1>0, <1>5, <2>1, ReceivesTyped, FrameKinds DEF RxAreq
  <2>3. rxMsg[n] = None
    BY <1>0, <1>5 DEF RxAreq, Receives, RxInv
  <2> QED
    BY <1>5, <2>1, <2>2, <2>3 DEF RxAreq, Receives, Takes
<1>6. ASSUME NEW n \in Node, RxProbe(n) \/ RxAck(n) \/ RxNack(n) \/ RxIgnore(n)
      PROVE  Goal
  BY <1>6 DEF RxProbe, RxAck, RxNack, RxIgnore, Receives, Drops, queueVars, histVars
<1>7. ASSUME NEW n \in Node, RxDeliver(n) PROVE Goal
  <2>1. rxMsg[n] \in Msg
    BY <1>0, <1>7 DEF RxDeliver, TypeRx
  <2> QED
    BY <1>7, <2>1 DEF RxDeliver, Hands, queueVars
<1>8. ASSUME NEW n \in Node, Foreign(n) PROVE Goal
  <2>1. PICK f \in ForeignFrame : inbox' = [inbox EXCEPT ![n] = Append(@, f)]
    BY <1>8 DEF Foreign
  <2>2. f \in Frame /\ f.type # "AREQ"
    BY DEF Frame, ForeignFrame
  <2>3. inbox' = [k \in Node |-> IF k \in {n} THEN Append(inbox[k], f) ELSE inbox[k]]
    BY <1>0, <2>1
  <2>4. Reaches(f)
    BY <2>3 DEF Reaches
  <2> QED
    BY <1>8, <2>2, <2>4 DEF Foreign, Noise, queueVars, histVars
<1>9. CASE UNCHANGED vars
  BY <1>9 DEF vars, queueVars, rxVars, histVars
<1>10. CASE Next
  <2> HIDE DEF Goal
  <2>1. CASE \E c \in Caller : Call(c) \/ CallerStep(c)
    BY <1>1, <2>1
  <2>2. ASSUME NEW n \in Node, TxStep(n) PROVE Goal
    BY <1>2, <1>3, <1>4, <2>2 DEF TxStep
  <2>3. ASSUME NEW n \in Node, RxStep(n) PROVE Goal
    BY <1>2, <1>5, <1>6, <1>7, <2>3 DEF RxStep
  <2> QED
    BY <1>2, <1>8, <1>10, <2>1, <2>2, <2>3 DEF Next
<1> QED
  BY <1>9, <1>10

LEMMA InitPath == Init => PathInv
<1> SUFFICES ASSUME Init PROVE PathInv
  OBVIOUS
<1>1. OwnInv
  BY EmptyFacts DEF Init, OwnInv
<1> QED
  BY <1>1, InitType DEF Init, PathInv, FrameInv, RxInv

LEMMA NextPath == PathInv /\ [Next]_vars => PathInv'
<1> SUFFICES ASSUME PathInv, [Next]_vars PROVE PathInv'
  OBVIOUS
<1>1. TypeOK /\ TypeOK' /\ FrameInv /\ OwnInv /\ RxInv
  BY NextType DEF PathInv
<1>2. FrameInv'
  <2>1. ASSUME NEW c \in Caller, Call(c) PROVE FrameInv'
    BY <1>1, <2>1 DEF Call, FrameInv, Current, TypeOK, TypeCaller
  <2>2. ASSUME \A c \in Caller : ~Call(c) PROVE FrameInv'
    <3>1. frame' = frame /\ calls' = calls
      BY <2>2 DEF Next, CallerStep, TxStep, RxStep, vars, callerVars, Arm, ClearEvt,
         PutData, EnterWait, Timeout, ReturnTrue, ReturnFalse, SendDatagram, TxControl,
         TxVideo, TxData, TxMiss, RxAreq, RxDeliver, RxProbe, RxAck, RxNack, RxSet,
         RxIgnore, Foreign
    <3>2. pc \in [Caller -> {"idle", "arm", "clear", "put", "enter", "waiting",
                             "woken", "giveUp"}]
      BY <1>1 DEF TypeOK, TypeCaller
    <3>3. \A c \in Caller : pc'[c] # "idle" => pc[c] # "idle"
      BY <2>2, <3>2 DEF Next, CallerStep, TxStep, RxStep, vars, callerVars, Arm, ClearEvt,
         PutData, EnterWait, Timeout, ReturnTrue, ReturnFalse, SendDatagram, TxControl,
         TxVideo, TxData, TxMiss, RxAreq, RxDeliver, RxProbe, RxAck, RxNack, RxSet,
         RxIgnore, Foreign
    <3> QED
      BY <1>1, <3>1, <3>3 DEF FrameInv, Current
  <2> QED
    BY <2>1, <2>2
<1>3. OwnInv'
  <2>0. dataQ \in [Node -> Seq(AreqFrame)]
    BY <1>1 DEF TypeOK, TypeTx
  <2>1. ASSUME NEW c \in Caller, PutData(c) PROVE OwnInv'
    <3> DEFINE n == NodeOf[c]
    <3>1. /\ n \in Node /\ frame[c] \in AreqFrame
          /\ frame[c].msg = Current(c)
      BY <1>1, <2>1, MacAssumption DEF PutData, FrameInv, TypeOK, TypeCaller
    <3>2. NodeOf[frame[c].msg[1]] = n
      BY <3>1 DEF Current
    <3>3. Range(Append(dataQ[n], frame[c])) = Range(dataQ[n]) \cup {frame[c]}
      BY <2>0, <3>1, AppendFacts
    <3>4. \A k \in Node : dataQ'[k] = IF k = n THEN Append(dataQ[n], frame[c]) ELSE dataQ[k]
      BY <2>0, <2>1, <3>1 DEF PutData
    <3> QED
      BY <1>1, <3>2, <3>3, <3>4 DEF OwnInv
  <2>2. ASSUME NEW k \in Node, NEW f \in AreqFrame, Sends(k, f) PROVE OwnInv'
    <3>1. Range(Tail(dataQ[k])) \subseteq Range(dataQ[k])
      BY <2>0, <2>2, TailFacts DEF Sends
    <3>2. \A j \in Node : Range(dataQ'[j]) \subseteq Range(dataQ[j])
      BY <2>0, <2>2, <3>1 DEF Sends
    <3> QED
      BY <1>1, <3>2 DEF OwnInv
  <2>3. CASE dataQ' = dataQ
    BY <1>1, <2>3 DEF OwnInv
  <2> QED
    BY <2>1, <2>2, <2>3, PathSteps DEF Noise, Takes, Drops, Hands
<1>4. RxInv'
  <2>1. rxPc \in [Node -> {"idle", "deliver", "set"}] /\ rxMsg \in [Node -> Msg \cup {None}]
    BY <1>1 DEF TypeOK, TypeRx
  <2>2. ASSUME NEW c \in Caller, Call(c) \/ CallerStep(c) PROVE RxInv'
    BY <1>1, <2>2 DEF RxInv, CallerStep, rxVars, Call, Arm, ClearEvt, PutData,
       EnterWait, Timeout, ReturnTrue, ReturnFalse
  <2>3. ASSUME NEW n \in Node, SendDatagram(n) \/ TxStep(n) \/ Foreign(n) PROVE RxInv'
    BY <1>1, <2>3 DEF RxInv, TxStep, rxVars, SendDatagram, TxControl, TxVideo, TxData,
       TxMiss, Foreign
  <2>4. ASSUME NEW n \in Node, RxAreq(n) \/ RxDeliver(n) PROVE RxInv'
    BY <1>1, <2>1, <2>4 DEF RxInv, RxAreq, RxDeliver
  <2>5. ASSUME NEW n \in Node, RxProbe(n) \/ RxAck(n) \/ RxNack(n) \/ RxSet(n) \/ RxIgnore(n)
        PROVE  RxInv'
    <3>1. /\ rxMsg' = rxMsg
          /\ rxPc' = rxPc \/ (rxPc[n] # "deliver" /\ \E s : rxPc' = [rxPc EXCEPT ![n] = s])
      BY <2>5 DEF RxProbe, RxAck, RxNack, RxSet, RxIgnore, Receives
    <3> QED
      BY <1>1, <2>1, <3>1 DEF RxInv
  <2>6. CASE UNCHANGED vars
    BY <1>1, <2>6 DEF RxInv, vars, rxVars
  <2> QED
    BY <2>2, <2>3, <2>4, <2>5, <2>6 DEF Next, RxStep
<1> QED
  BY <1>1, <1>2, <1>3, <1>4 DEF PathInv

-----------------------------------------------------------------------------
(* DeliveryBound.  The copies of a payload that a node has handed over are *)
(* bounded together with those still on their way to it: every attempt of  *)
(* the call puts one request into the data queue, and from there on each   *)
(* step moves it or loses it.                                              *)

AreqsOf(m) == {f \in AreqFrame : f.msg = m}

InHand(n, m) == IF rxMsg[n] = m THEN 1 ELSE 0

\* Copies of m that node n has or may still get.
Under(n, m) ==
    CountIn(delivered[n], {m}) + InHand(n, m) + CountIn(inbox[n], AreqsOf(m))
        + CountIn(dataQ[NodeOf[m[1]]], AreqsOf(m))

\* How often the caller of m has put its request into the data queue.
PutsOf(m) ==
    LET c == m[1]
    IN  IF calls[c] < m[2] THEN 0
        ELSE IF calls[c] > m[2] \/ pc[c] = "idle" THEN MaxRetries
        ELSE IF pc[c] \in {"arm", "clear", "put"} THEN attempt[c] - 1
        ELSE attempt[c]

BudgetInv == \A n \in Node, m \in Msg : Under(n, m) <= PutsOf(m)

\* The parts of Under are natural numbers.
LEMMA UnderParts ==
    ASSUME TypeOK, NEW n \in Node, NEW m \in Msg
    PROVE  /\ NodeOf[m[1]] \in Node
           /\ delivered[n] \in Seq(Msg) /\ inbox[n] \in Seq(Frame)
           /\ dataQ[NodeOf[m[1]]] \in Seq(AreqFrame)
           /\ CountIn(delivered[n], {m}) \in Nat /\ InHand(n, m) \in {0, 1}
           /\ CountIn(inbox[n], AreqsOf(m)) \in Nat
           /\ CountIn(dataQ[NodeOf[m[1]]], AreqsOf(m)) \in Nat
<1>1. /\ NodeOf[m[1]] \in Node /\ delivered[n] \in Seq(Msg) /\ inbox[n] \in Seq(Frame)
      /\ dataQ[NodeOf[m[1]]] \in Seq(AreqFrame)
  BY MacAssumption DEF TypeOK, TypeTx, TypeRx, TypeHist, Msg
<1> QED
  BY <1>1, CountType DEF InHand

\* No step takes back an attempt, and a put counts one more.
LEMMA PutsGrow ==
    ASSUME TypeOK, [Next]_vars, NEW m \in Msg
    PROVE  /\ PutsOf(m) \in Int /\ PutsOf(m)' \in Int
           /\ PutsOf(m) <= PutsOf(m)'
           /\ \A c \in Caller : PutData(c) /\ m = Current(c) => PutsOf(m)' = PutsOf(m) + 1
<1> DEFINE d == m[1]
<1>0. /\ d \in Caller /\ m[2] \in Nat /\ m[2] >= 1 /\ MaxRetries \in Nat \ {0}
      /\ pc \in [Caller -> {"idle", "arm", "clear", "put", "enter", "waiting",
                            "woken", "giveUp"}]
      /\ calls \in [Caller -> 0..CallLimit] /\ attempt \in [Caller -> 0..MaxRetries]
      /\ CallLimit \in Nat
  BY MacAssumption DEF TypeOK, TypeCaller, Msg
<1>t. /\ pc' \in [Caller -> {"idle", "arm", "clear", "put", "enter", "waiting",
                             "woken", "giveUp"}]
      /\ calls' \in [Caller -> 0..CallLimit] /\ attempt' \in [Caller -> 0..MaxRetries]
  BY NextType DEF TypeOK, TypeCaller
<1>i. PutsOf(m) \in Int /\ PutsOf(m)' \in Int
  BY <1>0, <1>t DEF PutsOf
<1> DEFINE Grows == PutsOf(m) <= PutsOf(m)'
<1>1. ASSUME NEW c \in Caller, Call(c) PROVE Grows
  BY <1>0, <1>1 DEF Call, PutsOf
<1>2. ASSUME NEW c \in Caller, PutData(c)
      PROVE  /\ Grows
             /\ m = Current(c) => PutsOf(m)' = PutsOf(m) + 1
  BY <1>0, <1>2 DEF PutData, PutsOf, Current
<1>3. ASSUME NEW c \in Caller, Arm(c) \/ ClearEvt(c) \/ EnterWait(c) \/ Timeout(c)
      PROVE  Grows
  BY <1>0, <1>3 DEF Arm, ClearEvt, EnterWait, Timeout, PutsOf
<1>4. ASSUME NEW c \in Caller, ReturnTrue(c) \/ ReturnFalse(c) PROVE Grows
  BY <1>0, <1>4 DEF ReturnTrue, ReturnFalse, PutsOf
<1>5. ASSUME NEW n \in Node, RxSet(n) PROVE Grows
  BY <1>0, <1>5 DEF RxSet, PutsOf
<1>6. ASSUME UNCHANGED callerVars PROVE Grows
  <2>1. PutsOf(m)' = PutsOf(m)
    BY <1>6 DEF callerVars, PutsOf
  <2> QED
    BY <1>i, <2>1
<1>7. ASSUME NEW n \in Node, SendDatagram(n) \/ TxStep(n) \/ Foreign(n)
      PROVE  UNCHANGED callerVars
  BY <1>7 DEF SendDatagram, TxStep, TxControl, TxVideo, TxData, TxMiss, Foreign
<1>8. ASSUME NEW n \in Node, RxStep(n), ~RxSet(n) PROVE UNCHANGED callerVars
  BY <1>8 DEF RxStep, RxAreq, RxDeliver, RxProbe, RxAck, RxNack, RxIgnore
<1>9. ASSUME UNCHANGED vars PROVE UNCHANGED callerVars
  BY <1>9 DEF vars
<1>10. Grows
  <2> HIDE DEF Grows
  <2> QED
    BY <1>1, <1>2, <1>3, <1>4, <1>5, <1>6, <1>7, <1>8, <1>9 DEF Next, CallerStep
<1> QED
  BY <1>i, <1>2, <1>10

LEMMA InitBudget == Init => BudgetInv
<1> SUFFICES ASSUME Init, NEW n \in Node, NEW m \in Msg PROVE Under(n, m) <= PutsOf(m)
  BY DEF BudgetInv
<1>1. /\ m[1] \in Caller /\ m[2] >= 1 /\ m[2] \in Nat /\ NodeOf[m[1]] \in Node /\ None # m
  BY MacAssumption DEF Msg
<1>2. Under(n, m) = 0
  BY <1>1, CountEmpty DEF Init, Under, InHand
<1>3. PutsOf(m) = 0
  BY <1>1 DEF Init, PutsOf
<1> QED
  BY <1>2, <1>3

\* What a step does to the copies of one payload.
LEMMA UnderMoves ==
    ASSUME PathInv, PathInv', [Next]_vars, NEW n \in Node, NEW m \in Msg
    PROVE  /\ Under(n, m) \in Nat /\ Under(n, m)' \in Nat
           /\ \/ Under(n, m)' <= Under(n, m)
              \/ \E c \in Caller : /\ PutData(c) /\ m = Current(c)
                                   /\ Under(n, m)' = Under(n, m) + 1
<1> DEFINE S == AreqsOf(m)
           o == NodeOf[m[1]]
<1>0. /\ TypeOK /\ TypeOK' /\ OwnInv /\ FrameInv
      /\ dataQ \in [Node -> Seq(AreqFrame)] /\ inbox \in [Node -> Seq(Frame)]
      /\ rxMsg \in [Node -> Msg \cup {None}] /\ delivered \in [Node -> Seq(Msg)]
      /\ None \notin Msg
  BY MacAssumption DEF PathInv, TypeOK, TypeTx, TypeRx, TypeHist
<1>1. /\ o \in Node /\ delivered[n] \in Seq(Msg) /\ inbox[n] \in Seq(Frame)
      /\ dataQ[o] \in Seq(AreqFrame)
      /\ CountIn(delivered[n], {m}) \in Nat /\ InHand(n, m) \in {0, 1}
      /\ CountIn(inbox[n], S) \in Nat /\ CountIn(dataQ[o], S) \in Nat
  BY <1>0, UnderParts
<1>2. /\ CountIn(delivered'[n], {m}) \in Nat /\ InHand(n, m)' \in {0, 1}
      /\ CountIn(inbox'[n], S) \in Nat /\ CountIn(dataQ'[o], S) \in Nat
  <2>1. /\ delivered'[n] \in Seq(Msg) /\ inbox'[n] \in Seq(Frame)
        /\ dataQ'[o] \in Seq(AreqFrame)
    BY <1>0, <1>1 DEF TypeOK, TypeTx, TypeRx, TypeHist
  <2> QED
    BY <2>1, CountType DEF InHand
<1>3. /\ Under(n, m) = CountIn(delivered[n], {m}) + InHand(n, m)
                          + CountIn(inbox[n], S) + CountIn(dataQ[o], S)
      /\ Under(n, m)' = CountIn(delivered'[n], {m}) + InHand(n, m)'
                          + CountIn(inbox'[n], S) + CountIn(dataQ'[o], S)
  BY DEF Under
<1>12. Under(n, m) \in Nat /\ Under(n, m)' \in Nat
  BY <1>1, <1>2, <1>3
<1> DEFINE Less == Under(n, m)' <= Under(n, m)
           More == \E c \in Caller : /\ PutData(c) /\ m = Current(c)
                                     /\ Under(n, m)' = Under(n, m) + 1
<1>4. ASSUME NEW f \in Frame, Reaches(f)
      PROVE  /\ CountIn(inbox'[n], S) <= CountIn(inbox[n], S) + (IF f \in S THEN 1 ELSE 0)
  <2>1. inbox'[n] \in {inbox[n], Append(inbox[n], f)}
    BY <1>4 DEF Reaches
  <2>2. CountIn(Append(inbox[n], f), S) = CountIn(inbox[n], S) + (IF f \in S THEN 1 ELSE 0)
    BY <1>1, CountAppend
  <2>3. CASE inbox'[n] = inbox[n]
    BY <1>1, <2>3
  <2>4. CASE inbox'[n] = Append(inbox[n], f)
    BY <1>1, <2>2, <2>4
  <2> QED
    BY <2>1, <2>3, <2>4
<1>5. ASSUME UNCHANGED <<dataQ, inbox, rxMsg, delivered>> PROVE Less
  BY <1>1, <1>2, <1>3, <1>5 DEF InHand
<1>6. ASSUME NEW c \in Caller, PutData(c) PROVE Less \/ More
  <2> DEFINE k == NodeOf[c]
  <2>1. /\ k \in Node /\ frame[c] \in AreqFrame /\ frame[c].msg = Current(c)
        /\ UNCHANGED <<inbox, rxMsg, delivered>>
    BY <1>0, <1>6, MacAssumption DEF PutData, FrameInv, TypeOK, TypeCaller, rxVars, histVars
  <2>2. InHand(n, m)' = InHand(n, m)
    BY <2>1 DEF InHand
  <2>3. dataQ'[o] = IF o = k THEN Append(dataQ[o], frame[c]) ELSE dataQ[o]
    BY <1>0, <1>1, <1>6, <2>1 DEF PutData
  <2>4. frame[c] \in S <=> m = Current(c)
    BY <2>1 DEF AreqsOf
  <2>5. CountIn(Append(dataQ[o], frame[c]), S)
           = CountIn(dataQ[o], S) + (IF frame[c] \in S THEN 1 ELSE 0)
    BY <1>1, <2>1, CountAppend
  <2>6. m = Current(c) => o = k
    BY DEF Current
  <2>7. CASE m = Current(c)
    <3>1. CountIn(dataQ'[o], S) = CountIn(dataQ[o], S) + 1
      BY <2>3, <2>4, <2>5, <2>6, <2>7
    <3>2. Under(n, m)' = Under(n, m) + 1
      <4>1. /\ CountIn(delivered'[n], {m}) = CountIn(delivered[n], {m})
            /\ CountIn(inbox'[n], S) = CountIn(inbox[n], S)
        BY <2>1
      <4> HIDE DEF S, o
      <4> QED
        BY <1>1, <1>2, <1>3, <1>12, <2>2, <3>1, <4>1
    <3> QED
      BY <1>6, <2>7, <3>2
  <2>8. CASE m # Current(c)
    <3>1. CountIn(dataQ'[o], S) = CountIn(dataQ[o], S)
      BY <1>1, <2>3, <2>4, <2>5, <2>8
    <3> QED
      BY <1>1, <1>2, <1>3, <2>1, <2>2, <3>1
  <2> QED
    BY <2>7, <2>8
<1>7. ASSUME NEW k \in Node, NEW f \in AreqFrame, Sends(k, f) PROVE Less
  <2>1. InHand(n, m)' = InHand(n, m) /\ delivered' = delivered
    BY <1>7 DEF Sends, InHand
  <2>2. CountIn(inbox'[n], S) <= CountIn(inbox[n], S) + (IF f \in S THEN 1 ELSE 0)
    BY <1>1, <1>4, <1>7 DEF Sends, Frame
  <2>3. f \in S => k = o
    <3>1. f \in Range(dataQ[k])
      BY <1>0, <1>7, TailFacts DEF Sends
    <3> QED
      BY <1>0, <3>1 DEF OwnInv, AreqsOf
  <2>4. CASE k = o
    <3>1. dataQ'[o] = Tail(dataQ[o]) /\ dataQ[o] # <<>> /\ f = Head(dataQ[o])
      BY <1>0, <1>1, <1>7, <2>4 DEF Sends
    <3>2. CountIn(dataQ[o], S) = CountIn(dataQ'[o], S) + (IF f \in S THEN 1 ELSE 0)
      BY <1>1, <3>1, CountTail
    <3> QED
      BY <1>1, <1>2, <1>3, <2>1, <2>2, <3>2
  <2>5. CASE k # o
    <3>1. dataQ'[o] = dataQ[o]
      BY <1>0, <1>1, <1>7, <2>5 DEF Sends
    <3> QED
      BY <1>1, <1>2, <1>3, <2>1, <2>2, <2>3, <2>5, <3>1
  <2> QED
    BY <2>4, <2>5
<1>8. ASSUME NEW f \in Frame, Noise(f) PROVE Less
  <2>1. f \notin S
    BY <1>8 DEF Noise, AreqsOf, AreqFrame
  <2>2. CountIn(inbox'[n], S) <= CountIn(inbox[n], S)
    BY <1>1, <1>2, <1>4, <1>8, <2>1 DEF Noise
  <2> QED
    BY <1>1, <1>2, <1>3, <1>8, <2>2 DEF Noise, InHand
<1>9. ASSUME NEW k \in Node, NEW f \in AreqFrame, Takes(k, f) PROVE Less
  <2>1. dataQ' = dataQ /\ delivered' = delivered
    BY <1>9 DEF Takes
  <2>2. CASE k = n
    <3>1. inbox'[n] = Tail(inbox[n]) /\ inbox[n] # <<>> /\ f = Head(inbox[n])
      BY <1>0, <1>9, <2>2 DEF Takes
    <3>2. CountIn(inbox[n], S) = CountIn(inbox'[n], S) + (IF f \in S THEN 1 ELSE 0)
      BY <1>1, <3>1, CountTail
    <3>3. InHand(n, m) = 0 /\ InHand(n, m)' = IF f \in S THEN 1 ELSE 0
      BY <1>0, <1>9, <2>2 DEF Takes, InHand, AreqsOf
    <3> QED
      BY <1>1, <1>2, <1>3, <2>1, <3>2, <3>3
  <2>3. CASE k # n
    <3>1. inbox'[n] = inbox[n] /\ InHand(n, m)' = InHand(n, m)
      BY <1>0, <1>9, <2>3 DEF Takes, InHand
    <3> QED
      BY <1>1, <1>2, <1>3, <2>1, <3>1
  <2> QED
    BY <2>2, <2>3
<1>10. ASSUME NEW k \in Node, Drops(k) PROVE Less
  <2>1. dataQ' = dataQ /\ delivered' = delivered /\ InHand(n, m)' = InHand(n, m)
    BY <1>10 DEF Drops, InHand
  <2>2. inbox'[n] = inbox[n] \/ (inbox[n] # <<>> /\ inbox'[n] = Tail(inbox[n]))
    BY <1>0, <1>10 DEF Drops
  <2>3. CountIn(inbox'[n], S) <= CountIn(inbox[n], S)
    <3>1. inbox[n] # <<>> => CountIn(inbox[n], S)
             = CountIn(Tail(inbox[n]), S) + (IF Head(inbox[n]) \in S THEN 1 ELSE 0)
      BY <1>1, CountTail
    <3> QED
      BY <1>1, <1>2, <2>2, <3>1
  <2> QED
    BY <1>1, <1>2, <1>3, <2>1, <2>3
<1>11. ASSUME NEW k \in Node, Hands(k) PROVE Less
  <2>1. dataQ' = dataQ /\ inbox' = inbox
    BY <1>11 DEF Hands
  <2>2. CASE k = n
    <3>1. CountIn(delivered'[n], {m})
             = CountIn(delivered[n], {m}) + (IF rxMsg[n] \in {m} THEN 1 ELSE 0)
      BY <1>0, <1>1, <1>11, <2>2, CountAppend DEF Hands
    <3>2. InHand(n, m)' = 0 /\ InHand(n, m) = (IF rxMsg[n] \in {m} THEN 1 ELSE 0)
      BY <1>0, <1>11, <2>2 DEF Hands, InHand
    <3> QED
      BY <1>1, <1>2, <1>3, <2>1, <3>1, <3>2
  <2>3. CASE k # n
    <3>1. delivered'[n] = delivered[n] /\ InHand(n, m)' = InHand(n, m)
      BY <1>0, <1>11, <2>3 DEF Hands, InHand
    <3> QED
      BY <1>1, <1>2, <1>3, <2>1, <3>1
  <2> QED
    BY <2>2, <2>3
<1>13. Less \/ More
  <2> HIDE DEF Less, More
  <2> QED
    BY <1>5, <1>6, <1>7, <1>8, <1>9, <1>10, <1>11, PathSteps
<1> QED
  BY <1>12, <1>13

LEMMA NextBudget ==
    ASSUME PathInv, PathInv', BudgetInv, [Next]_vars
    PROVE  BudgetInv'
<1> SUFFICES ASSUME NEW n \in Node, NEW m \in Msg PROVE (Under(n, m) <= PutsOf(m))'
  BY DEF BudgetInv
<1>1. /\ Under(n, m) \in Nat /\ Under(n, m)' \in Nat
      /\ \/ Under(n, m)' <= Under(n, m)
         \/ \E c \in Caller : /\ PutData(c) /\ m = Current(c)
                              /\ Under(n, m)' = Under(n, m) + 1
  BY UnderMoves
<1>2. /\ PutsOf(m) \in Int /\ PutsOf(m)' \in Int /\ PutsOf(m) <= PutsOf(m)'
      /\ \A c \in Caller : PutData(c) /\ m = Current(c) => PutsOf(m)' = PutsOf(m) + 1
  BY PutsGrow DEF PathInv
<1>3. Under(n, m) <= PutsOf(m)
  BY DEF BudgetInv
<1> QED
  BY <1>1, <1>2, <1>3

\* The budget of a call is MaxRetries.
LEMMA BudgetBound ==
    ASSUME TypeOK, BudgetInv, NEW n \in Node, NEW m \in Msg
    PROVE  Copies(n, m) + InHand(n, m) <= MaxRetries
<1>1. Copies(n, m) = CountIn(delivered[n], {m})
  <2>1. {i \in DOMAIN delivered[n] : delivered[n][i] = m} = PlacesOf(delivered[n], {m})
    BY DEF PlacesOf
  <2> QED
    BY <2>1 DEF Copies, CountIn
<1>2. Under(n, m) <= PutsOf(m)
  BY DEF BudgetInv
<1>3. PutsOf(m) \in Int /\ PutsOf(m) <= MaxRetries
  BY MacAssumption DEF PutsOf, TypeOK, TypeCaller, Msg
<1>4. /\ CountIn(delivered[n], {m}) \in Nat /\ InHand(n, m) \in {0, 1}
      /\ CountIn(inbox[n], AreqsOf(m)) \in Nat
      /\ CountIn(dataQ[NodeOf[m[1]]], AreqsOf(m)) \in Nat
  BY UnderParts
<1> QED
  BY <1>1, <1>2, <1>3, <1>4, MacAssumption DEF Under

\* There is no duplicate filter, and still no application gets more copies
\* of a payload than send_reliable makes attempts, in any topology, with
\* any number of callers, queue sizes, losses and interleavings.
THEOREM DeliveryIsBounded == Spec => []DeliveryBound
<1>1. Init => PathInv /\ BudgetInv
  BY InitPath, InitBudget
<1>2. (PathInv /\ BudgetInv) /\ [Next]_vars => (PathInv /\ BudgetInv)'
  BY NextPath, NextBudget
<1>3. PathInv /\ BudgetInv => DeliveryBound
  <2> SUFFICES ASSUME PathInv, BudgetInv, NEW n \in Node, NEW m \in Msg
               PROVE  Copies(n, m) <= MaxRetries
    BY DEF DeliveryBound
  <2>1. Copies(n, m) + InHand(n, m) <= MaxRetries /\ InHand(n, m) \in {0, 1}
    BY BudgetBound DEF PathInv, InHand
  <2>2. Copies(n, m) \in Nat
    <3>1. {i \in DOMAIN delivered[n] : delivered[n][i] = m} = PlacesOf(delivered[n], {m})
      BY DEF PlacesOf
    <3> QED
      BY <3>1, UnderParts DEF Copies, CountIn, PathInv
  <2> QED
    BY <2>1, <2>2, MacAssumption
<1> QED
  BY <1>1, <1>2, <1>3, PTL DEF Spec

-----------------------------------------------------------------------------
(* InOrder.  Delivery is in order because the whole way is: what a node    *)
(* has handed over comes before what its receive thread holds, that before *)
(* its inbox, and that before every data queue; inbox and data queues are  *)
(* themselves ordered, and nothing on the way is newer than the last call. *)

\* In A before in B: a caller's calls in A are not newer than those in B.
Before(A, B) == \A x \in A, y \in B : x[1] = y[1] => x[2] <= y[2]

MsgsOf(f) == IF f.type = "AREQ" THEN {f.msg} ELSE {}

MsgsIn(z) == UNION {MsgsOf(f) : f \in Range(z)}

SortedFrames(z) == \A i, j \in 1..Len(z) : i < j => Before(MsgsOf(z[i]), MsgsOf(z[j]))

SortedMsgs(z) == \A i, j \in 1..Len(z) : i < j => Before({z[i]}, {z[j]})

InHandSet(n) == {rxMsg[n]} \ {None}

\* What node n has, and what is in its inbox.
Had(n) == Range(delivered[n]) \cup InHandSet(n)

Got(n) == Had(n) \cup MsgsIn(inbox[n])

NodeOrder(n) ==
    /\ SortedMsgs(delivered[n]) /\ SortedFrames(inbox[n]) /\ SortedFrames(dataQ[n])
    /\ Before(Range(delivered[n]), InHandSet(n))
    /\ Before(Had(n), MsgsIn(inbox[n]))

OrderInv ==
    /\ \A n \in Node : NodeOrder(n)
    /\ \A n, k \in Node : Before(Got(n), MsgsIn(dataQ[k]))
    /\ \A n \in Node : \A x \in Got(n) \cup MsgsIn(dataQ[n]) : x \in Msg /\ x[2] <= calls[x[1]]

LEMMA MsgsTyped ==
    ASSUME NEW f \in Frame
    PROVE  MsgsOf(f) \subseteq Msg
BY FrameKinds DEF MsgsOf, AreqFrame

LEMMA SortedAppend ==
    ASSUME NEW z \in Seq(Frame), NEW f \in Frame, SortedFrames(z),
           Before(MsgsIn(z), MsgsOf(f))
    PROVE  SortedFrames(Append(z, f))
<1>1. /\ Len(Append(z, f)) = Len(z) + 1 /\ Append(z, f)[Len(z) + 1] = f
      /\ \A i \in 1..Len(z) : Append(z, f)[i] = z[i]
      /\ Len(z) \in Nat /\ DOMAIN z = 1..Len(z)
  BY AppendFacts, LenProperties
<1>2. SUFFICES ASSUME NEW i \in 1..(Len(z) + 1), NEW j \in 1..(Len(z) + 1), i < j
               PROVE  Before(MsgsOf(Append(z, f)[i]), MsgsOf(Append(z, f)[j]))
  BY <1>1 DEF SortedFrames
<1>3. i \in 1..Len(z) /\ Append(z, f)[i] = z[i]
  BY <1>1, <1>2
<1>4. CASE j \in 1..Len(z)
  BY <1>1, <1>2, <1>3, <1>4 DEF SortedFrames
<1>5. CASE j = Len(z) + 1
  <2>1. z[i] \in Range(z)
    BY <1>1, <1>3 DEF Range
  <2>2. MsgsOf(z[i]) \subseteq MsgsIn(z)
    BY <2>1 DEF MsgsIn
  <2> QED
    BY <1>1, <1>3, <1>5, <2>2 DEF Before
<1> QED
  BY <1>1, <1>4, <1>5

LEMMA SortedTail ==
    ASSUME NEW z \in Seq(Frame), z # <<>>, SortedFrames(z)
    PROVE  /\ SortedFrames(Tail(z))
           /\ Before(MsgsOf(Head(z)), MsgsIn(Tail(z)))
           /\ MsgsIn(z) = MsgsOf(Head(z)) \cup MsgsIn(Tail(z))
<1>1. /\ Tail(z) \in Seq(Frame) /\ Len(Tail(z)) = Len(z) - 1 /\ Len(z) \in Nat \ {0}
      /\ \A i \in 1..Len(Tail(z)) : Tail(z)[i] = z[i + 1]
      /\ Head(z) = z[1] /\ DOMAIN z = 1..Len(z) /\ DOMAIN Tail(z) = 1..Len(Tail(z))
      /\ Head(z) \in Range(z) /\ Range(Tail(z)) \subseteq Range(z)
  BY TailFacts, LenProperties, EmptySeq
<1>2. SortedFrames(Tail(z))
  <2>1. SUFFICES ASSUME NEW i \in 1..Len(Tail(z)), NEW j \in 1..Len(Tail(z)), i < j
                 PROVE  Before(MsgsOf(Tail(z)[i]), MsgsOf(Tail(z)[j]))
    BY DEF SortedFrames
  <2>2. /\ i + 1 \in 1..Len(z) /\ j + 1 \in 1..Len(z) /\ i + 1 < j + 1
        /\ Tail(z)[i] = z[i + 1] /\ Tail(z)[j] = z[j + 1]
    BY <1>1, <2>1
  <2> QED
    BY <2>2 DEF SortedFrames
<1>3. Before(MsgsOf(Head(z)), MsgsIn(Tail(z)))
  <2>1. SUFFICES ASSUME NEW i \in 1..Len(Tail(z))
                 PROVE  Before(MsgsOf(Head(z)), MsgsOf(Tail(z)[i]))
    BY <1>1 DEF MsgsIn, Range, Before
  <2>2. 1 \in 1..Len(z) /\ i + 1 \in 1..Len(z) /\ 1 < i + 1 /\ Tail(z)[i] = z[i + 1]
    BY <1>1
  <2> QED
    BY <1>1, <2>2 DEF SortedFrames
<1>4. Range(z) = {Head(z)} \cup Range(Tail(z))
  <2>1. SUFFICES ASSUME NEW j \in 1..Len(z), j # 1 PROVE z[j] \in Range(Tail(z))
    BY <1>1 DEF Range
  <2>2. j - 1 \in 1..Len(Tail(z)) /\ Tail(z)[j - 1] = z[j]
    BY <1>1, <2>1
  <2> QED
    BY <1>1, <2>2 DEF Range
<1> QED
  BY <1>2, <1>3, <1>4 DEF MsgsIn

LEMMA MsgsAppend ==
    ASSUME NEW z \in Seq(Frame), NEW f \in Frame
    PROVE  MsgsIn(Append(z, f)) = MsgsIn(z) \cup MsgsOf(f)
BY AppendFacts DEF MsgsIn

LEMMA SortedMsgsAppend ==
    ASSUME NEW z \in Seq(Msg), NEW x \in Msg, SortedMsgs(z), Before(Range(z), {x})
    PROVE  SortedMsgs(Append(z, x))
<1>1. /\ Len(Append(z, x)) = Len(z) + 1 /\ Append(z, x)[Len(z) + 1] = x
      /\ \A i \in 1..Len(z) : Append(z, x)[i] = z[i]
      /\ Len(z) \in Nat /\ DOMAIN z = 1..Len(z)
  BY AppendFacts, LenProperties
<1>2. SUFFICES ASSUME NEW i \in 1..(Len(z) + 1), NEW j \in 1..(Len(z) + 1), i < j
               PROVE  Before({Append(z, x)[i]}, {Append(z, x)[j]})
  BY <1>1 DEF SortedMsgs
<1>3. i \in 1..Len(z) /\ Append(z, x)[i] = z[i] /\ z[i] \in Range(z)
  BY <1>1, <1>2 DEF Range
<1>4. CASE j \in 1..Len(z)
  BY <1>1, <1>2, <1>3, <1>4 DEF SortedMsgs
<1>5. CASE j = Len(z) + 1
  BY <1>1, <1>3, <1>5 DEF Before
<1>6. j \in 1..Len(z) \/ j = Len(z) + 1
  BY <1>1
<1> QED
  BY <1>4, <1>5, <1>6

LEMMA InitOrder == Init => OrderInv
<1> SUFFICES ASSUME Init PROVE OrderInv
  OBVIOUS
<1>1. \A n \in Node : /\ delivered[n] = <<>> /\ inbox[n] = <<>> /\ dataQ[n] = <<>>
                      /\ InHandSet(n) = {}
  BY DEF Init, InHandSet
<1>2. MsgsIn(<<>>) = {} /\ Range(<<>>) = {}
  BY EmptyFacts DEF MsgsIn
<1>3. SortedFrames(<<>>) /\ SortedMsgs(<<>>)
  BY EmptySeq DEF SortedFrames, SortedMsgs
<1>4. \A n \in Node : Had(n) = {} /\ Got(n) = {}
  BY <1>1, <1>2 DEF Had, Got
<1> QED
  BY <1>1, <1>2, <1>3, <1>4 DEF OrderInv, NodeOrder, Before

\* A step that brings no message nearer to the end than the nodes have
\* already only has to keep each node in order.
LEMMA OrderKept ==
    ASSUME OrderInv,
           \A c \in Caller : calls'[c] >= calls[c] /\ calls[c] \in Nat /\ calls'[c] \in Nat,
           \A n \in Node : NodeOrder(n)' /\ Got(n)' \subseteq Got(n),
           \A k \in Node : MsgsIn(dataQ'[k]) \subseteq MsgsIn(dataQ[k])
    PROVE  OrderInv'
<1>1. \A n, k \in Node : Before(Got(n), MsgsIn(dataQ[k]))'
  BY DEF OrderInv, Before
<1>2. ASSUME NEW n \in Node, NEW x \in Got(n)' \cup MsgsIn(dataQ'[n])
      PROVE  x \in Msg /\ x[2] <= calls'[x[1]]
  <2>1. x \in Got(n) \cup MsgsIn(dataQ[n])
    BY <1>2
  <2>2. x \in Msg /\ x[2] <= calls[x[1]]
    BY <2>1 DEF OrderInv
  <2>3. x[1] \in Caller /\ x[2] \in Int
    BY <2>2 DEF Msg
  <2> QED
    BY <2>2, <2>3
<1> QED
  BY <1>1, <1>2 DEF OrderInv

LEMMA CallsGrow ==
    ASSUME TypeOK, [Next]_vars
    PROVE  \A c \in Caller : calls'[c] >= calls[c] /\ calls[c] \in Nat /\ calls'[c] \in Nat
<1>1. calls \in [Caller -> 0..CallLimit] /\ CallLimit \in Nat
  BY MacAssumption DEF TypeOK, TypeCaller
<1>2. calls' = calls \/ \E c \in Caller : calls' = [calls EXCEPT ![c] = @ + 1]
  BY DEF Next, CallerStep, TxStep, RxStep, vars, callerVars, Call, Arm, ClearEvt,
     PutData, EnterWait, Timeout, ReturnTrue, ReturnFalse, SendDatagram, TxControl,
     TxVideo, TxData, TxMiss, RxAreq, RxDeliver, RxProbe, RxAck, RxNack, RxSet,
     RxIgnore, Foreign
<1> QED
  BY <1>1, <1>2

\* A frame that reaches some inboxes after everything that is in them.
LEMMA ReachesOrder ==
    ASSUME TypeRx, NEW f \in Frame, Reaches(f), NEW n \in Node,
           NodeOrder(n), Before(Got(n), MsgsOf(f))
    PROVE  /\ SortedFrames(inbox'[n])
           /\ MsgsIn(inbox'[n]) \subseteq MsgsIn(inbox[n]) \cup MsgsOf(f)
<1>1. inbox[n] \in Seq(Frame) /\ inbox'[n] \in {inbox[n], Append(inbox[n], f)}
  BY DEF TypeRx, Reaches
<1>2. MsgsIn(Append(inbox[n], f)) = MsgsIn(inbox[n]) \cup MsgsOf(f)
  BY <1>1, MsgsAppend
<1>3. SortedFrames(inbox[n]) /\ Before(MsgsIn(inbox[n]), MsgsOf(f))
  BY DEF NodeOrder, Got, Before
<1>4. SortedFrames(Append(inbox[n], f))
  BY <1>1, <1>3, SortedAppend
<1> QED
  BY <1>1, <1>2, <1>3, <1>4

LEMMA NextOrder ==
    ASSUME PathInv, PathInv', OrderInv, [Next]_vars
    PROVE  OrderInv'
<1>0. /\ TypeOK /\ TypeRx /\ FrameInv /\ OwnInv /\ None \notin Msg
      /\ dataQ \in [Node -> Seq(AreqFrame)] /\ inbox \in [Node -> Seq(Frame)]
      /\ rxMsg \in [Node -> Msg \cup {None}] /\ delivered \in [Node -> Seq(Msg)]
  BY MacAssumption DEF PathInv, TypeOK, TypeTx, TypeRx, TypeHist
<1>1. /\ \A n \in Node : NodeOrder(n)
      /\ \A n, k \in Node : Before(Got(n), MsgsIn(dataQ[k]))
      /\ \A n \in Node : \A x \in Got(n) \cup MsgsIn(dataQ[n]) : x \in Msg /\ x[2] <= calls[x[1]]
  BY DEF OrderInv
<1>2. \A c \in Caller : calls'[c] >= calls[c] /\ calls[c] \in Nat /\ calls'[c] \in Nat
  BY <1>0, CallsGrow
<1>3. Seq(AreqFrame) \subseteq Seq(Frame) /\ AreqFrame \subseteq Frame
      /\ \A f \in AreqFrame : MsgsOf(f) = {f.msg} /\ f.msg \in Msg
  <2>1. AreqFrame \subseteq Frame
    BY DEF Frame
  <2>2. \A f \in AreqFrame : MsgsOf(f) = {f.msg} /\ f.msg \in Msg
    BY DEF AreqFrame, MsgsOf
  <2>3. Seq(AreqFrame) \subseteq Seq(Frame)
    BY <2>1
  <2> QED
    BY <2>1, <2>2, <2>3
<1>4. ASSUME UNCHANGED <<dataQ, inbox, rxMsg, delivered>> PROVE OrderInv'
  <2>1. \A n \in Node : Got(n)' = Got(n) /\ NodeOrder(n)'
    BY <1>1, <1>4 DEF Got, Had, InHandSet, NodeOrder
  <2> QED
    BY <1>2, <1>4, <2>1, OrderKept
<1>5. ASSUME NEW c \in Caller, PutData(c) PROVE OrderInv'
  <2> DEFINE k == NodeOf[c]
  <2>1. /\ k \in Node /\ frame[c] \in AreqFrame /\ frame[c].msg = <<c, calls[c]>>
        /\ UNCHANGED <<inbox, rxMsg, delivered, calls>>
        /\ dataQ' = [dataQ EXCEPT ![k] = Append(@, frame[c])]
    BY <1>0, <1>5, MacAssumption
       DEF PutData, FrameInv, Current, TypeOK, TypeCaller, rxVars, histVars
  <2> PICK f \in AreqFrame : f = frame[c]
    BY <2>1
  <2>2. /\ f.msg \in Msg /\ f.msg[1] = c /\ f.msg[2] = calls[c] /\ MsgsOf(f) = {f.msg}
        /\ f \in Frame /\ dataQ[k] \in Seq(Frame)
        /\ \A j \in Node : dataQ'[j] = IF j = k THEN Append(dataQ[k], f) ELSE dataQ[j]
    <3>1. f.msg = <<c, calls[c]>> /\ f.msg \in Msg /\ MsgsOf(f) = {f.msg}
      BY <1>3, <2>1
    <3>2. f \in Frame /\ dataQ[k] \in Seq(Frame)
      BY <1>0, <1>3, <2>1
    <3>3. \A j \in Node : dataQ'[j] = IF j = k THEN Append(dataQ[k], f) ELSE dataQ[j]
      BY <1>0, <2>1
    <3> QED
      BY <3>1, <3>2, <3>3
  <2>3. \A n \in Node : Got(n)' = Got(n) /\ Had(n)' = Had(n) /\ InHandSet(n)' = InHandSet(n)
    BY <2>1 DEF Got, Had, InHandSet
  <2>4. ASSUME NEW n \in Node PROVE Before(Got(n) \cup MsgsIn(dataQ[n]), MsgsOf(f))
    BY <1>1, <2>2 DEF Before
  <2>5. MsgsIn(Append(dataQ[k], f)) = MsgsIn(dataQ[k]) \cup {f.msg}
    BY <2>2, MsgsAppend
  <2>6. SortedFrames(Append(dataQ[k], f))
    <3>1. SortedFrames(dataQ[k]) /\ Before(MsgsIn(dataQ[k]), MsgsOf(f))
      BY <1>1, <2>1, <2>4 DEF NodeOrder, Before
    <3> QED
      BY <2>2, <3>1, SortedAppend
  <2>7. \A n \in Node : NodeOrder(n)'
    <3>1. SUFFICES ASSUME NEW n \in Node PROVE NodeOrder(n)'
      OBVIOUS
    <3>2. SortedFrames(dataQ'[n])
      BY <1>1, <2>2, <2>6 DEF NodeOrder
    <3> QED
      BY <1>1, <2>1, <2>3, <3>2 DEF NodeOrder
  <2>8. \A n, j \in Node : Before(Got(n)', MsgsIn(dataQ'[j]))
    <3>1. SUFFICES ASSUME NEW n \in Node, NEW j \in Node
                   PROVE  Before(Got(n), MsgsIn(dataQ'[j]))
      BY <2>3
    <3>2. Before(Got(n), MsgsIn(dataQ[j])) /\ Before(Got(n), {f.msg})
      BY <1>1, <2>2, <2>4 DEF Before
    <3>3. CASE j = k
      BY <2>2, <2>5, <3>2, <3>3 DEF Before
    <3>4. CASE j # k
      BY <2>2, <3>2, <3>4
    <3> QED
      BY <3>3, <3>4
  <2>9. ASSUME NEW n \in Node, NEW x \in Got(n)' \cup MsgsIn(dataQ'[n])
        PROVE  x \in Msg /\ x[2] <= calls'[x[1]]
    <3>1. x \in Got(n) \cup MsgsIn(dataQ[n]) \/ x = f.msg
      BY <2>2, <2>3, <2>5, <2>9
    <3> QED
      BY <1>1, <1>2, <2>1, <2>2, <3>1
  <2> QED
    BY <2>7, <2>8, <2>9 DEF OrderInv
<1>6. ASSUME NEW k \in Node, NEW f \in AreqFrame, Sends(k, f) PROVE OrderInv'
  <2>1. /\ dataQ[k] # <<>> /\ f = Head(dataQ[k]) /\ UNCHANGED <<rxMsg, delivered>>
        /\ \A j \in Node : dataQ'[j] = IF j = k THEN Tail(dataQ[k]) ELSE dataQ[j]
        /\ dataQ[k] \in Seq(Frame) /\ f \in Frame /\ MsgsOf(f) = {f.msg} /\ f.msg \in Msg
    BY <1>0, <1>3, <1>6 DEF Sends
  <2>2. /\ SortedFrames(Tail(dataQ[k]))
        /\ Before(MsgsOf(f), MsgsIn(Tail(dataQ[k])))
        /\ MsgsIn(dataQ[k]) = MsgsOf(f) \cup MsgsIn(Tail(dataQ[k]))
    BY <1>1, <2>1, SortedTail DEF NodeOrder
  <2>3. \A n \in Node : Had(n)' = Had(n) /\ InHandSet(n)' = InHandSet(n)
    BY <2>1 DEF Had, InHandSet
  <2>4. \A n \in Node : Before(Got(n), MsgsOf(f))
    BY <1>1, <2>2 DEF Before
  <2>5. ASSUME NEW n \in Node
        PROVE  /\ SortedFrames(inbox'[n])
               /\ MsgsIn(inbox'[n]) \subseteq MsgsIn(inbox[n]) \cup {f.msg}
    <3>1. CASE Reaches(f)
      BY <1>0, <1>1, <2>1, <2>4, <3>1, ReachesOrder
    <3>2. CASE inbox' = inbox
      BY <1>1, <3>2 DEF NodeOrder
    <3> QED
      BY <1>6, <3>1, <3>2 DEF Sends
  <2>6. \A n \in Node : NodeOrder(n)'
    <3>1. SUFFICES ASSUME NEW n \in Node PROVE NodeOrder(n)'
      OBVIOUS
    <3>2. SortedFrames(dataQ'[n])
      BY <1>1, <2>1, <2>2 DEF NodeOrder
    <3>3. Before(Had(n), MsgsIn(inbox'[n]))
      BY <1>1, <2>1, <2>4, <2>5 DEF NodeOrder, Got, Before
    <3>4. SortedMsgs(delivered[n]) /\ Before(Range(delivered[n]), InHandSet(n))
      BY <1>1 DEF NodeOrder
    <3> QED
      BY <2>1, <2>3, <2>5, <3>2, <3>3, <3>4 DEF NodeOrder
  <2>7. \A n \in Node : Got(n)' \subseteq Got(n) \cup {f.msg}
    BY <2>3, <2>5 DEF Got
  <2>8. \A j \in Node : MsgsIn(dataQ'[j]) \subseteq MsgsIn(dataQ[j])
    BY <2>1, <2>2
  <2>9. \A j \in Node : Before({f.msg}, MsgsIn(dataQ'[j]))
    <3>1. SUFFICES ASSUME NEW j \in Node, j # k PROVE Before({f.msg}, MsgsIn(dataQ[j]))
      BY <2>1, <2>2
    <3>2. NodeOf[f.msg[1]] = k
      <4>1. f \in Range(dataQ[k])
        BY <2>1, TailFacts
      <4> QED
        BY <1>0, <4>1 DEF OwnInv
    <3>3. \A y \in MsgsIn(dataQ[j]) : NodeOf[y[1]] = j
      BY <1>0 DEF OwnInv, MsgsIn, MsgsOf
    <3> QED
      BY <3>1, <3>2, <3>3 DEF Before
  <2>10. \A n, j \in Node : Before(Got(n)', MsgsIn(dataQ'[j]))
    BY <1>1, <2>7, <2>8, <2>9 DEF Before
  <2>11. ASSUME NEW n \in Node, NEW x \in Got(n)' \cup MsgsIn(dataQ'[n])
         PROVE  x \in Msg /\ x[2] <= calls'[x[1]]
    <3>1. x \in Got(n) \cup MsgsIn(dataQ[n]) \/ x \in MsgsIn(dataQ[k])
      BY <2>1, <2>2, <2>7, <2>8, <2>11
    <3>2. x \in Msg /\ x[2] <= calls[x[1]]
      BY <1>1, <3>1
    <3>3. x[1] \in Caller /\ x[2] \in Int
      BY <3>2 DEF Msg
    <3> QED
      BY <1>2, <3>2, <3>3
  <2> QED
    BY <2>6, <2>10, <2>11 DEF OrderInv
<1>7. ASSUME NEW f \in Frame, Noise(f) PROVE OrderInv'
  <2>1. MsgsOf(f) = {} /\ Reaches(f) /\ UNCHANGED <<dataQ, rxMsg, delivered>>
    BY <1>7 DEF Noise, MsgsOf
  <2>2. ASSUME NEW n \in Node
        PROVE  SortedFrames(inbox'[n]) /\ MsgsIn(inbox'[n]) \subseteq MsgsIn(inbox[n])
    <3>1. Before(Got(n), MsgsOf(f))
      BY <2>1 DEF Before
    <3> QED
      BY <1>0, <1>1, <2>1, <3>1, ReachesOrder
  <2>3. \A n \in Node : Had(n)' = Had(n) /\ InHandSet(n)' = InHandSet(n)
    BY <2>1 DEF Had, InHandSet
  <2>4. \A n \in Node : Got(n)' \subseteq Got(n)
    BY <2>2, <2>3 DEF Got
  <2>5. \A n \in Node : NodeOrder(n)'
    BY <1>1, <2>1, <2>2, <2>3 DEF NodeOrder, Before
  <2> QED
    BY <1>2, <2>1, <2>4, <2>5, OrderKept
<1>8. ASSUME NEW k \in Node, NEW f \in AreqFrame, Takes(k, f) PROVE OrderInv'
  <2>1. /\ inbox[k] # <<>> /\ f = Head(inbox[k]) /\ inbox[k] \in Seq(Frame)
        /\ MsgsOf(f) = {f.msg} /\ f.msg \in Msg /\ f.msg # None
        /\ UNCHANGED <<dataQ, delivered>>
        /\ \A n \in Node : inbox'[n] = IF n = k THEN Tail(inbox[k]) ELSE inbox[n]
        /\ \A n \in Node : rxMsg'[n] = IF n = k THEN f.msg ELSE rxMsg[n]
        /\ rxMsg[k] = None
    BY <1>0, <1>3, <1>8 DEF Takes
  <2>2. /\ SortedFrames(Tail(inbox[k]))
        /\ Before({f.msg}, MsgsIn(Tail(inbox[k])))
        /\ MsgsIn(inbox[k]) = {f.msg} \cup MsgsIn(Tail(inbox[k]))
    BY <1>1, <2>1, SortedTail DEF NodeOrder
  <2>3. \A n \in Node : n # k => /\ InHandSet(n)' = InHandSet(n) /\ Had(n)' = Had(n)
                                /\ Got(n)' = Got(n)
    BY <2>1 DEF InHandSet, Had, Got
  <2>4. InHandSet(k)' = {f.msg} /\ InHandSet(k) = {}
    BY <2>1 DEF InHandSet
  <2>5. Had(k)' = Had(k) \cup {f.msg}
    BY <2>1, <2>4 DEF Had
  <2>6. Got(k)' = Got(k)
    BY <2>1, <2>2, <2>5 DEF Got
  <2>7. ASSUME NEW n \in Node, n # k PROVE NodeOrder(n)'
    BY <1>1, <2>1, <2>3, <2>7 DEF NodeOrder
  <2>8. NodeOrder(k)'
    <3>1. Before(Had(k), MsgsIn(inbox[k]))
      BY <1>1 DEF NodeOrder
    <3>2. Before(Range(delivered[k]), {f.msg})
      BY <2>2, <3>1 DEF Had, Before
    <3>3. Before(Had(k) \cup {f.msg}, MsgsIn(Tail(inbox[k])))
      BY <2>2, <3>1 DEF Before
    <3> QED
      BY <1>1, <2>1, <2>2, <2>4, <2>5, <3>2, <3>3 DEF NodeOrder
  <2> QED
    BY <1>2, <2>1, <2>3, <2>6, <2>7, <2>8, OrderKept
<1>9. ASSUME NEW k \in Node, Drops(k) PROVE OrderInv'
  <2>1. /\ inbox[k] # <<>> /\ inbox[k] \in Seq(Frame)
        /\ UNCHANGED <<dataQ, delivered, rxMsg>>
        /\ \A n \in Node : inbox'[n] = IF n = k THEN Tail(inbox[k]) ELSE inbox[n]
    BY <1>0, <1>9 DEF Drops
  <2>2. /\ SortedFrames(Tail(inbox[k]))
        /\ MsgsIn(Tail(inbox[k])) \subseteq MsgsIn(inbox[k])
    BY <1>1, <2>1, SortedTail DEF NodeOrder
  <2>3. \A n \in Node : Had(n)' = Had(n) /\ InHandSet(n)' = InHandSet(n)
    BY <2>1 DEF Had, InHandSet
  <2>4. \A n \in Node : /\ MsgsIn(inbox'[n]) \subseteq MsgsIn(inbox[n])
                        /\ SortedFrames(inbox'[n])
    BY <1>1, <2>1, <2>2 DEF NodeOrder
  <2>5. \A n \in Node : Got(n)' \subseteq Got(n)
    BY <2>3, <2>4 DEF Got
  <2>6. \A n \in Node : NodeOrder(n)'
    BY <1>1, <2>1, <2>3, <2>4 DEF NodeOrder, Before
  <2> QED
    BY <1>2, <2>1, <2>5, <2>6, OrderKept
<1>10. ASSUME NEW k \in Node, Hands(k) PROVE OrderInv'
  <2> PICK x \in Msg : x = rxMsg[k]
    BY <1>10 DEF Hands
  <2>1. /\ x # None /\ delivered[k] \in Seq(Msg)
        /\ UNCHANGED <<dataQ, inbox>>
        /\ \A n \in Node : delivered'[n] = IF n = k THEN Append(delivered[k], x) ELSE delivered[n]
        /\ \A n \in Node : rxMsg'[n] = IF n = k THEN None ELSE rxMsg[n]
    BY <1>0, <1>10 DEF Hands
  <2>2. InHandSet(k) = {x} /\ InHandSet(k)' = {}
    BY <2>1 DEF InHandSet
  <2>3. Range(Append(delivered[k], x)) = Range(delivered[k]) \cup {x}
    BY <2>1, AppendFacts
  <2>4. \A n \in Node : n # k => /\ InHandSet(n)' = InHandSet(n) /\ Had(n)' = Had(n)
    BY <2>1 DEF InHandSet, Had
  <2>5. Had(k)' = Had(k)
    BY <2>1, <2>2, <2>3 DEF Had
  <2>6. \A n \in Node : Got(n)' = Got(n)
    BY <2>1, <2>4, <2>5 DEF Got
  <2>7. ASSUME NEW n \in Node, n # k PROVE NodeOrder(n)'
    BY <1>1, <2>1, <2>4, <2>7 DEF NodeOrder
  <2>8. NodeOrder(k)'
    <3>1. SortedMsgs(delivered[k]) /\ Before(Range(delivered[k]), {x})
      BY <1>1, <2>2 DEF NodeOrder
    <3>2. SortedMsgs(Append(delivered[k], x))
      BY <2>1, <3>1, SortedMsgsAppend
    <3>3. Before(Range(delivered'[k]), InHandSet(k)')
      BY <2>2 DEF Before
    <3> QED
      BY <1>1, <2>1, <2>5, <3>2, <3>3 DEF NodeOrder
  <2> QED
    BY <1>2, <2>1, <2>6, <2>7, <2>8, OrderKept
<1> QED
  BY <1>4, <1>5, <1>6, <1>7, <1>8, <1>9, <1>10, PathSteps

\* Retransmissions of older calls never overtake or follow a newer call of
\* the same caller into the application, however many callers share a node
\* and whatever the radio loses.
THEOREM DeliveryIsInOrder == Spec => []InOrder
<1>1. Init => PathInv /\ OrderInv
  BY InitPath, InitOrder
<1>2. (PathInv /\ OrderInv) /\ [Next]_vars => (PathInv /\ OrderInv)'
  BY NextPath, NextOrder
<1>3. PathInv /\ OrderInv => InOrder
  <2> SUFFICES ASSUME PathInv, OrderInv, NEW n \in Node,
                      NEW i \in DOMAIN delivered[n], NEW j \in DOMAIN delivered[n],
                      i < j, delivered[n][i][1] = delivered[n][j][1]
               PROVE  delivered[n][i][2] <= delivered[n][j][2]
    BY DEF InOrder
  <2>1. DOMAIN delivered[n] = 1..Len(delivered[n])
    BY LenProperties DEF PathInv, TypeOK, TypeHist
  <2>2. Before({delivered[n][i]}, {delivered[n][j]})
    BY <2>1 DEF OrderInv, NodeOrder, SortedMsgs
  <2> QED
    BY <2>2 DEF Before
<1> QED
  BY <1>1, <1>2, <1>3, PTL DEF Spec

-----------------------------------------------------------------------------
(* SuccessBudget.  A wake-up that the receive thread has counted is spent  *)
(* once: it is the set() about to run, then the raised flag that the only  *)
(* caller has not yet cleared or the caller it has woken, and then a call  *)
(* that returned True.                                                     *)

SetDue(n) == IF rxPc[n] = "set" THEN 1 ELSE 0

Woken(n, c) ==
    IF pc[c] = "woken" \/ (ackEvt[n] /\ pc[c] \in {"put", "enter"}) THEN 1 ELSE 0

TokenInv == \A n \in Node : \A c \in Caller : CallersOf(n) = {c} =>
    Cardinality(Oks(n)) + SetDue(n) + Woken(n, c) <= wakeups[n]

LEMMA OksFinite ==
    ASSUME NEW n \in Node
    PROVE  IsFiniteSet(Oks(n)) /\ Cardinality(Oks(n)) \in Nat
<1>1. CallLimit \in Int /\ 1 \in Int
  BY MacAssumption
<1>2. IsFiniteSet(1..CallLimit)
  BY <1>1, FS_Interval
<1>3. IsFiniteSet(Msg)
  BY <1>2, MacAssumption, FS_Product DEF Msg
<1>4. Oks(n) \in SUBSET Msg
  BY DEF Oks
<1>5. IsFiniteSet(Oks(n))
  BY <1>3, <1>4, FS_Subset
<1> QED
  BY <1>5, FS_CardinalityType

\* A smaller set of results, or one more.
LEMMA OksBound ==
    ASSUME NEW n \in Node, NEW S, IsFiniteSet(S), NEW T
    PROVE  /\ T \subseteq S => IsFiniteSet(T) /\ Cardinality(T) <= Cardinality(S)
           /\ \A x : T \subseteq S \cup {x} => Cardinality(T) <= Cardinality(S) + 1
<1>1. ASSUME NEW U, IsFiniteSet(U), T \subseteq U
      PROVE  IsFiniteSet(T) /\ Cardinality(T) <= Cardinality(U)
  BY <1>1, FS_Subset
<1>2. ASSUME NEW x, T \subseteq S \cup {x} PROVE Cardinality(T) <= Cardinality(S) + 1
  <2>1. /\ IsFiniteSet(S \cup {x}) /\ Cardinality(S) \in Nat
        /\ Cardinality(S \cup {x}) = IF x \in S THEN Cardinality(S) ELSE Cardinality(S) + 1
    BY FS_AddElement, FS_CardinalityType
  <2>2. IsFiniteSet(T) /\ Cardinality(T) <= Cardinality(S \cup {x})
    BY <1>1, <1>2, <2>1
  <2>3. Cardinality(T) \in Nat
    BY <2>2, FS_CardinalityType
  <2> QED
    BY <2>1, <2>2, <2>3
<1> QED
  BY <1>1, <1>2

LEMMA NextToken ==
    ASSUME TypeOK, TypeOK', TokenInv, [Next]_vars
    PROVE  TokenInv'
<1> SUFFICES ASSUME NEW n \in Node, NEW c \in Caller, CallersOf(n) = {c}
             PROVE  (Cardinality(Oks(n)) + SetDue(n) + Woken(n, c) <= wakeups[n])'
  BY DEF TokenInv, CallersOf
<1> DEFINE k == Cardinality(Oks(n))
           k1 == Cardinality(Oks(n)')
           Goal == k1 + SetDue(n)' + Woken(n, c)' <= wakeups'[n]
<1> SUFFICES Goal
  OBVIOUS
<1>0. /\ NodeOf[c] = n /\ \A e \in Caller : NodeOf[e] = n => e = c
      /\ pc \in [Caller -> {"idle", "arm", "clear", "put", "enter", "waiting",
                            "woken", "giveUp"}]
      /\ rxPc \in [Node -> {"idle", "deliver", "set"}]
      /\ wakeups \in [Node -> Nat] /\ wakeups' \in [Node -> Nat]
      /\ ackEvt \in [Node -> BOOLEAN] /\ result \in [Msg -> {"none", "ok", "failed"}]
  BY DEF CallersOf, TypeOK, TypeCaller, TypeMac, TypeRx, TypeHist
<1>1. /\ IsFiniteSet(Oks(n)) /\ k \in Nat
      /\ k + SetDue(n) + Woken(n, c) <= wakeups[n]
  BY OksFinite DEF TokenInv
<1>2. k1 \in Nat
  <2>1. Oks(n)' \subseteq Msg
    BY DEF Oks
  <2>2. IsFiniteSet(Msg)
    <3>1. IsFiniteSet(1..CallLimit)
      BY MacAssumption, FS_Interval
    <3> QED
      BY <3>1, MacAssumption, FS_Product DEF Msg
  <2>3. IsFiniteSet(Oks(n)')
    BY <2>1, <2>2, FS_Subset
  <2> QED
    BY <2>3, FS_CardinalityType
<1>3. /\ SetDue(n) \in {0, 1} /\ SetDue(n)' \in {0, 1}
      /\ Woken(n, c) \in {0, 1} /\ Woken(n, c)' \in {0, 1}
      /\ wakeups[n] \in Nat /\ wakeups'[n] \in Nat
  BY <1>0 DEF SetDue, Woken
<1>4. ASSUME Oks(n)' \subseteq Oks(n) PROVE k1 <= k
  BY <1>1, <1>4, OksBound
<1>5. ASSUME result' = result PROVE k1 = k
  BY <1>5 DEF Oks
<1> HIDE DEF k, k1
<1>6. ASSUME UNCHANGED <<callerVars, ackEvt, rxPc, wakeups>> PROVE Goal
  <2>1. SetDue(n)' = SetDue(n) /\ Woken(n, c)' = Woken(n, c) /\ k1 = k
    BY <1>5, <1>6 DEF callerVars, SetDue, Woken
  <2> QED
    BY <1>1, <1>6, <2>1
<1>7. ASSUME NEW e \in Caller, \/ Call(e) \/ Arm(e) \/ ClearEvt(e) \/ PutData(e)
                               \/ EnterWait(e) \/ Timeout(e)
      PROVE  Goal
  <2>1. k1 = k /\ SetDue(n)' = SetDue(n) /\ wakeups' = wakeups
    BY <1>5, <1>7 DEF Call, Arm, ClearEvt, PutData, EnterWait, Timeout, SetDue, rxVars, histVars
  <2>2. Woken(n, c)' <= Woken(n, c)
    <3>1. CASE e = c
      BY <1>0, <1>7, <3>1 DEF Call, Arm, ClearEvt, PutData, EnterWait, Timeout, Woken, ackVars
    <3>2. CASE e # c
      <4>1. pc'[c] = pc[c] /\ ackEvt'[n] = ackEvt[n]
        BY <1>0, <1>7, <3>2 DEF Call, Arm, ClearEvt, PutData, EnterWait, Timeout, ackVars
      <4> QED
        BY <1>3, <4>1 DEF Woken
    <3> QED
      BY <3>1, <3>2
  <2> QED
    BY <1>1, <1>2, <1>3, <2>1, <2>2
<1>8. ASSUME NEW e \in Caller, ReturnTrue(e) PROVE Goal
  <2>1. SetDue(n)' = SetDue(n) /\ wakeups' = wakeups /\ ackEvt' = ackEvt
    BY <1>8 DEF ReturnTrue, SetDue, rxVars, histVars, ackVars
  <2>2. CASE e = c
    <3>1. Woken(n, c) = 1 /\ Woken(n, c)' = 0
      BY <1>0, <1>8, <2>2 DEF ReturnTrue, Woken
    <3>2. Oks(n)' \subseteq Oks(n) \cup {Current(c)}
      BY <1>0, <1>8, <2>2 DEF ReturnTrue, Oks
    <3>3. k1 <= k + 1
      BY <1>1, <3>2, OksBound DEF k, k1
    <3> QED
      BY <1>1, <1>2, <1>3, <2>1, <3>1, <3>3
  <2>3. CASE e # c
    <3>1. Woken(n, c)' = Woken(n, c)
      BY <1>0, <1>8, <2>1, <2>3 DEF ReturnTrue, Woken
    <3>2. Oks(n)' \subseteq Oks(n)
      BY <1>0, <1>8, <2>3 DEF ReturnTrue, Oks, Current
    <3> QED
      BY <1>1, <1>2, <1>3, <1>4, <2>1, <3>1, <3>2
  <2> QED
    BY <2>2, <2>3
<1>9. ASSUME NEW e \in Caller, ReturnFalse(e) PROVE Goal
  <2>1. SetDue(n)' = SetDue(n) /\ wakeups' = wakeups /\ ackEvt' = ackEvt
    BY <1>9 DEF ReturnFalse, SetDue, rxVars, histVars
  <2>2. Woken(n, c)' <= Woken(n, c)
    BY <1>0, <1>3, <1>9, <2>1 DEF ReturnFalse, Woken
  <2>3. Oks(n)' \subseteq Oks(n)
    BY <1>0, <1>9 DEF ReturnFalse, Oks
  <2> QED
    BY <1>1, <1>2, <1>3, <1>4, <2>1, <2>2, <2>3
<1>10. ASSUME NEW j \in Node, SendDatagram(j) \/ TxStep(j) \/ Foreign(j) PROVE Goal
  <2>1. UNCHANGED <<callerVars, ackEvt, rxPc, wakeups>>
    BY <1>10 DEF SendDatagram, TxStep, TxControl, TxVideo, TxData, TxMiss, Foreign,
       ackVars, rxVars, histVars
  <2> QED
    BY <1>6, <2>1
<1>11. ASSUME NEW j \in Node, RxAreq(j) \/ RxDeliver(j) \/ RxProbe(j) \/ RxIgnore(j) PROVE Goal
  <2>1. /\ UNCHANGED <<callerVars, ackEvt, wakeups>>
        /\ rxPc' = rxPc \/ \E s \in {"idle", "deliver"} : rxPc' = [rxPc EXCEPT ![j] = s]
    BY <1>11 DEF RxAreq, RxDeliver, RxProbe, RxIgnore, ackVars, rxVars, histVars
  <2>2. SetDue(n)' <= SetDue(n)
    BY <1>0, <1>3, <2>1 DEF SetDue
  <2>3. Woken(n, c)' = Woken(n, c) /\ k1 = k
    BY <1>5, <2>1 DEF Woken, callerVars
  <2> QED
    BY <1>1, <1>2, <1>3, <2>1, <2>2, <2>3
<1>12. ASSUME NEW j \in Node, RxAck(j) \/ RxNack(j) PROVE Goal
  <2>1. /\ UNCHANGED <<callerVars, ackEvt>> /\ rxPc[j] = "idle"
        /\ \/ rxPc' = rxPc /\ wakeups' = wakeups
           \/ /\ rxPc' = [rxPc EXCEPT ![j] = "set"]
              /\ wakeups' = [wakeups EXCEPT ![j] = @ + 1]
    BY <1>12 DEF RxAck, RxNack, Receives, ackVars
  <2>2. SetDue(n)' - SetDue(n) <= wakeups'[n] - wakeups[n]
    BY <1>0, <1>3, <2>1 DEF SetDue
  <2>3. Woken(n, c)' = Woken(n, c) /\ k1 = k
    BY <1>5, <2>1 DEF Woken, callerVars
  <2> QED
    BY <1>1, <1>2, <1>3, <2>2, <2>3
<1>13. ASSUME NEW j \in Node, RxSet(j) PROVE Goal
  <2>1. k1 = k /\ wakeups' = wakeups
    BY <1>5, <1>13 DEF RxSet, histVars
  <2>2. CASE j = n
    <3>1. SetDue(n) = 1 /\ SetDue(n)' = 0
      BY <1>0, <1>13, <2>2 DEF RxSet, SetDue
    <3> QED
      BY <1>1, <1>2, <1>3, <2>1, <3>1
  <2>3. CASE j # n
    <3>1. SetDue(n)' = SetDue(n) /\ Woken(n, c)' = Woken(n, c)
      BY <1>0, <1>13, <2>3 DEF RxSet, SetDue, Woken
    <3> QED
      BY <1>1, <1>2, <1>3, <2>1, <3>1
  <2> QED
    BY <2>2, <2>3
<1>14. ASSUME UNCHANGED vars PROVE Goal
  BY <1>6, <1>14 DEF vars, ackVars, rxVars, histVars
<1> HIDE DEF Goal
<1>15. ASSUME NEW e \in Caller, Call(e) \/ CallerStep(e) PROVE Goal
  BY <1>7, <1>8, <1>9, <1>15 DEF CallerStep
<1>16. ASSUME NEW j \in Node, RxStep(j) PROVE Goal
  BY <1>11, <1>12, <1>13, <1>16 DEF RxStep
<1> QED
  BY <1>10, <1>14, <1>15, <1>16 DEF Next

\* However late set() runs, a node with one caller never reports more
\* successes than it received answers to its pending frames.
THEOREM SuccessIsBudgeted == Spec => []SuccessBudget
<1>1. Init => TypeOK /\ TokenInv
  <2> SUFFICES ASSUME Init, NEW n \in Node, NEW c \in Caller
               PROVE  Cardinality(Oks(n)) + SetDue(n) + Woken(n, c) <= wakeups[n]
    BY InitType DEF TokenInv
  <2>1. Oks(n) = {}
    BY DEF Init, Oks
  <2> QED
    BY <2>1, FS_EmptySet DEF Init, SetDue, Woken
<1>2. (TypeOK /\ TokenInv) /\ [Next]_vars => (TypeOK /\ TokenInv)'
  BY NextType, NextToken
<1>3. TypeOK /\ TokenInv => SuccessBudget
  <2> SUFFICES ASSUME TypeOK, TokenInv, NEW n \in Node, Cardinality(CallersOf(n)) = 1
               PROVE  Cardinality(Oks(n)) <= wakeups[n]
    BY DEF SuccessBudget
  <2>1. IsFiniteSet(CallersOf(n))
    <3>1. CallersOf(n) \in SUBSET Caller
      BY DEF CallersOf
    <3> QED
      BY <3>1, MacAssumption, FS_Subset
  <2>2. PICK c : CallersOf(n) = {c}
    BY <2>1, FS_Singleton
  <2>3. c \in Caller
    BY <2>2 DEF CallersOf
  <2>4. Cardinality(Oks(n)) + SetDue(n) + Woken(n, c) <= wakeups[n]
    BY <2>2, <2>3 DEF TokenInv
  <2>5. SetDue(n) \in {0, 1} /\ Woken(n, c) \in {0, 1}
    BY DEF SetDue, Woken
  <2>6. wakeups[n] \in Nat /\ Cardinality(Oks(n)) \in Nat
    BY OksFinite DEF TypeOK, TypeHist
  <2> QED
    BY <2>4, <2>5, <2>6
<1> QED
  BY <1>1, <1>2, <1>3, PTL DEF Spec

-----------------------------------------------------------------------------
(* The refinement of ArqService.  Call is the service's Make, on_rx its    *)
(* Deliver; every other step stutters.                                     *)

LEMMA HandedOver ==
    ASSUME PathInv, BudgetInv, OrderInv, calls' = calls, NEW n \in Node, Hands(n)
    PROVE  \E m \in Msg : Service!Deliver(n, m)
<1> PICK m \in Msg : m = rxMsg[n]
  BY DEF Hands
<1>1. None \notin Msg /\ delivered[n] \in Seq(Msg)
  BY MacAssumption DEF PathInv, TypeOK, TypeHist
<1>2. InHandSet(n) = {m} /\ InHand(n, m) = 1
  BY <1>1 DEF InHandSet, InHand
<1>3. m[2] <= calls[m[1]]
  BY <1>2 DEF OrderInv, Got, Had
<1>4. ASSUME NEW i \in DOMAIN delivered[n], delivered[n][i][1] = m[1]
      PROVE  delivered[n][i][2] <= m[2]
  <2>1. Before(Range(delivered[n]), {m})
    BY <1>2 DEF OrderInv, NodeOrder
  <2>2. delivered[n][i] \in Range(delivered[n])
    BY DEF Range
  <2> QED
    BY <1>4, <2>1, <2>2 DEF Before
<1>5. Copies(n, m) < MaxRetries
  <2>1. Copies(n, m) + 1 <= MaxRetries
    BY <1>2, BudgetBound DEF PathInv
  <2>2. {i \in DOMAIN delivered[n] : delivered[n][i] = m} = PlacesOf(delivered[n], {m})
    BY DEF PlacesOf
  <2>3. Copies(n, m) \in Nat
    BY <1>1, <2>2, CountType DEF Copies, CountIn
  <2> QED
    BY <2>1, <2>3, MacAssumption
<1>6. delivered' = [delivered EXCEPT ![n] = Append(@, m)]
  BY DEF Hands
<1>7. Service!Cardinality({i \in DOMAIN delivered[n] : delivered[n][i] = m}) < MaxRetries
  BY <1>5 DEF Copies, Cardinality, Service!Cardinality
<1>8. Service!Deliver(n, m)
  BY <1>3, <1>4, <1>6, <1>7 DEF Service!Deliver
<1> QED
  BY <1>8

LEMMA ServiceStep ==
    ASSUME PathInv, BudgetInv, OrderInv, [Next]_vars
    PROVE  [Service!Next]_<<calls, delivered>>
<1>1. ASSUME NEW c \in Caller, Call(c) PROVE Service!Make(c)
  BY <1>1 DEF Call, Service!Make
<1>2. ASSUME \A c \in Caller : ~Call(c) PROVE calls' = calls
  BY <1>2 DEF Next, CallerStep, TxStep, RxStep, vars, callerVars, Arm, ClearEvt,
     PutData, EnterWait, Timeout, ReturnTrue, ReturnFalse, SendDatagram, TxControl,
     TxVideo, TxData, TxMiss, RxAreq, RxDeliver, RxProbe, RxAck, RxNack, RxSet,
     RxIgnore, Foreign
<1>3. ASSUME calls' = calls PROVE [Service!Next]_<<calls, delivered>>
  <2>1. delivered' = delivered \/ \E n \in Node : Hands(n)
    BY PathSteps DEF PutData, Sends, Noise, Takes, Drops, histVars
  <2>2. ASSUME NEW n \in Node, Hands(n) PROVE Service!Next
    BY <1>3, <2>2, HandedOver DEF Service!Next, Service!Msg, Msg
  <2> QED
    BY <1>3, <2>1, <2>2
<1> QED
  BY <1>1, <1>2, <1>3 DEF Service!Next

\* send_reliable, its worker and the receive dispatcher implement the
\* service for every number of nodes and callers, every topology and sizes.
THEOREM ArqImplementsService == Spec => ImplementsService
<1>1. Init => PathInv /\ BudgetInv /\ OrderInv /\ Service!Init
  BY InitPath, InitBudget, InitOrder DEF Init, Service!Init
<1>2. (PathInv /\ BudgetInv /\ OrderInv) /\ [Next]_vars
         => (PathInv /\ BudgetInv /\ OrderInv)'
  BY NextPath, NextBudget, NextOrder
<1>3. (PathInv /\ BudgetInv /\ OrderInv) /\ [Next]_vars
         => [Service!Next]_<<calls, delivered>>
  BY ServiceStep
<1> QED
  BY <1>1, <1>2, <1>3, PTL DEF Spec, ImplementsService, Service!Spec

=============================================================================
